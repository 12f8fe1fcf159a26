---------------------------- MODULE EepromProofs ----------------------------
(***************************************************************************)
(* Proofs about the I2C bus and the configuration memory behind it, for    *)
(* bytes of any width and a memory of any size: what each operation of the *)
(* driver makes of the chip, edge by edge, and from it what a transfer, a  *)
(* fault and a start leave.                                                *)
(***************************************************************************)
EXTENDS Eeprom, Induction

-----------------------------------------------------------------------------
(* Sequences of settings, and of operations.                               *)

(* The states r of a bus that begins as b and goes through events.         *)
RunOf(r, b, events) ==
  /\ DOMAIN r = 0 .. Len(events) /\ r = [i \in 0 .. Len(events) |-> r[i]]
  /\ r[0] = b /\ \A i \in 1 .. Len(events) : r[i] = Does(r[i - 1], events[i])

(* The member of a set that has no other.                                  *)
LEMMA OnlyOne == ASSUME NEW x PROVE The({x}) = x
BY DEF The

(* One event of a run.                                                     *)
LEMMA OneStep == \A y, e : The({ Does(x, e) : x \in {y} }) = Does(y, e)
<1> TAKE y, e
<1>1. { Does(x, e) : x \in {y} } = { Does(y, e) }
  OBVIOUS
<1>2. QED BY <1>1, OnlyOne

(* There is such a run.                                                    *)
LEMMA Runs == ASSUME NEW b, NEW events, Len(events) \in Nat PROVE \E r : RunOf(r, b, events)
<1> DEFINE n == Len(events)
           Upto(k) == \E r : /\ r = [i \in 0 .. k |-> r[i]] /\ r[0] = b
                             /\ \A i \in 1 .. k : r[i] = Does(r[i - 1], events[i])
           T == { k \in 0 .. n : Upto(k) }
<1>1. 0 \in T
  <2> DEFINE r == [i \in 0 .. 0 |-> b]
  <2>1. r = [i \in 0 .. 0 |-> r[i]] /\ r[0] = b /\ \A i \in 1 .. 0 : r[i] = Does(r[i - 1], events[i])
    OBVIOUS
  <2> HIDE DEF r
  <2>2. QED BY <2>1
<1>2. ASSUME NEW j \in 0 .. n - 1, j \in T PROVE j + 1 \in T
  <2>1. PICK r : r = [i \in 0 .. j |-> r[i]] /\ r[0] = b /\ \A i \in 1 .. j : r[i] = Does(r[i - 1], events[i])
    BY <1>2
  <2> DEFINE q == [i \in 0 .. j + 1 |-> IF i = j + 1 THEN Does(r[j], events[j + 1]) ELSE r[i]]
  <2>2. q = [i \in 0 .. j + 1 |-> q[i]] /\ q[0] = b
    BY <2>1
  <2>3. ASSUME NEW i \in 1 .. j + 1 PROVE q[i] = Does(q[i - 1], events[i])
    <3>1. i - 1 \in 0 .. j /\ i - 1 # j + 1 /\ q[i - 1] = r[i - 1]
      OBVIOUS
    <3>2. CASE i = j + 1
      <4>1. q[i] = Does(r[j], events[j + 1]) /\ i - 1 = j
        BY <3>2
      <4> HIDE DEF q
      <4>2. QED BY <3>1, <3>2, <4>1
    <3>3. CASE i # j + 1
      <4>1. i \in 1 .. j /\ q[i] = r[i]
        BY <3>3
      <4> HIDE DEF q
      <4>2. QED BY <2>1, <3>1, <4>1
    <3>4. QED BY <3>2, <3>3
  <2> HIDE DEF q
  <2>4. Upto(j + 1)
    BY <2>2, <2>3
  <2> HIDE DEF Upto
  <2>5. QED BY <2>4
<1>3. n \in T
  <2>1. n \in Nat
    OBVIOUS
  <2> HIDE DEF T, n
  <2>2. 0 .. n \subseteq T
    BY <1>1, <1>2, <2>1, CountUp
  <2>3. QED BY <2>1, <2>2
<1>4. PICK r : /\ r = [i \in 0 .. n |-> r[i]] /\ r[0] = b
               /\ \A i \in 1 .. n : r[i] = Does(r[i - 1], events[i])
  BY <1>3 DEF T
<1>5. QED BY <1>4 DEF RunOf

(* Its end is what the events make of the bus.                             *)
LEMMA RunEnds ==
  ASSUME NEW b, NEW events, Len(events) \in Nat, NEW r, RunOf(r, b, events)
  PROVE  Performed(b, events) = r[Len(events)]
<1> DEFINE n == Len(events)
           Def(f) == f = [i \in 0 .. n |-> IF i = 0 THEN b ELSE The({ Does(x, events[i]) : x \in {f[i - 1]} })]
           f == CHOOSE g : Def(g)
<1>1. Def(r)
  <2>1. \A i \in 0 .. n : r[i] = IF i = 0 THEN b ELSE The({ Does(x, events[i]) : x \in {r[i - 1]} })
    BY OneStep DEF RunOf
  <2>2. QED BY <2>1 DEF RunOf
<1>2. Def(f)
  BY <1>1
<1> DEFINE T == { i \in 0 .. n : f[i] = r[i] }
<1>3. f[0] = b /\ \A i \in 1 .. n : f[i] = Does(f[i - 1], events[i])
  <2> HIDE DEF f
  <2>1. \A i \in 0 .. n : f[i] = IF i = 0 THEN b ELSE The({ Does(x, events[i]) : x \in {f[i - 1]} })
    BY <1>2
  <2>2. 0 \in 0 .. n /\ \A i \in 1 .. n : i \in 0 .. n /\ i # 0
    OBVIOUS
  <2> HIDE DEF Def, n
  <2>3. f[0] = b
    BY <2>1, <2>2
  <2>4. QED BY <2>1, <2>2, <2>3, OneStep
<1> HIDE DEF f
<1>4. 0 \in T
  BY <1>3 DEF RunOf
<1>5. ASSUME NEW j \in 0 .. n - 1, j \in T PROVE j + 1 \in T
  <2>1. j + 1 \in 1 .. n /\ j + 1 - 1 = j
    OBVIOUS
  <2>2. f[j + 1] = Does(f[j], events[j + 1]) /\ r[j + 1] = Does(r[j], events[j + 1])
    <3> HIDE DEF Def
    <3>1. f[j + 1] = Does(f[j], events[j + 1])
      BY <1>3, <2>1
    <3>2. r[j + 1] = Does(r[j], events[j + 1])
      BY <2>1 DEF RunOf
    <3>3. QED BY <3>1, <3>2
  <2>3. QED BY <1>5, <2>1, <2>2
<1>6. n \in T
  <2>1. n \in Nat
    OBVIOUS
  <2> HIDE DEF T, n, Def
  <2>2. 0 .. n \subseteq T
    BY <1>4, <1>5, <2>1, CountUp
  <2>3. QED BY <2>1, <2>2
<1>7. Performed(b, events) = f[n]
  BY Zenon DEF Performed, f
<1>8. QED BY <1>6, <1>7

(* Without an event nothing changes.                                       *)
LEMMA PerformedNone == ASSUME NEW b PROVE Performed(b, << >>) = b
<1>1. PICK r : RunOf(r, b, << >>)
  BY Runs
<1>2. QED BY <1>1, RunEnds DEF RunOf

(* One after the other.                                                    *)
LEMMA PerformedCat ==
  ASSUME NEW b, NEW S, NEW s \in Seq(S), NEW t \in Seq(S)
  PROVE  Performed(b, s \o t) = Performed(Performed(b, s), t)
<1> DEFINE n == Len(s)
           m == Len(t)
<1>1. n \in Nat /\ m \in Nat /\ Len(s \o t) = n + m
      /\ (\A i \in 1 .. n : (s \o t)[i] = s[i]) /\ (\A i \in n + 1 .. n + m : (s \o t)[i] = t[i - n])
  OBVIOUS
<1> HIDE DEF n, m
<1>2. PICK p : RunOf(p, b, s)
  BY <1>1, Runs DEF n
<1>3. PICK q : RunOf(q, p[n], t)
  BY <1>1, Runs DEF m
<1> DEFINE r == [i \in 0 .. n + m |-> IF i <= n THEN p[i] ELSE q[i - n]]
<1>4. r = [i \in 0 .. n + m |-> r[i]] /\ DOMAIN r = 0 .. n + m /\ r[0] = b
  BY <1>1, <1>2 DEF RunOf
<1>5. ASSUME NEW i \in 1 .. n + m PROVE r[i] = Does(r[i - 1], (s \o t)[i])
  <2>1. i - 1 \in 0 .. n + m /\ i \in 0 .. n + m
    BY <1>1
  <2>2. CASE i <= n
    <3>1. i \in 1 .. n /\ i - 1 <= n
      BY <1>1, <2>2
    <3>2. r[i] = p[i] /\ r[i - 1] = p[i - 1]
      BY <2>1, <2>2, <3>1
    <3> HIDE DEF r
    <3>3. p[i] = Does(p[i - 1], s[i])
      BY <1>2, <3>1 DEF RunOf, n
    <3>4. QED BY <1>1, <3>1, <3>2, <3>3
  <2>3. CASE i > n
    <3>1. i \in n + 1 .. n + m /\ i - n \in 1 .. m /\ ~(i <= n)
      BY <1>1, <2>3
    <3>2. r[i] = q[i - n]
      BY <2>1, <3>1
    <3>3. r[i - 1] = q[i - n - 1]
      <4>1. CASE i - 1 = n
        <5>1. r[i - 1] = p[n] /\ i - n - 1 = 0
          BY <1>1, <2>1, <4>1
        <5> HIDE DEF r
        <5>2. QED BY <5>1, <1>3 DEF RunOf
      <4>2. CASE i - 1 # n
        <5>1. ~(i - 1 <= n) /\ i - 1 - n = i - n - 1
          BY <1>1, <3>1, <4>2
        <5>2. QED BY <2>1, <5>1
      <4>3. QED BY <4>1, <4>2
    <3> HIDE DEF r
    <3>4. q[i - n] = Does(q[i - n - 1], t[i - n])
      BY <1>3, <3>1 DEF RunOf, m
    <3>5. QED BY <1>1, <3>1, <3>2, <3>3, <3>4
  <2>4. QED BY <1>1, <2>2, <2>3
<1>6. r[n + m] = q[m]
  <2>1. CASE m = 0
    <3>1. r[n + m] = p[n]
      BY <1>1, <2>1
    <3> HIDE DEF r
    <3>2. QED BY <3>1, <2>1, <1>3 DEF RunOf
  <2>2. CASE m # 0
    BY <1>1, <2>2
  <2>3. QED BY <2>1, <2>2
<1> HIDE DEF r
<1>7. RunOf(r, b, s \o t)
  BY <1>1, <1>4, <1>5 DEF RunOf
<1>8. Performed(b, s \o t) = r[n + m] /\ Performed(b, s) = p[n] /\ Performed(p[n], t) = q[m]
  <2>1. Performed(b, s) = p[n]
    <3>1. Len(s) \in Nat
      OBVIOUS
    <3>2. QED BY <3>1, <1>2, RunEnds DEF n
  <2>2. Performed(p[n], t) = q[m]
    <3>1. Len(t) \in Nat
      OBVIOUS
    <3>2. QED BY <3>1, <1>3, RunEnds DEF m
  <2>3. Performed(b, s \o t) = r[n + m]
    <3>1. Len(s \o t) \in Nat
      BY <1>1
    <3> DEFINE u == s \o t
    <3>2. Len(u) \in Nat /\ RunOf(r, b, u) /\ Len(u) = n + m
      BY <1>1, <1>7, <3>1
    <3> HIDE DEF u
    <3>3. Performed(b, u) = r[Len(u)]
      BY <3>2, RunEnds
    <3>4. QED BY <3>2, <3>3 DEF u
  <2>4. QED BY <2>1, <2>2, <2>3
<1>9. QED BY <1>6, <1>8

(* A single event.                                                         *)
LEMMA PerformedOne == ASSUME NEW b, NEW e PROVE Performed(b, << e >>) = Does(b, e)
<1>1. Len(<< e >>) = 1 /\ << e >>[1] = e /\ 1 \in 1 .. 1 /\ 1 - 1 = 0
  OBVIOUS
<1>2. PICK r : RunOf(r, b, << e >>)
  BY <1>1, Runs
<1>3. r[0] = b /\ r[1] = Does(r[0], e)
  BY <1>1, <1>2 DEF RunOf
<1>4. Performed(b, << e >>) = r[1]
  BY <1>1, <1>2, RunEnds
<1>5. QED BY <1>3, <1>4

(* The first event, and then the others.                                   *)
LEMMA PerformedNext ==
  ASSUME NEW b, NEW S, NEW s \in Seq(S), NEW e \in S
  PROVE  Performed(b, Append(s, e)) = Does(Performed(b, s), e)
<1> DEFINE t == << e >>
<1>1. Append(s, e) = s \o t /\ t \in Seq(S)
  OBVIOUS
<1>2. \A x : Performed(x, t) = Does(x, e)
  BY PerformedOne
<1> HIDE DEF t
<1>3. Performed(b, s \o t) = Performed(Performed(b, s), t)
  BY <1>1, PerformedCat
<1>4. QED BY <1>1, <1>2, <1>3

(* Two events.                                                             *)
LEMMA PerformedTwo ==
  ASSUME NEW b, NEW e, NEW f
  PROVE  Performed(b, << e, f >>) = Does(Does(b, e), f)
<1> DEFINE S == {e, f}
           s == << e >>
<1>1. s \in Seq(S) /\ f \in S /\ << e, f >> = Append(s, f)
  OBVIOUS
<1>2. Performed(b, s) = Does(b, e)
  BY PerformedOne
<1> HIDE DEF S, s
<1>3. Performed(b, Append(s, f)) = Does(Performed(b, s), f)
  BY <1>1, PerformedNext
<1>4. QED BY <1>1, <1>2, <1>3

(* Three of them.                                                          *)
LEMMA PerformedThree ==
  ASSUME NEW b, NEW e, NEW f, NEW g
  PROVE  Performed(b, << e, f, g >>) = Does(Does(Does(b, e), f), g)
<1> DEFINE S == {e, f, g}
           s == << e, f >>
<1>1. s \in Seq(S) /\ g \in S /\ << e, f, g >> = Append(s, g)
  OBVIOUS
<1>2. Performed(b, s) = Does(Does(b, e), f)
  BY PerformedTwo
<1> HIDE DEF S, s
<1>3. Performed(b, Append(s, g)) = Does(Performed(b, s), g)
  BY <1>1, PerformedNext
<1>4. QED BY <1>1, <1>2, <1>3

(* Four of them.                                                           *)
LEMMA PerformedFour ==
  ASSUME NEW b, NEW e, NEW f, NEW g, NEW h
  PROVE  Performed(b, << e, f, g, h >>) = Does(Does(Does(Does(b, e), f), g), h)
<1> DEFINE S == {e, f, g, h}
           s == << e, f, g >>
<1>1. s \in Seq(S) /\ h \in S /\ << e, f, g, h >> = Append(s, h)
  OBVIOUS
<1>2. Performed(b, s) = Does(Does(Does(b, e), f), g)
  BY PerformedThree
<1> HIDE DEF S, s
<1>3. Performed(b, Append(s, h)) = Does(Performed(b, s), h)
  BY <1>1, PerformedNext
<1>4. QED BY <1>1, <1>2, <1>3

(* Five of them.                                                           *)
LEMMA PerformedFive ==
  ASSUME NEW b, NEW e, NEW f, NEW g, NEW h, NEW i
  PROVE  Performed(b, << e, f, g, h, i >>) = Does(Does(Does(Does(Does(b, e), f), g), h), i)
<1> DEFINE S == {e, f, g, h, i}
           s == << e, f, g, h >>
<1>1. s \in Seq(S) /\ i \in S /\ << e, f, g, h, i >> = Append(s, i)
  OBVIOUS
<1>2. Performed(b, s) = Does(Does(Does(Does(b, e), f), g), h)
  BY PerformedFour
<1> HIDE DEF S, s
<1>3. Performed(b, Append(s, i)) = Does(Performed(b, s), i)
  BY <1>1, PerformedNext
<1>4. QED BY <1>1, <1>2, <1>3

(* The same for whole operations.                                          *)
OperationsOf(r, b, operations) ==
  /\ DOMAIN r = 0 .. Len(operations) /\ r = [i \in 0 .. Len(operations) |-> r[i]]
  /\ r[0] = b /\ \A i \in 1 .. Len(operations) : r[i] = Performed(r[i - 1], operations[i])

(* One operation of a run.                                                 *)
LEMMA OneOperation == \A y, e : The({ Performed(x, e) : x \in {y} }) = Performed(y, e)
<1> TAKE y, e
<1>1. { Performed(x, e) : x \in {y} } = { Performed(y, e) }
  OBVIOUS
<1>2. QED BY <1>1, OnlyOne

(* There is such a run of operations.                                      *)
LEMMA OperationsRun == ASSUME NEW b, NEW operations, Len(operations) \in Nat PROVE \E r : OperationsOf(r, b, operations)
<1> DEFINE n == Len(operations)
           Upto(k) == \E r : /\ r = [i \in 0 .. k |-> r[i]] /\ r[0] = b
                             /\ \A i \in 1 .. k : r[i] = Performed(r[i - 1], operations[i])
           T == { k \in 0 .. n : Upto(k) }
<1>1. 0 \in T
  <2> DEFINE r == [i \in 0 .. 0 |-> b]
  <2>1. r = [i \in 0 .. 0 |-> r[i]] /\ r[0] = b /\ \A i \in 1 .. 0 : r[i] = Performed(r[i - 1], operations[i])
    OBVIOUS
  <2> HIDE DEF r
  <2>2. QED BY <2>1
<1>2. ASSUME NEW j \in 0 .. n - 1, j \in T PROVE j + 1 \in T
  <2>1. PICK r : r = [i \in 0 .. j |-> r[i]] /\ r[0] = b /\ \A i \in 1 .. j : r[i] = Performed(r[i - 1], operations[i])
    BY <1>2
  <2> DEFINE q == [i \in 0 .. j + 1 |-> IF i = j + 1 THEN Performed(r[j], operations[j + 1]) ELSE r[i]]
  <2>2. q = [i \in 0 .. j + 1 |-> q[i]] /\ q[0] = b
    BY <2>1
  <2>3. ASSUME NEW i \in 1 .. j + 1 PROVE q[i] = Performed(q[i - 1], operations[i])
    <3>1. i - 1 \in 0 .. j /\ i - 1 # j + 1 /\ q[i - 1] = r[i - 1]
      OBVIOUS
    <3>2. CASE i = j + 1
      <4>1. q[i] = Performed(r[j], operations[j + 1]) /\ i - 1 = j
        BY <3>2
      <4> HIDE DEF q
      <4>2. QED BY <3>1, <3>2, <4>1
    <3>3. CASE i # j + 1
      <4>1. i \in 1 .. j /\ q[i] = r[i]
        BY <3>3
      <4> HIDE DEF q
      <4>2. QED BY <2>1, <3>1, <4>1
    <3>4. QED BY <3>2, <3>3
  <2> HIDE DEF q
  <2>4. Upto(j + 1)
    BY <2>2, <2>3
  <2> HIDE DEF Upto
  <2>5. QED BY <2>4
<1>3. n \in T
  <2>1. n \in Nat
    OBVIOUS
  <2> HIDE DEF T, n
  <2>2. 0 .. n \subseteq T
    BY <1>1, <1>2, <2>1, CountUp
  <2>3. QED BY <2>1, <2>2
<1>4. PICK r : /\ r = [i \in 0 .. n |-> r[i]] /\ r[0] = b
               /\ \A i \in 1 .. n : r[i] = Performed(r[i - 1], operations[i])
  BY <1>3 DEF T
<1>5. QED BY <1>4 DEF OperationsOf

(* Its end is what they make of the bus.                                   *)
LEMMA OperationsEnd ==
  ASSUME NEW b, NEW operations, Len(operations) \in Nat, NEW r, OperationsOf(r, b, operations)
  PROVE  After(b, operations) = r[Len(operations)]
<1> DEFINE n == Len(operations)
           Def(f) == f = [i \in 0 .. n |-> IF i = 0 THEN b ELSE The({ Performed(x, operations[i]) : x \in {f[i - 1]} })]
           f == CHOOSE g : Def(g)
<1>1. Def(r)
  <2>1. \A i \in 0 .. n : r[i] = IF i = 0 THEN b ELSE The({ Performed(x, operations[i]) : x \in {r[i - 1]} })
    BY OneOperation DEF OperationsOf
  <2>2. QED BY <2>1 DEF OperationsOf
<1>2. Def(f)
  BY <1>1
<1> DEFINE T == { i \in 0 .. n : f[i] = r[i] }
<1>3. f[0] = b /\ \A i \in 1 .. n : f[i] = Performed(f[i - 1], operations[i])
  <2> HIDE DEF f
  <2>1. \A i \in 0 .. n : f[i] = IF i = 0 THEN b ELSE The({ Performed(x, operations[i]) : x \in {f[i - 1]} })
    BY <1>2
  <2>2. 0 \in 0 .. n /\ \A i \in 1 .. n : i \in 0 .. n /\ i # 0
    OBVIOUS
  <2> HIDE DEF Def, n
  <2>3. f[0] = b
    BY <2>1, <2>2
  <2>4. QED BY <2>1, <2>2, <2>3, OneOperation
<1> HIDE DEF f
<1>4. 0 \in T
  BY <1>3 DEF OperationsOf
<1>5. ASSUME NEW j \in 0 .. n - 1, j \in T PROVE j + 1 \in T
  <2>1. j + 1 \in 1 .. n /\ j + 1 - 1 = j
    OBVIOUS
  <2>2. f[j + 1] = Performed(f[j], operations[j + 1]) /\ r[j + 1] = Performed(r[j], operations[j + 1])
    <3> HIDE DEF Def
    <3>1. f[j + 1] = Performed(f[j], operations[j + 1])
      BY <1>3, <2>1
    <3>2. r[j + 1] = Performed(r[j], operations[j + 1])
      BY <2>1 DEF OperationsOf
    <3>3. QED BY <3>1, <3>2
  <2>3. QED BY <1>5, <2>1, <2>2
<1>6. n \in T
  <2>1. n \in Nat
    OBVIOUS
  <2> HIDE DEF T, n, Def
  <2>2. 0 .. n \subseteq T
    BY <1>4, <1>5, <2>1, CountUp
  <2>3. QED BY <2>1, <2>2
<1>7. After(b, operations) = f[n]
  BY Zenon DEF After, f
<1>8. QED BY <1>6, <1>7
(* Without an operation nothing changes.                                   *)
LEMMA AfterNone == ASSUME NEW b PROVE After(b, << >>) = b
<1>1. PICK r : OperationsOf(r, b, << >>)
  BY OperationsRun
<1>2. QED BY <1>1, OperationsEnd DEF OperationsOf

(* One after the other.                                                    *)
LEMMA AfterCat ==
  ASSUME NEW b, NEW S, NEW s \in Seq(S), NEW t \in Seq(S)
  PROVE  After(b, s \o t) = After(After(b, s), t)
<1> DEFINE n == Len(s)
           m == Len(t)
<1>1. n \in Nat /\ m \in Nat /\ Len(s \o t) = n + m
      /\ (\A i \in 1 .. n : (s \o t)[i] = s[i]) /\ (\A i \in n + 1 .. n + m : (s \o t)[i] = t[i - n])
  OBVIOUS
<1> HIDE DEF n, m
<1>2. PICK p : OperationsOf(p, b, s)
  BY <1>1, OperationsRun DEF n
<1>3. PICK q : OperationsOf(q, p[n], t)
  BY <1>1, OperationsRun DEF m
<1> DEFINE r == [i \in 0 .. n + m |-> IF i <= n THEN p[i] ELSE q[i - n]]
<1>4. r = [i \in 0 .. n + m |-> r[i]] /\ DOMAIN r = 0 .. n + m /\ r[0] = b
  BY <1>1, <1>2 DEF OperationsOf
<1>5. ASSUME NEW i \in 1 .. n + m PROVE r[i] = Performed(r[i - 1], (s \o t)[i])
  <2>1. i - 1 \in 0 .. n + m /\ i \in 0 .. n + m
    BY <1>1
  <2>2. CASE i <= n
    <3>1. i \in 1 .. n /\ i - 1 <= n
      BY <1>1, <2>2
    <3>2. r[i] = p[i] /\ r[i - 1] = p[i - 1]
      BY <2>1, <2>2, <3>1
    <3> HIDE DEF r
    <3>3. p[i] = Performed(p[i - 1], s[i])
      BY <1>2, <3>1 DEF OperationsOf, n
    <3>4. QED BY <1>1, <3>1, <3>2, <3>3
  <2>3. CASE i > n
    <3>1. i \in n + 1 .. n + m /\ i - n \in 1 .. m /\ ~(i <= n)
      BY <1>1, <2>3
    <3>2. r[i] = q[i - n]
      BY <2>1, <3>1
    <3>3. r[i - 1] = q[i - n - 1]
      <4>1. CASE i - 1 = n
        <5>1. r[i - 1] = p[n] /\ i - n - 1 = 0
          BY <1>1, <2>1, <4>1
        <5> HIDE DEF r
        <5>2. QED BY <5>1, <1>3 DEF OperationsOf
      <4>2. CASE i - 1 # n
        <5>1. ~(i - 1 <= n) /\ i - 1 - n = i - n - 1
          BY <1>1, <3>1, <4>2
        <5>2. QED BY <2>1, <5>1
      <4>3. QED BY <4>1, <4>2
    <3> HIDE DEF r
    <3>4. q[i - n] = Performed(q[i - n - 1], t[i - n])
      BY <1>3, <3>1 DEF OperationsOf, m
    <3>5. QED BY <1>1, <3>1, <3>2, <3>3, <3>4
  <2>4. QED BY <1>1, <2>2, <2>3
<1>6. r[n + m] = q[m]
  <2>1. CASE m = 0
    <3>1. r[n + m] = p[n]
      BY <1>1, <2>1
    <3> HIDE DEF r
    <3>2. QED BY <3>1, <2>1, <1>3 DEF OperationsOf
  <2>2. CASE m # 0
    BY <1>1, <2>2
  <2>3. QED BY <2>1, <2>2
<1> HIDE DEF r
<1>7. OperationsOf(r, b, s \o t)
  BY <1>1, <1>4, <1>5 DEF OperationsOf
<1>8. After(b, s \o t) = r[n + m] /\ After(b, s) = p[n] /\ After(p[n], t) = q[m]
  <2>1. After(b, s) = p[n]
    <3>1. Len(s) \in Nat
      OBVIOUS
    <3>2. QED BY <3>1, <1>2, OperationsEnd DEF n
  <2>2. After(p[n], t) = q[m]
    <3>1. Len(t) \in Nat
      OBVIOUS
    <3>2. QED BY <3>1, <1>3, OperationsEnd DEF m
  <2>3. After(b, s \o t) = r[n + m]
    <3>1. Len(s \o t) \in Nat
      BY <1>1
    <3> DEFINE u == s \o t
    <3>2. Len(u) \in Nat /\ OperationsOf(r, b, u) /\ Len(u) = n + m
      BY <1>1, <1>7, <3>1
    <3> HIDE DEF u
    <3>3. After(b, u) = r[Len(u)]
      BY <3>2, OperationsEnd
    <3>4. QED BY <3>2, <3>3 DEF u
  <2>4. QED BY <2>1, <2>2, <2>3
<1>9. QED BY <1>6, <1>8

(* A single operation.                                                     *)
LEMMA AfterOne == ASSUME NEW b, NEW e PROVE After(b, << e >>) = Performed(b, e)
<1>1. Len(<< e >>) = 1 /\ << e >>[1] = e /\ 1 \in 1 .. 1 /\ 1 - 1 = 0
  OBVIOUS
<1>2. PICK r : OperationsOf(r, b, << e >>)
  BY <1>1, OperationsRun
<1>3. r[0] = b /\ r[1] = Performed(r[0], e)
  BY <1>1, <1>2 DEF OperationsOf
<1>4. After(b, << e >>) = r[1]
  BY <1>1, <1>2, OperationsEnd
<1>5. QED BY <1>3, <1>4

(* The first operation, and then the others.                               *)
LEMMA AfterNext ==
  ASSUME NEW b, NEW S, NEW s \in Seq(S), NEW e \in S
  PROVE  After(b, Append(s, e)) = Performed(After(b, s), e)
<1> DEFINE t == << e >>
<1>1. Append(s, e) = s \o t /\ t \in Seq(S)
  OBVIOUS
<1>2. \A x : After(x, t) = Performed(x, e)
  BY AfterOne
<1> HIDE DEF t
<1>3. After(b, s \o t) = After(After(b, s), t)
  BY <1>1, AfterCat
<1>4. QED BY <1>1, <1>2, <1>3

(* Two operations.                                                         *)
LEMMA AfterTwo ==
  ASSUME NEW b, NEW e, NEW f
  PROVE  After(b, << e, f >>) = Performed(Performed(b, e), f)
<1> DEFINE S == {e, f}
           s == << e >>
<1>1. s \in Seq(S) /\ f \in S /\ << e, f >> = Append(s, f)
  OBVIOUS
<1>2. After(b, s) = Performed(b, e)
  BY AfterOne
<1> HIDE DEF S, s
<1>3. After(b, Append(s, f)) = Performed(After(b, s), f)
  BY <1>1, AfterNext
<1>4. QED BY <1>1, <1>2, <1>3

(* Three of them.                                                          *)
LEMMA AfterThree ==
  ASSUME NEW b, NEW e, NEW f, NEW g
  PROVE  After(b, << e, f, g >>) = Performed(Performed(Performed(b, e), f), g)
<1> DEFINE S == {e, f, g}
           s == << e, f >>
<1>1. s \in Seq(S) /\ g \in S /\ << e, f, g >> = Append(s, g)
  OBVIOUS
<1>2. After(b, s) = Performed(Performed(b, e), f)
  BY AfterTwo
<1> HIDE DEF S, s
<1>3. After(b, Append(s, g)) = Performed(After(b, s), g)
  BY <1>1, AfterNext
<1>4. QED BY <1>1, <1>2, <1>3

(* Four of them.                                                           *)
LEMMA AfterFour ==
  ASSUME NEW b, NEW e, NEW f, NEW g, NEW h
  PROVE  After(b, << e, f, g, h >>) = Performed(Performed(Performed(Performed(b, e), f), g), h)
<1> DEFINE S == {e, f, g, h}
           s == << e, f, g >>
<1>1. s \in Seq(S) /\ h \in S /\ << e, f, g, h >> = Append(s, h)
  OBVIOUS
<1>2. After(b, s) = Performed(Performed(Performed(b, e), f), g)
  BY AfterThree
<1> HIDE DEF S, s
<1>3. After(b, Append(s, h)) = Performed(After(b, s), h)
  BY <1>1, AfterNext
<1>4. QED BY <1>1, <1>2, <1>3

(* Five of them.                                                           *)
LEMMA AfterFive ==
  ASSUME NEW b, NEW e, NEW f, NEW g, NEW h, NEW i
  PROVE  After(b, << e, f, g, h, i >>) = Performed(Performed(Performed(Performed(Performed(b, e), f), g), h), i)
<1> DEFINE S == {e, f, g, h, i}
           s == << e, f, g, h >>
<1>1. s \in Seq(S) /\ i \in S /\ << e, f, g, h, i >> = Append(s, i)
  OBVIOUS
<1>2. After(b, s) = Performed(Performed(Performed(Performed(b, e), f), g), h)
  BY AfterFour
<1> HIDE DEF S, s
<1>3. After(b, Append(s, i)) = Performed(After(b, s), i)
  BY <1>1, AfterNext
<1>4. QED BY <1>1, <1>2, <1>3

(* What each of the events keeps in a set, they all do.                    *)
LEMMA RunIn ==
  ASSUME NEW S, NEW b \in S, NEW events, Len(events) \in Nat,
         \A x \in S : \A i \in 1 .. Len(events) : Does(x, events[i]) \in S,
         NEW r, RunOf(r, b, events)
  PROVE  \A i \in 0 .. Len(events) : r[i] \in S
<1> DEFINE n == Len(events)
           T == { i \in 0 .. n : r[i] \in S }
<1>0. r[0] = b /\ \A i \in 1 .. n : r[i] = Does(r[i - 1], events[i])
  BY DEF RunOf
<1>1. 0 \in T
  BY <1>0
<1>2. ASSUME NEW j \in 0 .. n - 1, j \in T PROVE j + 1 \in T
  <2>1. j + 1 \in 1 .. n /\ j + 1 - 1 = j /\ r[j] \in S
    BY <1>2
  <2>2. r[j + 1] = Does(r[j], events[j + 1])
    <3> HIDE DEF n, T
    <3>1. QED BY <1>0, <2>1
  <2>3. QED BY <2>1, <2>2
<1>3. n \in Nat
  OBVIOUS
<1> HIDE DEF n, T
<1>4. 0 .. n \subseteq T
  BY <1>1, <1>2, <1>3, CountUp
<1>5. QED BY <1>4 DEF n, T

(* A set kept by each of the events holds where they end ...               *)
LEMMA PerformedIn ==
  ASSUME NEW S, NEW b \in S, NEW events, Len(events) \in Nat,
         \A x \in S : \A i \in 1 .. Len(events) : Does(x, events[i]) \in S
  PROVE  Performed(b, events) \in S
<1>1. PICK r : RunOf(r, b, events)
  BY Runs
<1>2. \A i \in 0 .. Len(events) : r[i] \in S
  BY <1>1, RunIn
<1>3. Len(events) \in 0 .. Len(events)
  OBVIOUS
<1>4. QED BY <1>1, <1>2, <1>3, RunEnds

(* All that the bus goes through on the way are the states of a run.       *)
LEMMA PassedIs ==
  ASSUME NEW b, NEW events, Len(events) \in Nat, NEW r, RunOf(r, b, events)
  PROVE  Passed(b, events) = { r[i] : i \in 0 .. Len(events) }
<1> DEFINE n == Len(events)
           Def(f) == f = [i \in 0 .. n |->
                            IF i = 0 THEN << b >>
                            ELSE The({ Append(p, Does(p[i], events[i])) : p \in {f[i - 1]} })]
           f == CHOOSE g : Def(g)
           h == [i \in 0 .. n |-> [k \in 1 .. i + 1 |-> r[k - 1]]]
<1>0. \A p, i, e : The({ Append(q, Does(q[i], e)) : q \in {p} }) = Append(p, Does(p[i], e))
  <2> TAKE p, i, e
  <2>1. { Append(q, Does(q[i], e)) : q \in {p} } = { Append(p, Does(p[i], e)) }
    OBVIOUS
  <2>2. QED BY <2>1, OnlyOne
<1>1. /\ h[0] = << b >>
      /\ \A i \in 1 .. n : h[i] = Append(h[i - 1], Does(h[i - 1][i], events[i]))
  <2>1. h[0] = << b >>
    <3>1. h[0] = [k \in 1 .. 1 |-> r[k - 1]]
      OBVIOUS
    <3> HIDE DEF h
    <3>2. h[0] = << r[0] >>
      BY <3>1
    <3>3. QED BY <3>2 DEF RunOf
  <2>2. ASSUME NEW i \in 1 .. n PROVE h[i] = Append(h[i - 1], Does(h[i - 1][i], events[i]))
    <3>1. i \in 1 .. n /\ i \in 0 .. n /\ i - 1 \in 0 .. n
      OBVIOUS
    <3>2. h[i - 1] = [k \in 1 .. i |-> r[k - 1]] /\ h[i] = [k \in 1 .. i + 1 |-> r[k - 1]]
      BY <3>1
    <3> HIDE DEF h
    <3>0. \A k \in 1 .. n : r[k] = Does(r[k - 1], events[k])
      BY DEF RunOf
    <3> HIDE DEF n
    <3>a. h[i - 1][i] = r[i - 1]
      BY <3>1, <3>2
    <3>b. r[i] = Does(r[i - 1], events[i])
      BY <3>0, <3>1
    <3>3. h[i - 1][i] = r[i - 1] /\ r[i] = Does(r[i - 1], events[i])
      BY <3>a, <3>b
    <3>4. h[i] = Append(h[i - 1], r[i])
      BY <3>1, <3>2
    <3>5. QED BY <3>3, <3>4
  <2>3. QED BY <2>1, <2>2
<1>2. Def(h)
  <2>1. h = [i \in 0 .. n |-> h[i]]
    OBVIOUS
  <2> HIDE DEF h
  <2>2. ASSUME NEW i \in 0 .. n
        PROVE  h[i] = IF i = 0 THEN << b >> ELSE The({ Append(p, Does(p[i], events[i])) : p \in {h[i - 1]} })
    <3>1. CASE i = 0
      BY <1>1, <3>1
    <3>2. CASE i # 0
      <4>1. i \in 1 .. n
        BY <3>2
      <4> HIDE DEF n
      <4>2. h[i] = Append(h[i - 1], Does(h[i - 1][i], events[i]))
        BY <1>1, <4>1
      <4>3. QED BY <1>0, <3>2, <4>2
    <3>3. QED BY <3>1, <3>2
  <2>3. QED BY <2>1, <2>2
<1>3. Def(f)
  <2> HIDE DEF h
  <2>1. QED BY <1>2
<1>4. f[0] = << b >> /\ \A i \in 1 .. n : f[i] = Append(f[i - 1], Does(f[i - 1][i], events[i]))
  <2> HIDE DEF f
  <2>1. \A i \in 0 .. n :
          f[i] = IF i = 0 THEN << b >> ELSE The({ Append(p, Does(p[i], events[i])) : p \in {f[i - 1]} })
    BY <1>3
  <2>2. 0 \in 0 .. n /\ \A i \in 1 .. n : i \in 0 .. n /\ i # 0
    OBVIOUS
  <2> HIDE DEF Def, n
  <2>3. f[0] = << b >>
    BY <2>1, <2>2
  <2>4. ASSUME NEW i \in 1 .. n PROVE f[i] = Append(f[i - 1], Does(f[i - 1][i], events[i]))
    <3>1. f[i] = The({ Append(p, Does(p[i], events[i])) : p \in {f[i - 1]} })
      BY <2>1, <2>2
    <3> DEFINE q == f[i - 1]
               e == events[i]
    <3>2. f[i] = The({ Append(p, Does(p[i], e)) : p \in {q} })
      BY <3>1
    <3> HIDE DEF q, e
    <3>3. f[i] = Append(q, Does(q[i], e))
      BY <1>0, <3>2
    <3>4. QED BY <3>3 DEF q, e
  <2>5. QED BY <2>3, <2>4
<1> HIDE DEF f, h, Def
<1> DEFINE T == { i \in 0 .. n : f[i] = h[i] }
<1>5. n \in Nat
  OBVIOUS
<1> HIDE DEF n
<1>6. 0 \in T
  <2>1. 0 \in 0 .. n /\ f[0] = h[0]
    BY <1>1, <1>4, <1>5
  <2>2. QED BY <2>1
<1>7. ASSUME NEW j \in 0 .. n - 1, j \in T PROVE j + 1 \in T
  <2>1. j + 1 \in 1 .. n /\ j + 1 - 1 = j
    BY <1>5
  <2> HIDE DEF T
  <2>2. f[j + 1] = Append(f[j], Does(f[j][j + 1], events[j + 1]))
    BY <1>4, <2>1
  <2>3. h[j + 1] = Append(h[j], Does(h[j][j + 1], events[j + 1]))
    BY <1>1, <2>1
  <2>4. f[j] = h[j]
    BY <1>7 DEF T
  <2>5. f[j + 1] = h[j + 1]
    BY <2>2, <2>3, <2>4
  <2>6. j + 1 \in 0 .. n
    BY <1>5
  <2>7. QED BY <2>5, <2>6 DEF T
<1>8. f[n] = h[n]
  <2> HIDE DEF T
  <2>1. 0 .. n \subseteq T
    BY <1>5, <1>6, <1>7, CountUp
  <2>2. QED BY <1>5, <2>1 DEF T
<1>9. Passed(b, events) = Range(f[n])
  BY Zenon DEF Passed, f, Def, n
<1>10. h[n] = [k \in 1 .. n + 1 |-> r[k - 1]]
  BY <1>5 DEF h
<1>11. Range(h[n]) = { r[i] : i \in 0 .. n }
  <2>1. \A k \in 1 .. n + 1 : k - 1 \in 0 .. n
    BY <1>5
  <2>2. \A i \in 0 .. n : i + 1 \in 1 .. n + 1 /\ i + 1 - 1 = i
    BY <1>5
  <2>3. Range(h[n]) = { r[k - 1] : k \in 1 .. n + 1 }
    BY <1>10 DEF Range
  <2>4. QED BY <2>1, <2>2, <2>3
<1>12. QED BY <1>8, <1>9, <1>11 DEF n

(* ... and on the way ...                                                  *)
LEMMA PassedIn ==
  ASSUME NEW S, NEW b \in S, NEW events, Len(events) \in Nat,
         \A x \in S : \A i \in 1 .. Len(events) : Does(x, events[i]) \in S
  PROVE  Passed(b, events) \subseteq S
<1>1. PICK r : RunOf(r, b, events)
  BY Runs
<1>2. \A i \in 0 .. Len(events) : r[i] \in S
  BY <1>1, RunIn
<1>3. QED BY <1>1, <1>2, PassedIs

(* ... and where whole operations end.                                     *)
LEMMA AfterIn ==
  ASSUME NEW S, NEW b \in S, NEW operations, Len(operations) \in Nat,
         \A x \in S : \A i \in 1 .. Len(operations) : Performed(x, operations[i]) \in S
  PROVE  After(b, operations) \in S
<1> DEFINE n == Len(operations)
<1>1. PICK r : OperationsOf(r, b, operations)
  BY OperationsRun
<1> DEFINE T == { i \in 0 .. n : r[i] \in S }
<1>0. r[0] = b /\ \A i \in 1 .. n : r[i] = Performed(r[i - 1], operations[i])
  BY <1>1 DEF OperationsOf
<1>2. 0 \in T
  BY <1>0
<1>3. ASSUME NEW j \in 0 .. n - 1, j \in T PROVE j + 1 \in T
  <2>1. j + 1 \in 1 .. n /\ j + 1 - 1 = j /\ r[j] \in S
    BY <1>3
  <2>2. r[j + 1] = Performed(r[j], operations[j + 1])
    <3> HIDE DEF n, T
    <3>1. QED BY <1>0, <2>1
  <2>3. QED BY <2>1, <2>2
<1>4. n \in Nat
  OBVIOUS
<1> HIDE DEF n, T
<1>5. 0 .. n \subseteq T
  BY <1>2, <1>3, <1>4, CountUp
<1>6. r[n] \in S
  BY <1>4, <1>5 DEF T
<1>7. QED BY <1>1, <1>6, OperationsEnd DEF n

-----------------------------------------------------------------------------
(* The chip, setting by setting.                                           *)

(* The states of a bus with a chip of the addresses D, and with a byte     *)
(* that has as many bits as have been counted.                             *)
Lines(D) ==
  [scl : {0, 1}, sda : {0, 1}, out : {0, 1},
   mode : {"idle", "device", "high", "low", "data", "send"},
   n : 0 .. Width + 1, byte : 0 .. Blank, at : Nat, pend : Seq(0 .. Blank),
   busy : BOOLEAN, deaf : BOOLEAN, mem : [D -> 0 .. Blank], got : Seq({0, 1})]

(* What the chip puts on SDA and what it holds back go with what it takes  *)
(* the byte for.                                                           *)
Consistent(b) ==
  /\ Receives(b) => b.n <= Width /\ b.byte < 2 ^ b.n /\ (b.out = 0 => b.n = Width)
  /\ b.mode = "send" => b.n >= 1 /\ (b.n = Width + 1 => b.out = 1)
  /\ b.mode = "idle" => b.out = 1
  /\ b.pend # << >> => b.mode = "data"

(* Both.                                                                   *)
Bus(D) == { b \in Lines(D) : Consistent(b) }

(* The sizes of bytes and addresses.                                       *)
LEMMA Powers ==
  /\ Width \in Nat /\ Width > 0 /\ Byte \in Nat /\ Byte > 1 /\ Blank \in Nat /\ Blank = Byte - 1 /\ Blank > 0
  /\ 2 ^ 0 = 1
  /\ \A k \in 0 .. Width : 2 ^ k \in Nat /\ 2 ^ k > 0 /\ 2 ^ k <= Byte
  /\ \A k \in 0 .. Width - 1 : 2 ^ (k + 1) = 2 * 2 ^ k
<1>1. Width \in Nat /\ Width > 0 /\ Width - 1 \in Nat
  BY I2cAssumption
<1>2. 2 ^ 0 = 1
  OBVIOUS
<1>3. ASSUME NEW k \in 0 .. Width PROVE 2 ^ k \in Nat /\ 2 ^ k > 0 /\ 2 ^ k <= Byte
  <2> DEFINE m == Width - k
             T == { j \in 0 .. m : 2 ^ k <= 2 ^ (k + j) }
  <2>1. m \in Nat /\ k \in Nat /\ k + m = Width /\ k + 0 = k
    BY <1>1
  <2> HIDE DEF m
  <2>2. 2 ^ k \in Nat /\ 2 ^ k > 0
    <3>1. 2 ^ k \in Nat \ {0}
      BY <2>1, PowerPos
    <3> DEFINE p == 2 ^ k
    <3> HIDE DEF p
    <3>2. p \in Nat \ {0} => p \in Nat /\ p > 0
      OBVIOUS
    <3>3. QED BY <3>1, <3>2 DEF p
  <2>3. 0 \in T
    <3>1. 2 ^ k <= 2 ^ (k + 0)
      BY <2>1, <2>2
    <3>2. QED BY <2>1, <3>1
  <2>4. ASSUME NEW j \in 0 .. m - 1, j \in T PROVE j + 1 \in T
    <3>1. k + j \in Nat /\ k + (j + 1) = (k + j) + 1 /\ j + 1 \in 0 .. m
      BY <2>1
    <3>2. 2 ^ (k + (j + 1)) = 2 * 2 ^ (k + j) /\ 2 ^ (k + j) \in Nat
      BY <3>1, PowerStep, PowerNat
    <3>3. 2 ^ k <= 2 ^ (k + j)
      BY <2>4
    <3> DEFINE p == 2 ^ k
               q == 2 ^ (k + j)
               r == 2 ^ (k + (j + 1))
    <3>4. p \in Nat /\ q \in Nat /\ r = 2 * q /\ p <= q
      BY <2>2, <3>2, <3>3
    <3> HIDE DEF p, q, r
    <3>5. p <= r
      BY <3>4
    <3>6. 2 ^ k <= 2 ^ (k + (j + 1))
      BY <3>5 DEF p, r
    <3>7. QED BY <3>1, <3>6
  <2> HIDE DEF T
  <2>5. 0 .. m \subseteq T
    BY <2>1, <2>3, <2>4, CountUp
  <2>6. m \in T
    BY <2>1, <2>5
  <2>7. 2 ^ k <= 2 ^ (k + m)
    BY <2>6 DEF T
  <2>8. QED BY <2>1, <2>2, <2>7 DEF Byte
<1>4. ASSUME NEW k \in 0 .. Width - 1 PROVE 2 ^ (k + 1) = 2 * 2 ^ k
  <2>1. k \in Nat
    BY <1>1
  <2>2. QED BY <2>1, PowerStep
<1>5. Byte \in Nat /\ Byte > 1
  <2> DEFINE w == Width - 1
             p == 2 ^ w
  <2>1. w \in 0 .. Width - 1 /\ w \in 0 .. Width /\ w + 1 = Width
    BY <1>1
  <2> HIDE DEF w
  <2>2. p \in Nat /\ p > 0
    BY <1>3, <2>1
  <2>3. Byte = 2 * p
    BY <1>4, <2>1 DEF Byte
  <2> HIDE DEF p
  <2>4. QED BY <2>2, <2>3
<1>6. QED BY <1>1, <1>2, <1>3, <1>4, <1>5 DEF Blank

(* A bit is 0 or 1.                                                        *)
LEMMA BitIs01 == ASSUME NEW v \in Nat, NEW i \in 1 .. Width PROVE Bit(v, i) \in {0, 1}
<1> DEFINE p == 2 ^ (Width - i)
<1>1. Width - i \in 0 .. Width
  BY Powers
<1>2. p \in Nat /\ p > 0
  BY <1>1, Powers
<1> HIDE DEF p
<1>3. v \div p \in Int
  BY <1>2
<1>4. (v \div p) % 2 \in {0, 1}
  BY <1>3
<1>5. QED BY <1>4 DEF Bit, p

(* The start condition leaves such a bus, whatever state it comes in ...   *)
LEMMA StartedIn == ASSUME NEW D, NEW b \in Bus(D) PROVE Started(b) \in Bus(D)
<1> DEFINE c == Started(b)
<1>0. << >> \in Seq(0 .. Blank) /\ 0 \in 0 .. Blank /\ 0 \in 0 .. Width + 1 /\ b \in Lines(D)
  BY Powers DEF Bus
<1>1. c \in Lines(D) /\ c.mode = "device" /\ c.n = 0 /\ c.byte = 0 /\ c.out = 1 /\ c.pend = << >>
  BY <1>0 DEF Started, Lines
<1> HIDE DEF c
<1>2. c.byte < 2 ^ c.n
  <2>1. 2 ^ c.n = 1
    BY <1>1, Powers
  <2>2. QED BY <1>1, <2>1
<1>3. Consistent(c)
  BY <1>1, <1>2, Powers DEF Consistent, Receives
<1>4. QED BY <1>1, <1>3 DEF Bus, c

(* ... and so do the stop condition ...                                    *)
LEMMA StoppedIn == ASSUME NEW D, D \subseteq Int, NEW b \in Bus(D) PROVE Stopped(b) \in Bus(D)
<1> DEFINE kept == b.mode = "data" /\ b.n = 1 /\ b.pend # << >>
           new == IF ~kept THEN b.mem
                    ELSE [a \in DOMAIN b.mem |-> IF a - b.at \in 0 .. Len(b.pend) - 1
                                             THEN b.pend[a - b.at + 1] ELSE b.mem[a]]
<1>1. b \in Lines(D) /\ b.mem \in [D -> 0 .. Blank] /\ b.pend \in Seq(0 .. Blank) /\ b.at \in Nat
  BY DEF Bus, Lines
<1>2. new \in [D -> 0 .. Blank]
  <2>1. ASSUME NEW a \in D, a - b.at \in 0 .. Len(b.pend) - 1 PROVE b.pend[a - b.at + 1] \in 0 .. Blank
    <3>1. a \in Int /\ Len(b.pend) \in Nat
      BY <1>1
    <3>2. a - b.at + 1 \in 1 .. Len(b.pend)
      BY <1>1, <2>1, <3>1
    <3> DEFINE s == b.pend
               i == a - b.at + 1
    <3>3. s \in Seq(0 .. Blank) /\ i \in 1 .. Len(s)
      BY <1>1, <3>2
    <3> HIDE DEF s, i
    <3>4. s[i] \in 0 .. Blank
      <4> DEFINE A == 0 .. Blank
      <4>1. s \in Seq(A)
        BY <3>3
      <4> HIDE DEF A
      <4>2. s[i] \in A
        BY <3>3, <4>1
      <4>3. QED BY <4>2 DEF A
    <3>5. QED BY <3>4 DEF s, i
  <2>2. QED BY <1>1, <2>1
<1> HIDE DEF new
<1>3. Stopped(b) = [b EXCEPT !.mode = "idle", !.out = 1, !.pend = << >>, !.busy = @ \/ kept, !.mem = new]
  BY DEF Stopped, new
<1>4. (b.busy \/ kept) \in BOOLEAN
  OBVIOUS
<1> DEFINE busy == b.busy \/ kept
<1> HIDE DEF busy
<1>5. [b EXCEPT !.mode = "idle", !.out = 1, !.pend = << >>, !.busy = busy, !.mem = new] \in Bus(D)
  <2>1. busy \in BOOLEAN
    BY DEF busy
  <2> DEFINE c == [b EXCEPT !.mode = "idle", !.out = 1, !.pend = << >>, !.busy = busy, !.mem = new]
  <2>2. c \in Lines(D) /\ c.mode = "idle" /\ c.out = 1 /\ c.pend = << >>
    <3>1. << >> \in Seq(0 .. Blank)
      OBVIOUS
    <3>2. QED BY <1>1, <1>2, <2>1, <3>1 DEF Lines
  <2> HIDE DEF c
  <2>3. QED BY <2>2 DEF Bus, Consistent, Receives, c
<1>6. QED BY <1>3, <1>5 DEF busy

(* ... and a rising clock.                                                 *)
LEMMA RisesIn == ASSUME NEW D, NEW b \in Bus(D) PROVE Rises(b) \in Bus(D)
<1>1. b \in Lines(D) /\ Consistent(b)
  BY DEF Bus
<1>2. CASE Receives(b) /\ b.out = 1 /\ b.n < Width
  <2> DEFINE k == b.n
             y == b.byte
             w == Wire(b)
  <2>1. k \in 0 .. Width - 1 /\ y \in Nat /\ w \in {0, 1} /\ y < 2 ^ k
    BY <1>1, <1>2, Powers DEF Lines, Consistent, Wire
  <2>2. Rises(b) = [b EXCEPT !.byte = 2 * y + w, !.n = k + 1]
    BY <1>2 DEF Rises
  <2> HIDE DEF k, y, w
  <2> DEFINE p == 2 ^ k
  <2>3. p \in Nat /\ 2 ^ (k + 1) = 2 * p /\ 2 ^ (k + 1) <= Byte
    BY <2>1, Powers
  <2> HIDE DEF p
  <2>4. 2 * y + w \in Nat /\ 2 * y + w < 2 ^ (k + 1)
    BY <2>1, <2>3 DEF p
  <2>5. 2 * y + w \in 0 .. Blank
    BY <2>3, <2>4, Powers
  <2> DEFINE z == 2 * y + w
  <2> HIDE DEF z
  <2>6. k + 1 \in 0 .. Width + 1 /\ k + 1 <= Width
    BY <2>1, Powers
  <2>7. [b EXCEPT !.byte = z, !.n = k + 1] \in Bus(D)
    <3>1. z \in 0 .. Blank /\ z < 2 ^ (k + 1)
      BY <2>4, <2>5 DEF z
    <3> DEFINE c == [b EXCEPT !.byte = z, !.n = k + 1]
    <3>2. c \in Lines(D)
      BY <1>1, <2>6, <3>1 DEF Lines
    <3>3. c.n = k + 1 /\ c.byte = z /\ c.mode = b.mode /\ c.out = 1 /\ c.pend = b.pend
      BY <1>1, <1>2 DEF Lines
    <3> HIDE DEF c
    <3>4. b.mode \notin {"send", "idle"}
      BY <1>2 DEF Receives
    <3>5. Consistent(c)
      BY <1>1, <2>6, <3>1, <3>3, <3>4 DEF Consistent, Receives
    <3>6. QED BY <3>2, <3>5 DEF Bus, c
  <2>8. QED BY <2>2, <2>7 DEF z
<1>3. CASE ~(Receives(b) /\ b.out = 1 /\ b.n < Width) /\ b.mode = "send" /\ b.n = Width + 1 /\ Wire(b) = 1
  <2> DEFINE a == (b.at + 1) % 2 ^ (AddrBytes * Width)
  <2>1. a \in Nat
    <3>1. b.at \in Nat
      BY <1>1 DEF Lines
    <3>2. AddrBytes * Width \in Nat
      BY I2cAssumption
    <3> DEFINE m == AddrBytes * Width
    <3> HIDE DEF m
    <3>3. 2 ^ m \in Nat /\ 2 ^ m > 0
      BY <3>2, PowerNat, PowerPos DEF m
    <3> DEFINE q == 2 ^ m
    <3> HIDE DEF q
    <3>4. (b.at + 1) % q \in Nat
      BY <3>1, <3>3 DEF q
    <3>5. QED BY <3>4 DEF q, m
  <2>2. Rises(b) = [b EXCEPT !.at = a, !.mode = "idle"]
    BY <1>1, <1>3 DEF Rises, Advanced, Lines
  <2> HIDE DEF a
  <2>3. b.out = 1 /\ b.pend = << >>
    BY <1>1, <1>3 DEF Consistent, Lines
  <2>4. QED BY <1>1, <2>1, <2>2, <2>3 DEF Bus, Lines, Consistent, Receives
<1>4. CASE ~(Receives(b) /\ b.out = 1 /\ b.n < Width) /\ ~(b.mode = "send" /\ b.n = Width + 1 /\ Wire(b) = 1)
  BY <1>4 DEF Rises
<1>5. QED BY <1>2, <1>3, <1>4

(* The next address of the chip.                                           *)
LEMMA AdvancedIn ==
  ASSUME NEW D, NEW b \in Bus(D)
  PROVE  Advanced(b) \in Bus(D) /\ \E a \in Nat : Advanced(b) = [b EXCEPT !.at = a]
<1> DEFINE a == (b.at + 1) % 2 ^ (AddrBytes * Width)
<1>0. b \in Lines(D) /\ Consistent(b)
  BY DEF Bus
<1>1. a \in Nat
  <2>1. b.at \in Nat
    BY <1>0 DEF Lines
  <2>2. AddrBytes * Width \in Nat
    BY I2cAssumption
  <2> DEFINE m == AddrBytes * Width
  <2> HIDE DEF m
  <2>3. 2 ^ m \in Nat /\ 2 ^ m > 0
    BY <2>2, PowerNat, PowerPos DEF m
  <2> DEFINE q == 2 ^ m
  <2> HIDE DEF q
  <2>4. (b.at + 1) % q \in Nat
    BY <2>1, <2>3 DEF q
  <2>5. QED BY <2>4 DEF q, m
<1>2. Advanced(b) = [b EXCEPT !.at = a]
  BY <1>0 DEF Advanced, Lines
<1> HIDE DEF a
<1> DEFINE c == [b EXCEPT !.at = a]
<1>3. c \in Lines(D)
  BY <1>0, <1>1 DEF Lines
<1>4. c.mode = b.mode /\ c.n = b.n /\ c.byte = b.byte /\ c.out = b.out /\ c.pend = b.pend
  BY <1>0 DEF Lines
<1> HIDE DEF c
<1>5. Consistent(c)
  BY <1>0, <1>4 DEF Consistent, Receives
<1>6. QED BY <1>1, <1>2, <1>3, <1>5 DEF c, Bus

(* What the chip sends is a byte.                                          *)
LEMMA ContentIn == ASSUME NEW D, NEW b \in Bus(D) PROVE Content(b) \in 0 .. Blank
<1>1. b.mem \in [D -> 0 .. Blank] /\ Blank \in 0 .. Blank
  BY Powers DEF Bus, Lines
<1>2. CASE b.at \in DOMAIN b.mem
  BY <1>1, <1>2 DEF Content
<1>3. CASE b.at \notin DOMAIN b.mem
  BY <1>1, <1>3 DEF Content
<1>4. QED BY <1>2, <1>3

(* A chip that holds nothing back may begin to send.                       *)
LEMMA SendsIn == ASSUME NEW D, NEW b \in Bus(D), b.pend = << >> PROVE Sends(b) \in Bus(D)
<1> DEFINE x == Bit(Content(b), 1)
           c == [b EXCEPT !.mode = "send", !.n = 1, !.out = x]
<1>1. x \in {0, 1}
  <2>1. Content(b) \in Nat /\ 1 \in 1 .. Width
    BY ContentIn, Powers
  <2>2. QED BY <2>1, BitIs01
<1>2. Sends(b) = c
  BY DEF Sends
<1> HIDE DEF x
<1>3. b \in Lines(D) /\ 1 \in 0 .. Width + 1
  BY Powers DEF Bus
<1>4. c \in Lines(D) /\ c.mode = "send" /\ c.n = 1 /\ c.pend = << >>
  BY <1>1, <1>3 DEF Lines
<1> HIDE DEF c
<1>5. Consistent(c)
  BY <1>4, Powers DEF Consistent, Receives
<1>6. QED BY <1>2, <1>4, <1>5 DEF Bus

(* So may one that takes a byte in.                                        *)
LEMMA TakesIn == ASSUME NEW D, NEW b \in Bus(D), Receives(b) PROVE Takes(b) \in Bus(D)
<1> DEFINE next == [b EXCEPT !.out = 1, !.n = 0, !.byte = 0]
<1>1. b \in Lines(D) /\ Consistent(b) /\ 0 \in 0 .. Width + 1 /\ 0 \in 0 .. Blank
  BY Powers DEF Bus
<1>2. next \in Lines(D) /\ next.mode = b.mode /\ next.out = 1 /\ next.n = 0 /\ next.byte = 0 /\ next.pend = b.pend
      /\ next.at = b.at
  BY <1>1 DEF Lines
<1> HIDE DEF next
<1>3. \A c \in Lines(D) :
        c.n = 0 /\ c.byte = 0 /\ c.out = 1 /\ c.mode \in {"device", "high", "low", "data"}
        /\ (c.pend # << >> => c.mode = "data") => c \in Bus(D)
  <2> TAKE c \in Lines(D)
  <2> HAVE c.n = 0 /\ c.byte = 0 /\ c.out = 1 /\ c.mode \in {"device", "high", "low", "data"}
           /\ (c.pend # << >> => c.mode = "data")
  <2>1. c.byte < 2 ^ c.n
    <3>1. 2 ^ c.n = 1
      BY Powers
    <3>2. QED BY <3>1
  <2>2. QED BY <2>1, Powers DEF Bus, Consistent, Receives
<1>4. b.pend # << >> => b.mode = "data"
  BY <1>1 DEF Consistent
<1>5. next \in Bus(D)
  <2>1. next.mode \in {"device", "high", "low", "data"}
    BY <1>2 DEF Receives
  <2>2. QED BY <1>2, <1>3, <1>4, <2>1
<1>6. CASE b.mode = "device" /\ b.byte % 2 = 1
  <2>1. Takes(b) = Sends(next)
    BY <1>6 DEF Takes, next
  <2>2. next.pend = << >>
    BY <1>2, <1>4, <1>6
  <2>3. QED BY <1>5, <2>1, <2>2, SendsIn
<1>7. CASE b.mode = "device" /\ b.byte % 2 # 1
  <2> DEFINE mode == IF AddrBytes = 2 THEN "high" ELSE "low"
             c == [next EXCEPT !.at = 0, !.mode = mode]
  <2>1. Takes(b) = c
    BY <1>7 DEF Takes, next
  <2>2. mode \in {"high", "low"}
    OBVIOUS
  <2> HIDE DEF mode
  <2>3. c \in Lines(D) /\ c.mode \in {"high", "low"} /\ c.n = 0 /\ c.byte = 0 /\ c.out = 1 /\ c.pend = << >>
    BY <1>2, <1>4, <1>7, <2>2 DEF Lines
  <2> HIDE DEF c
  <2>4. QED BY <1>3, <2>1, <2>3
<1>8. CASE b.mode = "high"
  <2> DEFINE a == b.byte * Byte
             c == [next EXCEPT !.at = a, !.mode = "low"]
  <2>1. Takes(b) = c
    BY <1>8 DEF Takes, next
  <2>2. a \in Nat
    BY <1>1, Powers DEF Lines
  <2> HIDE DEF a
  <2>3. c \in Lines(D) /\ c.mode \in {"high", "low"} /\ c.n = 0 /\ c.byte = 0 /\ c.out = 1 /\ c.pend = << >>
    BY <1>2, <1>4, <1>8, <2>2 DEF Lines
  <2> HIDE DEF c
  <2>4. QED BY <1>3, <2>1, <2>3
<1>9. CASE b.mode = "low"
  <2> DEFINE a == b.at + b.byte
             c == [next EXCEPT !.at = a, !.mode = "data"]
  <2>1. Takes(b) = c
    BY <1>2, <1>9 DEF Takes, next, Lines
  <2>2. a \in Nat
    BY <1>1, Powers DEF Lines
  <2> HIDE DEF a
  <2>3. c \in Lines(D) /\ c.mode = "data" /\ c.n = 0 /\ c.byte = 0 /\ c.out = 1
    BY <1>2, <1>9, <2>2 DEF Lines
  <2> HIDE DEF c
  <2>4. QED BY <1>3, <2>1, <2>3
<1>10. CASE b.mode = "data"
  <2> DEFINE p == Append(b.pend, b.byte)
             c == [next EXCEPT !.pend = p]
  <2>1. Takes(b) = c
    BY <1>2, <1>10 DEF Takes, next, Lines
  <2>2. p \in Seq(0 .. Blank)
    <3>1. b.pend \in Seq(0 .. Blank) /\ b.byte \in 0 .. Blank
      BY <1>1 DEF Lines
    <3>2. QED BY <3>1
  <2> HIDE DEF p
  <2>3. c \in Lines(D) /\ c.mode = "data" /\ c.n = 0 /\ c.byte = 0 /\ c.out = 1
    BY <1>2, <1>10, <2>2 DEF Lines
  <2> HIDE DEF c
  <2>4. QED BY <1>3, <2>1, <2>3
<1>11. QED BY <1>6, <1>7, <1>8, <1>9, <1>10 DEF Receives

(* What a falling clock does, case by case.                                *)
LEMMA FallsIs ==
  ASSUME NEW b, b.n \in Nat
  PROVE  /\ Receives(b) /\ b.out = 0 => Falls(b) = Takes(b)
         /\ Receives(b) /\ b.out = 1 /\ b.n = Width /\ b.mode = "device" /\ ~Called(b) => Falls(b) = [b EXCEPT !.mode = "idle"]
         /\ Receives(b) /\ b.out = 1 /\ b.n = Width /\ ~(b.mode = "device" /\ ~Called(b)) => Falls(b) = [b EXCEPT !.out = 0]
         /\ Receives(b) /\ b.out = 1 /\ b.n # Width => Falls(b) = b
         /\ b.mode = "send" /\ b.n < Width => Falls(b) = [b EXCEPT !.n = b.n + 1, !.out = Bit(Content(b), b.n + 1)]
         /\ b.mode = "send" /\ b.n = Width => Falls(b) = [b EXCEPT !.n = b.n + 1, !.out = 1]
         /\ b.mode = "idle" => Falls(b) = b
<1> DEFINE rec == Receives(b)
           send == b.mode = "send"
           dev == b.mode = "device" /\ ~Called(b)
           next == [b EXCEPT !.n = b.n + 1, !.out = Bit(Content(b), b.n + 1)]
           last == [b EXCEPT !.n = b.n + 1, !.out = 1]
           idle == [b EXCEPT !.mode = "idle"]
           ack == [b EXCEPT !.out = 0]
           pull == b.out = 0
           free == b.out = 1
           lt == b.n < Width
           eq == b.n = Width
           gt == b.n > Width
<1>1. Falls(b) = CASE rec /\ pull -> Takes(b)
                   [] rec /\ free /\ eq -> IF dev THEN idle ELSE ack
                   [] send /\ lt -> next
                   [] send /\ eq -> last
                   [] send /\ gt -> Sends(Advanced(b))
                   [] OTHER -> b
  BY DEF Falls
<1>2. ~(rec /\ send)
  BY DEF Receives
<1>3. b.mode = "idle" => ~rec /\ ~send
  BY DEF Receives
<1>4. ~(lt /\ eq) /\ ~(eq /\ gt) /\ ~(lt /\ gt) /\ ~(pull /\ free)
  <2>1. Width \in Nat
    BY Powers
  <2>2. QED BY <2>1
<1> DEFINE still == b.mode = "idle"
<1> HIDE DEF rec, send, dev, next, last, idle, ack, pull, free, lt, eq, gt, still
<1>5a. ASSUME rec, pull PROVE Falls(b) = Takes(b)
  BY <1>5a, <1>1, <1>2, <1>4
<1>5b. ASSUME rec, free, eq, dev PROVE Falls(b) = idle
  BY <1>5b, <1>1, <1>2, <1>4
<1>5c. ASSUME rec, free, eq, ~dev PROVE Falls(b) = ack
  BY <1>5c, <1>1, <1>2, <1>4
<1>5d. ASSUME rec, free, ~eq PROVE Falls(b) = b
  BY <1>5d, <1>1, <1>2, <1>4
<1>5e. ASSUME send, lt PROVE Falls(b) = next
  BY <1>5e, <1>1, <1>2, <1>4
<1>5f. ASSUME send, eq PROVE Falls(b) = last
  BY <1>5f, <1>1, <1>2, <1>4
<1>5. /\ rec /\ pull => Falls(b) = Takes(b)
      /\ rec /\ free /\ eq /\ dev => Falls(b) = idle
      /\ rec /\ free /\ eq /\ ~dev => Falls(b) = ack
      /\ rec /\ free /\ ~eq => Falls(b) = b
      /\ send /\ lt => Falls(b) = next
      /\ send /\ eq => Falls(b) = last
  BY <1>5a, <1>5b, <1>5c, <1>5d, <1>5e, <1>5f
<1>7. still => Falls(b) = b
  BY <1>1, <1>3 DEF still
<1>6. QED BY <1>5, <1>7 DEF rec, send, dev, next, last, idle, ack, pull, free, lt, eq, still

(* A falling clock leaves such a bus.                                      *)
LEMMA FallsIn == ASSUME NEW D, NEW b \in Bus(D) PROVE Falls(b) \in Bus(D)
<1>1. b \in Lines(D) /\ Consistent(b)
  BY DEF Bus
<1>0. b.n \in Nat
  BY <1>1 DEF Lines
<1>2. CASE Receives(b) /\ b.out = 0
  <2>1. Falls(b) = Takes(b)
    BY <1>0, <1>2, FallsIs
  <2>2. QED BY <1>2, <2>1, TakesIn
<1>3. CASE Receives(b) /\ b.out = 1 /\ b.n = Width /\ b.mode = "device" /\ ~Called(b)
  <2> DEFINE c == [b EXCEPT !.mode = "idle"]
  <2>1. Falls(b) = c
    BY <1>3 DEF Falls
  <2>2. b.pend = << >>
    BY <1>1, <1>3 DEF Consistent
  <2>3. c \in Lines(D) /\ c.mode = "idle" /\ c.out = 1 /\ c.pend = << >>
    BY <1>1, <1>3, <2>2 DEF Lines
  <2> HIDE DEF c
  <2>4. QED BY <2>1, <2>3 DEF Bus, Consistent, Receives
<1>4. CASE Receives(b) /\ b.out = 1 /\ b.n = Width /\ ~(b.mode = "device" /\ ~Called(b))
  <2> DEFINE c == [b EXCEPT !.out = 0]
  <2>1. Falls(b) = c
    BY <1>0, <1>4, FallsIs
  <2>2. c \in Lines(D) /\ c.mode = b.mode /\ c.out = 0 /\ c.pend = b.pend /\ c.n = b.n /\ c.byte = b.byte
    BY <1>1 DEF Lines
  <2> HIDE DEF c
  <2>3. b.mode \notin {"send", "idle"}
    BY <1>4 DEF Receives
  <2>4. QED BY <1>1, <1>4, <2>1, <2>2, <2>3 DEF Bus, Consistent, Receives
<1>5. CASE b.mode = "send" /\ b.n < Width
  <2> DEFINE k == b.n + 1
             x == Bit(Content(b), k)
             c == [b EXCEPT !.n = k, !.out = x]
  <2>0. b.n \in 1 .. Width - 1
    BY <1>1, <1>5, Powers DEF Lines, Consistent
  <2>1. Falls(b) = c
    BY <1>0, <1>5, FallsIs
  <2>2. k \in 1 .. Width /\ k \in 0 .. Width + 1
    BY <2>0, Powers
  <2> HIDE DEF k
  <2>3. x \in {0, 1}
    <3>1. Content(b) \in Nat
      BY ContentIn, Powers
    <3>2. QED BY <2>2, <3>1, BitIs01
  <2> HIDE DEF x
  <2>4. c \in Lines(D) /\ c.mode = "send" /\ c.n = k /\ c.pend = b.pend
    BY <1>1, <1>5, <2>2, <2>3 DEF Lines
  <2> HIDE DEF c
  <2>5. Consistent(c)
    BY <1>1, <1>5, <2>2, <2>4, Powers DEF Consistent, Receives
  <2>6. QED BY <2>1, <2>4, <2>5 DEF Bus
<1>6. CASE b.mode = "send" /\ b.n = Width
  <2> DEFINE k == b.n + 1
             c == [b EXCEPT !.n = k, !.out = 1]
  <2>1. Falls(b) = c
    BY <1>1, <1>6, Powers DEF Falls, Receives, Lines
  <2>2. k \in 1 .. Width + 1 /\ k \in 0 .. Width + 1
    BY <1>6, Powers
  <2> HIDE DEF k
  <2>4. c \in Lines(D) /\ c.mode = "send" /\ c.n = k /\ c.pend = b.pend /\ c.out = 1
    BY <1>1, <1>6, <2>2 DEF Lines
  <2> HIDE DEF c
  <2>5. Consistent(c)
    BY <1>1, <1>6, <2>2, <2>4, Powers DEF Consistent, Receives
  <2>6. QED BY <2>1, <2>4, <2>5 DEF Bus
<1>7. CASE b.mode = "send" /\ b.n > Width
  <2>1. Falls(b) = Sends(Advanced(b))
    BY <1>1, <1>7, Powers DEF Falls, Receives, Lines
  <2>2. PICK a \in Nat : Advanced(b) = [b EXCEPT !.at = a]
    BY AdvancedIn
  <2>3. Advanced(b) \in Bus(D) /\ b.pend = << >>
    BY <1>1, <1>7, AdvancedIn DEF Consistent
  <2>4. Advanced(b).pend = << >>
    BY <1>1, <2>2, <2>3 DEF Lines
  <2>5. QED BY <2>1, <2>3, <2>4, SendsIn
<1>8. CASE ~Receives(b) /\ b.mode # "send"
  BY <1>8 DEF Falls
<1>9. CASE Receives(b) /\ b.out = 1 /\ b.n # Width
  <2>1. Falls(b) = b
    BY <1>9 DEF Falls, Receives
  <2>2. QED BY <2>1
<1>10. QED
  <2>1. b.out \in {0, 1} /\ b.n \in 0 .. Width + 1
    BY <1>1 DEF Lines
  <2>2. b.n < Width \/ b.n = Width \/ b.n > Width
    BY <2>1, Powers
  <2>3. QED BY <1>2, <1>3, <1>4, <1>5, <1>6, <1>7, <1>8, <1>9, <2>1, <2>2

(* The settings of the lines, and the reading of one.                      *)
Event == { M_SDA_OUT(0), M_SDA_OUT(1), M_SCL_OUT(0), M_SCL_OUT(1), M_SDA_IN }

(* A setting of SDA does.                                                  *)
LEMMA SetSdaIn ==
  ASSUME NEW D, D \subseteq Int, NEW b \in Bus(D), NEW x \in {0, 1}
  PROVE  SetSda(b, x) \in Bus(D)
<1> DEFINE c == [b EXCEPT !.sda = x]
<1>1. b \in Lines(D) /\ Consistent(b)
  BY DEF Bus
<1>2. c \in Lines(D) /\ c.mode = b.mode /\ c.out = b.out /\ c.pend = b.pend /\ c.n = b.n /\ c.byte = b.byte
  BY <1>1 DEF Lines
<1>3. SetSda(b, x) \in {Started(c), Stopped(c), c}
  BY DEF SetSda
<1> HIDE DEF c
<1>4. c \in Bus(D)
  BY <1>1, <1>2 DEF Bus, Consistent, Receives
<1>5. QED BY <1>3, <1>4, StartedIn, StoppedIn

(* A setting of SCL does.                                                  *)
LEMMA SetSclIn ==
  ASSUME NEW D, NEW b \in Bus(D), NEW x \in {0, 1}
  PROVE  SetScl(b, x) \in Bus(D)
<1> DEFINE c == [b EXCEPT !.scl = x]
<1>1. b \in Lines(D) /\ Consistent(b)
  BY DEF Bus
<1>2. c \in Lines(D) /\ c.mode = b.mode /\ c.out = b.out /\ c.pend = b.pend /\ c.n = b.n /\ c.byte = b.byte
  BY <1>1 DEF Lines
<1>3. SetScl(b, x) \in {Rises(c), Falls(c), b}
  BY DEF SetScl
<1> HIDE DEF c
<1>4. c \in Bus(D)
  BY <1>1, <1>2 DEF Bus, Consistent, Receives
<1>5. QED BY <1>3, <1>4, RisesIn, FallsIn

(* Each of the events does.                                                *)
LEMMA DoesIn ==
  ASSUME NEW D, D \subseteq Int, NEW b \in Bus(D), NEW e \in Event
  PROVE  Does(b, e) \in Bus(D)
<1>1. CASE e = M_SDA_IN
  <2> DEFINE g == Append(b.got, Wire(b))
             c == [b EXCEPT !.got = g]
  <2>1. Does(b, e) = c
    BY <1>1 DEF Does, M_SDA_IN
  <2>2. b \in Lines(D) /\ Consistent(b) /\ b.got \in Seq({0, 1}) /\ Wire(b) \in {0, 1}
    BY DEF Bus, Lines, Wire
  <2>3. g \in Seq({0, 1})
    BY <2>2
  <2> HIDE DEF g
  <2>4. c \in Lines(D) /\ c.mode = b.mode /\ c.out = b.out /\ c.pend = b.pend /\ c.n = b.n /\ c.byte = b.byte
    BY <2>2, <2>3 DEF Lines
  <2> HIDE DEF c
  <2>5. QED BY <2>1, <2>2, <2>4 DEF Bus, Consistent, Receives
<1>2. CASE e \in { M_SDA_OUT(x) : x \in {0, 1} }
  <2>1. PICK x \in {0, 1} : e = M_SDA_OUT(x)
    BY <1>2
  <2>2. Does(b, e) = SetSda(b, x)
    BY <2>1 DEF Does, M_SDA_OUT
  <2>3. QED BY <2>2, SetSdaIn
<1>3. CASE e \in { M_SCL_OUT(x) : x \in {0, 1} }
  <2>1. PICK x \in {0, 1} : e = M_SCL_OUT(x)
    BY <1>3
  <2>2. Does(b, e) = SetScl(b, x)
    BY <2>1 DEF Does, M_SCL_OUT
  <2>3. QED BY <2>2, SetSclIn
<1>4. QED BY <1>1, <1>2, <1>3 DEF Event

(* With the clock low, a byte that has come in is being acknowledged.      *)
Chip(D) == { b \in Bus(D) : b.scl = 0 /\ Receives(b) /\ b.out = 1 => b.n < Width }

(* The pulses of the clock since the chip began with a byte, of which each *)
(* takes one more than it has bits, whichever way it goes.                 *)
Phase(b) == IF b.mode = "send" THEN b.n - 1 ELSE IF b.out = 0 THEN Width ELSE b.n - b.scl

(* A byte has its bits and the slot of its acknowledgement.                *)
NextPhase(p) == IF p = Width THEN 0 ELSE p + 1

(* A chip is idle, or sends, or receives.                                  *)
LEMMA ReceivesIs == ASSUME NEW D, NEW b \in Lines(D) PROVE b.mode = "idle" \/ b.mode = "send" \/ Receives(b)
BY DEF Lines, Receives

(* A setting of SDA while the clock is low.                                *)
LEMMA SdaLow ==
  ASSUME NEW D, NEW b \in Chip(D), b.scl = 0, NEW x \in {0, 1}
  PROVE  /\ SetSda(b, x) = [b EXCEPT !.sda = x]
         /\ SetSda(b, x) \in Chip(D)
         /\ Phase(SetSda(b, x)) = Phase(b)
<1> DEFINE c == [b EXCEPT !.sda = x]
<1>1. b \in Lines(D) /\ Consistent(b) /\ (Receives(b) /\ b.out = 1 => b.n < Width)
  BY DEF Chip, Bus
<1>2. SetSda(b, x) = c
  BY DEF SetSda
<1>3. /\ c \in Lines(D) /\ c.mode = b.mode /\ c.out = b.out /\ c.pend = b.pend
      /\ c.n = b.n /\ c.byte = b.byte /\ c.scl = b.scl
  BY <1>1 DEF Lines
<1> HIDE DEF c
<1>4. c \in Chip(D)
  BY <1>1, <1>3 DEF Chip, Bus, Consistent, Receives
<1>5. Phase(c) = Phase(b)
  BY <1>3 DEF Phase
<1>6. QED BY <1>2, <1>4, <1>5 DEF c

(* Reading it.                                                             *)
LEMMA SdaRead ==
  ASSUME NEW D, NEW b \in Chip(D)
  PROVE  /\ Does(b, M_SDA_IN) = [b EXCEPT !.got = Append(b.got, Wire(b))]
         /\ Does(b, M_SDA_IN) \in Chip(D)
         /\ Phase(Does(b, M_SDA_IN)) = Phase(b)
<1> DEFINE g == Append(b.got, Wire(b))
           c == [b EXCEPT !.got = g]
<1>1. b \in Lines(D) /\ Consistent(b) /\ (b.scl = 0 /\ Receives(b) /\ b.out = 1 => b.n < Width)
  BY DEF Chip, Bus
<1>2. Does(b, M_SDA_IN) = c
  BY <1>1 DEF Does, M_SDA_IN, Lines
<1>3. g \in Seq({0, 1})
  <2>1. b.got \in Seq({0, 1}) /\ Wire(b) \in {0, 1}
    BY <1>1 DEF Lines, Wire
  <2>2. QED BY <2>1
<1>4. /\ c \in Lines(D) /\ c.mode = b.mode /\ c.out = b.out /\ c.pend = b.pend
      /\ c.n = b.n /\ c.byte = b.byte /\ c.scl = b.scl
  <2> HIDE DEF g
  <2>1. QED BY <1>1, <1>3 DEF Lines
<1> HIDE DEF c
<1>5. c \in Chip(D)
  BY <1>1, <1>4 DEF Chip, Bus, Consistent, Receives
<1>6. Phase(c) = Phase(b)
  BY <1>4 DEF Phase
<1>7. QED BY <1>2, <1>5, <1>6 DEF c

(* What a rising clock does, case by case.                                 *)
LEMMA RisesIs ==
  ASSUME NEW b
  PROVE  /\ Receives(b) /\ b.out = 1 /\ b.n < Width =>
              Rises(b) = [b EXCEPT !.byte = 2 * @ + Wire(b), !.n = @ + 1]
         /\ b.mode = "send" /\ b.n = Width + 1 /\ Wire(b) = 1 => Rises(b) = [Advanced(b) EXCEPT !.mode = "idle"]
         /\ ~(Receives(b) /\ b.out = 1 /\ b.n < Width) /\ ~(b.mode = "send" /\ b.n = Width + 1 /\ Wire(b) = 1)
              => Rises(b) = b
<1> DEFINE in == Receives(b) /\ b.out = 1 /\ b.n < Width
           end == b.mode = "send" /\ b.n = Width + 1 /\ Wire(b) = 1
<1>1. ~(in /\ end)
  BY DEF Receives
<1>2. Rises(b) = IF in THEN [b EXCEPT !.byte = 2 * @ + Wire(b), !.n = @ + 1]
                 ELSE IF end THEN [Advanced(b) EXCEPT !.mode = "idle"] ELSE b
  BY DEF Rises
<1>3. b.mode = "send" /\ b.n = Width + 1 /\ Wire(b) = 1 => end
  OBVIOUS
<1> HIDE DEF in, end
<1>4. (in => Rises(b) = [b EXCEPT !.byte = 2 * @ + Wire(b), !.n = @ + 1])
      /\ (end => Rises(b) = [Advanced(b) EXCEPT !.mode = "idle"]) /\ (~in /\ ~end => Rises(b) = b)
  BY <1>1, <1>2
<1>5. QED BY <1>4 DEF in, end

(* The clock rises.                                                        *)
LEMMA SclUp ==
  ASSUME NEW D, NEW b \in Chip(D), b.scl = 0
  PROVE  LET c == SetScl(b, 1) IN
         /\ c \in Chip(D) /\ c.scl = 1 /\ c.sda = b.sda
         /\ c.mode = "idle" \/ (c.mode = b.mode /\ Phase(c) = Phase(b) /\ c.out = b.out)
<1> DEFINE a == [b EXCEPT !.scl = 1]
           c == SetScl(b, 1)
<1>1. b \in Lines(D) /\ Consistent(b) /\ (Receives(b) /\ b.out = 1 => b.n < Width)
  BY DEF Chip, Bus
<1>2. c = Rises(a) /\ c \in Bus(D)
  <2>1. c \in Bus(D)
    BY SetSclIn DEF Chip
  <2>2. QED BY <2>1 DEF SetScl
<1>3. /\ a \in Lines(D) /\ a.mode = b.mode /\ a.out = b.out /\ a.pend = b.pend
      /\ a.n = b.n /\ a.byte = b.byte /\ a.scl = 1 /\ a.sda = b.sda
  BY <1>1 DEF Lines
<1> HIDE DEF a
<1>4. a \in Bus(D)
  BY <1>1, <1>3 DEF Bus, Consistent, Receives
<1> HIDE DEF c
<1>5. CASE Receives(a) /\ a.out = 1 /\ a.n < Width
  <2> DEFINE y == 2 * a.byte + Wire(a)
             k == a.n + 1
  <2>1. c = [a EXCEPT !.byte = y, !.n = k]
    BY <1>2, <1>3, <1>5, RisesIs DEF Lines
  <2> HIDE DEF y, k
  <2>2. c.scl = 1 /\ c.sda = b.sda /\ c.mode = a.mode /\ c.n = k /\ c.out = 1
    BY <1>3, <1>5, <2>1 DEF Lines
  <2>3. c \in Chip(D)
    BY <1>2, <2>2 DEF Chip
  <2>4. a.n \in Nat
    BY <1>3 DEF Lines
  <2>5. Phase(c) = Phase(b)
    <3>1. c.mode # "send" /\ b.mode # "send" /\ b.out = 1
      BY <1>3, <1>5, <2>2 DEF Receives
    <3>2. Phase(c) = k - 1 /\ Phase(b) = a.n - 0
      BY <1>3, <2>2, <3>1 DEF Phase
    <3>3. QED BY <2>4, <3>2 DEF k
  <2>6. QED BY <1>3, <1>5, <2>2, <2>3, <2>5 DEF c
<1>6. CASE a.mode = "send" /\ a.n = Width + 1 /\ Wire(a) = 1
  <2>1. PICK x \in Nat : Advanced(a) = [a EXCEPT !.at = x]
    BY <1>4, AdvancedIn
  <2>2. c = [a EXCEPT !.at = x, !.mode = "idle"]
    <3>1. c = [Advanced(a) EXCEPT !.mode = "idle"]
      BY <1>2, <1>6, RisesIs
    <3>2. QED BY <1>3, <2>1, <3>1 DEF Lines
  <2>3. c.scl = 1 /\ c.sda = b.sda /\ c.mode = "idle"
    BY <1>3, <2>2 DEF Lines
  <2>4. QED BY <1>2, <2>3 DEF Chip, c
<1>7. CASE ~(Receives(a) /\ a.out = 1 /\ a.n < Width) /\ ~(a.mode = "send" /\ a.n = Width + 1 /\ Wire(a) = 1)
  <2>1. c = a
    BY <1>2, <1>7, RisesIs
  <2>2. c \in Chip(D)
    BY <1>2, <1>3, <2>1 DEF Chip
  <2>3. c.mode = "idle" \/ Phase(c) = Phase(b)
    <3>1. a.mode = "idle" \/ a.mode = "send" \/ Receives(a)
      BY <1>3, ReceivesIs
    <3>2. CASE a.mode = "send"
      BY <1>3, <2>1, <3>2 DEF Phase
    <3>3. CASE Receives(a)
      <4>1. a.out = 0
        <5>1. a.out \in {0, 1}
          BY <1>3 DEF Lines
        <5>2. a.out = 1 => a.n < Width
          BY <1>1, <1>3, <3>3 DEF Receives
        <5>3. QED BY <1>7, <3>3, <5>1, <5>2
      <4>2. QED BY <1>3, <2>1, <3>3, <4>1 DEF Phase, Receives
    <3>4. QED BY <2>1, <3>1, <3>2, <3>3
  <2>4. QED BY <1>3, <2>1, <2>2, <2>3 DEF c
<1>8. QED BY <1>5, <1>6, <1>7 DEF c

(* A byte taken in leaves the lines and the memory alone.                  *)
LEMMA TakesFields ==
  ASSUME NEW D, NEW b \in Bus(D), Receives(b)
  PROVE  LET c == Takes(b) IN
         /\ c.scl = b.scl /\ c.sda = b.sda /\ c.busy = b.busy /\ c.deaf = b.deaf /\ c.mem = b.mem /\ c.got = b.got
         /\ c.mode # "device" /\ c.mode # "idle"
         /\ c.mode = "send" => b.mode = "device" /\ b.byte % 2 = 1 /\ c.n = 1
         /\ c.mode # "send" => c.n = 0 /\ c.byte = 0 /\ c.out = 1
<1> DEFINE next == [b EXCEPT !.out = 1, !.n = 0, !.byte = 0]
           c == Takes(b)
<1>1. b \in Lines(D) /\ 0 \in 0 .. Width + 1 /\ 0 \in 0 .. Blank
  BY Powers DEF Bus
<1>2. /\ next \in Lines(D) /\ next.mode = b.mode /\ next.out = 1 /\ next.n = 0 /\ next.byte = 0 /\ next.pend = b.pend
      /\ next.at = b.at
      /\ next.scl = b.scl /\ next.sda = b.sda /\ next.busy = b.busy /\ next.deaf = b.deaf /\ next.mem = b.mem
      /\ next.got = b.got
  BY <1>1 DEF Lines
<1> HIDE DEF next, c
<1>3. CASE b.mode = "device" /\ b.byte % 2 = 1
  <2> DEFINE x == Bit(Content(next), 1)
  <2>1. c = [next EXCEPT !.mode = "send", !.n = 1, !.out = x]
    BY <1>3 DEF Takes, next, c, Sends
  <2> HIDE DEF x
  <2>2. QED BY <1>2, <1>3, <2>1 DEF Lines, c
<1>4. CASE b.mode = "device" /\ b.byte % 2 # 1
  <2> DEFINE mode == IF AddrBytes = 2 THEN "high" ELSE "low"
  <2>1. c = [next EXCEPT !.at = 0, !.mode = mode]
    BY <1>4 DEF Takes, next, c
  <2>2. mode \in {"high", "low"}
    OBVIOUS
  <2> HIDE DEF mode
  <2>3. QED BY <1>2, <1>4, <2>1, <2>2 DEF Lines, c
<1>5. CASE b.mode = "high"
  <2>1. c = [next EXCEPT !.at = b.byte * Byte, !.mode = "low"]
    BY <1>5 DEF Takes, next, c
  <2>2. QED BY <1>2, <1>5, <2>1 DEF Lines, c
<1>6. CASE b.mode = "low"
  <2>1. c = [next EXCEPT !.at = b.at + b.byte, !.mode = "data"]
    BY <1>2, <1>6 DEF Takes, next, c, Lines
  <2>2. QED BY <1>2, <1>6, <2>1 DEF Lines, c
<1>7. CASE b.mode = "data"
  <2>1. c = [next EXCEPT !.pend = Append(b.pend, b.byte)]
    BY <1>2, <1>7 DEF Takes, next, c, Lines
  <2>2. QED BY <1>2, <1>7, <2>1 DEF Lines, c
<1>8. QED BY <1>3, <1>4, <1>5, <1>6, <1>7 DEF Receives

(* The clock falls.                                                        *)
LEMMA SclDown ==
  ASSUME NEW D, NEW b \in Chip(D), b.scl = 1
  PROVE  LET c == SetScl(b, 0) IN
         /\ c \in Chip(D) /\ c.scl = 0 /\ c.sda = b.sda
         /\ b.mode = "idle" => c.mode = "idle"
         /\ b.mode = "send" => c.mode \in {"send", "idle"}
         /\ c.mode = "idle" \/ Phase(c) = NextPhase(Phase(b))
         /\ c.mode = "device" => b.mode = "device" /\ Phase(b) # Width
         /\ b.mode # "send" /\ b.mode # "device" => c.mode # "send"
<1> DEFINE a == [b EXCEPT !.scl = 0]
           c == SetScl(b, 0)
<1>1. b \in Lines(D) /\ Consistent(b)
  BY DEF Chip, Bus
<1>2. c = Falls(a) /\ c \in Bus(D)
  <2>1. c \in Bus(D)
    BY SetSclIn DEF Chip
  <2>2. QED BY <2>1 DEF SetScl
<1>3. /\ a \in Lines(D) /\ a.mode = b.mode /\ a.out = b.out /\ a.pend = b.pend
      /\ a.n = b.n /\ a.byte = b.byte /\ a.scl = 0 /\ a.sda = b.sda
  BY <1>1 DEF Lines
<1> HIDE DEF a, c
<1>4. a \in Bus(D) /\ Consistent(a)
  BY <1>1, <1>3 DEF Bus, Consistent, Receives
<1>5. a.n \in Nat /\ a.n <= Width + 1 /\ Width \in Nat /\ Width > 0 /\ a.out \in {0, 1}
  BY <1>3, Powers DEF Lines
<1>6. CASE Receives(a) /\ a.out = 0
  <2>1. c = Takes(a)
    BY <1>2, <1>5, <1>6, FallsIs
  <2>2. /\ c.scl = 0 /\ c.sda = b.sda /\ c.mode # "device" /\ (c.mode = "send" => a.mode = "device" /\ c.n = 1)
        /\ (c.mode # "send" => c.n = 0 /\ c.out = 1)
    BY <1>3, <1>4, <1>6, <2>1, TakesFields
  <2>3. Phase(b) = Width /\ Phase(c) = 0
    <3>1. b.mode # "send" /\ b.out = 0
      BY <1>3, <1>6 DEF Receives
    <3>2. QED BY <2>2, <3>1 DEF Phase
  <2>4. a.mode # "idle" /\ a.mode # "send"
    BY <1>6 DEF Receives
  <2>5. c \in Chip(D)
    BY <1>2, <1>5, <2>2 DEF Chip, Receives
  <2>6. QED BY <1>3, <2>2, <2>3, <2>4, <2>5 DEF c, NextPhase
<1>7. CASE Receives(a) /\ a.out = 1
  <2>1. Phase(b) = a.n - 1 /\ b.mode # "send" /\ b.mode # "idle"
    BY <1>3, <1>7 DEF Phase, Receives
  <2>2. a.n <= Width
    BY <1>4, <1>7 DEF Consistent
  <2>3. NextPhase(Phase(b)) = a.n /\ Phase(b) # Width
    BY <1>5, <2>1, <2>2 DEF NextPhase
  <2>4. CASE a.n = Width /\ a.mode = "device" /\ ~Called(a)
    <3>1. c = [a EXCEPT !.mode = "idle"]
      BY <1>2, <1>5, <1>7, <2>4, FallsIs
    <3>2. c.mode = "idle" /\ c.scl = 0 /\ c.sda = b.sda
      BY <1>3, <3>1 DEF Lines
    <3>3. c \in Chip(D)
      BY <1>2, <3>2 DEF Chip, Receives
    <3>4. QED BY <2>1, <3>2, <3>3 DEF c
  <2>5. CASE a.n = Width /\ ~(a.mode = "device" /\ ~Called(a))
    <3>1. c = [a EXCEPT !.out = 0]
      BY <1>2, <1>5, <1>7, <2>5, FallsIs
    <3>2. c.mode = a.mode /\ c.scl = 0 /\ c.sda = b.sda /\ c.out = 0
      BY <1>3, <3>1 DEF Lines
    <3>3. c \in Chip(D)
      BY <1>2, <3>2 DEF Chip, Receives
    <3>4. Phase(c) = a.n
      BY <1>3, <2>1, <2>5, <3>2 DEF Phase
    <3>5. QED BY <1>3, <2>1, <2>3, <3>2, <3>3, <3>4 DEF c
  <2>6. CASE a.n # Width
    <3>1. c = a
      BY <1>2, <1>5, <1>7, <2>6, FallsIs
    <3>2. c \in Chip(D)
      BY <1>2, <1>5, <2>2, <2>6, <3>1 DEF Chip
    <3>3. Phase(c) = a.n
      BY <1>3, <1>5, <1>7, <2>1, <3>1 DEF Phase
    <3>4. QED BY <1>3, <2>1, <2>3, <3>1, <3>2, <3>3 DEF c
  <2>7. QED BY <2>4, <2>5, <2>6
<1>8. CASE a.mode = "send"
  <2>1. a.n >= 1 /\ Phase(b) = a.n - 1
    BY <1>3, <1>4, <1>8 DEF Consistent, Phase
  <2>2. /\ c.mode = "send" /\ c.scl = 0 /\ c.sda = b.sda
        /\ c.n = IF a.n = Width + 1 THEN 1 ELSE a.n + 1
    <3>1. CASE a.n < Width
      <4> DEFINE k == a.n + 1
                 x == Bit(Content(a), a.n + 1)
      <4>1. c = [a EXCEPT !.n = k, !.out = x]
        BY <1>2, <1>5, <1>8, <3>1, FallsIs
      <4> HIDE DEF x, k
      <4>2. c.mode = "send" /\ c.scl = 0 /\ c.sda = b.sda /\ c.n = k
        BY <1>3, <1>8, <4>1 DEF Lines
      <4>3. QED BY <1>5, <3>1, <4>2 DEF k
    <3>2. CASE a.n = Width
      <4> DEFINE k == a.n + 1
      <4>1. c = [a EXCEPT !.n = k, !.out = 1]
        BY <1>2, <1>5, <1>8, <3>2, FallsIs
      <4> HIDE DEF k
      <4>2. c.mode = "send" /\ c.scl = 0 /\ c.sda = b.sda /\ c.n = k
        BY <1>3, <1>8, <4>1 DEF Lines
      <4>3. QED BY <1>5, <3>2, <4>2 DEF k
    <3>3. CASE a.n = Width + 1
      <4>1. PICK x \in Nat : Advanced(a) = [a EXCEPT !.at = x]
        BY <1>4, AdvancedIn
      <4> DEFINE z == Advanced(a)
                 y == Bit(Content(z), 1)
      <4>2. c = [z EXCEPT !.mode = "send", !.n = 1, !.out = y]
        <5>1. c = Sends(z)
          BY <1>2, <1>3, <1>5, <1>8, <3>3 DEF Falls, Receives
        <5>2. QED BY <5>1 DEF Sends
      <4>3. z \in Lines(D) /\ z.scl = 0 /\ z.sda = b.sda
        <5>1. z \in Lines(D)
          BY <1>4, AdvancedIn DEF Bus
        <5>2. QED BY <1>3, <4>1, <5>1 DEF Lines
      <4> HIDE DEF z, y
      <4>4. c.mode = "send" /\ c.scl = 0 /\ c.sda = b.sda /\ c.n = 1
        BY <4>2, <4>3 DEF Lines
      <4>5. QED BY <3>3, <4>4
    <3>4. QED BY <1>5, <3>1, <3>2, <3>3
  <2>3. Phase(c) = NextPhase(Phase(b))
    <3>1. Phase(c) = c.n - 1
      BY <2>2 DEF Phase
    <3>2. QED BY <1>5, <2>1, <2>2, <3>1 DEF NextPhase
  <2>4. c \in Chip(D)
    BY <1>2, <2>2 DEF Chip, Receives
  <2>5. QED BY <1>3, <1>8, <2>2, <2>3, <2>4 DEF c
<1>9. CASE a.mode = "idle"
  <2>1. c = a
    BY <1>2, <1>5, <1>9, FallsIs
  <2>2. c \in Chip(D)
    BY <1>2, <1>9, <2>1 DEF Chip, Receives
  <2>3. QED BY <1>3, <1>9, <2>1, <2>2 DEF c
<1>10. QED BY <1>3, <1>5, <1>6, <1>7, <1>8, <1>9, ReceivesIs

-----------------------------------------------------------------------------
(* The operations, from a chip in any state.                               *)

(* The events by their kind.                                               *)
LEMMA DoesIs ==
  ASSUME NEW b, NEW x
  PROVE  Does(b, M_SDA_OUT(x)) = SetSda(b, x) /\ Does(b, M_SCL_OUT(x)) = SetScl(b, x)
BY DEF Does, M_SDA_OUT, M_SCL_OUT

(* One bit, to the chip and from it.                                       *)
PutBit(b, x) == SetScl(SetScl(SetSda(b, x), 1), 0)

(* One bit from the chip.                                                  *)
GotBit(b) == SetScl(Does(SetScl(b, 1), M_SDA_IN), 0)

(* Where in a triple of events one is.                                     *)
LEMMA Thirds ==
  ASSUME NEW k \in Nat
  PROVE  /\ (3 * k + 1) % 3 = 1 /\ (3 * k + 1) \div 3 = k
         /\ (3 * k + 2) % 3 = 2
         /\ (3 * k + 3) % 3 = 0
OBVIOUS

(* A byte to the chip: its bits, and the acknowledgement.                  *)
LEMMA PutByteIs ==
  ASSUME NEW b, NEW data \in Nat
  PROVE  \E f : /\ f[0] = b /\ \A k \in 0 .. Width - 1 : f[k + 1] = PutBit(f[k], Bit(data, k + 1))
                /\ Performed(b, mi2c_put_byte(data)) = SetSda(GotBit(SetSda(f[Width], 1)), 0)
<1> DEFINE t == [i \in 1 .. 3 * Width |-> CASE i % 3 = 1 -> M_SDA_OUT(Bit(data, i \div 3 + 1))
                              [] i % 3 = 2 -> M_SCL_OUT(1)
                              [] OTHER     -> M_SCL_OUT(0)]
           S == { t[i] : i \in 1 .. 3 * Width } \cup Event
           u == << M_SDA_OUT(1), M_SCL_OUT(1), M_SDA_IN, M_SCL_OUT(0), M_SDA_OUT(0) >>
<1>1. Width \in Nat /\ 3 * Width \in Nat
  BY Powers
<1>2. t \in Seq(S) /\ Len(t) = 3 * Width
  BY <1>1
<1>3. u \in Seq(S)
  BY DEF Event
<1>4. mi2c_put_byte(data) = t \o u
  BY DEF mi2c_put_byte
<1>5. \A k \in 0 .. Width - 1 :
        /\ t[3 * k + 1] = M_SDA_OUT(Bit(data, k + 1)) /\ t[3 * k + 2] = M_SCL_OUT(1) /\ t[3 * k + 3] = M_SCL_OUT(0)
        /\ 3 * k + 1 \in 1 .. 3 * Width /\ 3 * k + 2 \in 1 .. 3 * Width /\ 3 * k + 3 \in 1 .. 3 * Width
  <2> TAKE k \in 0 .. Width - 1
  <2>1. 3 * k + 1 \in 1 .. 3 * Width /\ 3 * k + 2 \in 1 .. 3 * Width /\ 3 * k + 3 \in 1 .. 3 * Width
    BY <1>1
  <2>2. /\ (3 * k + 1) % 3 = 1 /\ (3 * k + 1) \div 3 = k
        /\ (3 * k + 2) % 3 = 2 /\ (3 * k + 3) % 3 = 0
    BY Thirds
  <2>3. t[3 * k + 1] = M_SDA_OUT(Bit(data, k + 1))
    BY <2>1, <2>2
  <2>4. t[3 * k + 2] = M_SCL_OUT(1)
    BY <2>1, <2>2
  <2>5. t[3 * k + 3] = M_SCL_OUT(0)
    BY <2>1, <2>2
  <2>6. QED BY <2>1, <2>3, <2>4, <2>5
<1> HIDE DEF t, S
<1>6. PICK r : RunOf(r, b, t)
  BY <1>1, <1>2, Runs
<1>7. r[0] = b /\ \A i \in 1 .. 3 * Width : r[i] = Does(r[i - 1], t[i])
  BY <1>2, <1>6 DEF RunOf
<1> DEFINE f == [k \in 0 .. Width |-> r[3 * k]]
<1>8. f[0] = b /\ f[Width] = r[3 * Width]
  BY <1>1, <1>7
<1>9. ASSUME NEW k \in 0 .. Width - 1 PROVE f[k + 1] = PutBit(f[k], Bit(data, k + 1))
  <2>1. f[k] = r[3 * k] /\ f[k + 1] = r[3 * k + 3]
    <3>1. k \in 0 .. Width /\ k + 1 \in 0 .. Width /\ 3 * (k + 1) = 3 * k + 3
      BY <1>1
    <3>2. QED BY <3>1
  <2>2. 3 * k + 1 - 1 = 3 * k /\ 3 * k + 2 - 1 = 3 * k + 1 /\ 3 * k + 3 - 1 = 3 * k + 2
    OBVIOUS
  <2> DEFINE i == 3 * k + 1
             j == 3 * k + 2
             l == 3 * k + 3
             m == 3 * k
  <2>3. /\ t[i] = M_SDA_OUT(Bit(data, k + 1)) /\ t[j] = M_SCL_OUT(1) /\ t[l] = M_SCL_OUT(0)
        /\ i \in 1 .. 3 * Width /\ j \in 1 .. 3 * Width /\ l \in 1 .. 3 * Width
    BY <1>5
  <2>4. i - 1 = m /\ j - 1 = i /\ l - 1 = j
    BY <2>2
  <2>a. f[k] = r[m] /\ f[k + 1] = r[l]
    BY <2>1
  <2> HIDE DEF f, i, j, l, m
  <2>5. r[i] = SetSda(r[m], Bit(data, k + 1))
    BY <1>7, <2>3, <2>4, DoesIs
  <2>6. r[j] = SetScl(r[i], 1)
    BY <1>7, <2>3, <2>4, DoesIs
  <2>7. r[l] = SetScl(r[j], 0)
    BY <1>7, <2>3, <2>4, DoesIs
  <2>8. QED BY <2>a, <2>5, <2>6, <2>7 DEF PutBit
<1> HIDE DEF f, u
<1>10. Performed(b, t) = f[Width]
  <2>1. Performed(b, t) = r[Len(t)]
    BY <1>1, <1>2, <1>6, RunEnds
  <2>2. QED BY <1>2, <1>8, <2>1
<1>11. Performed(b, t \o u) = Performed(f[Width], u)
  <2>1. Performed(b, t \o u) = Performed(Performed(b, t), u)
    BY <1>2, <1>3, PerformedCat
  <2>2. QED BY <1>10, <2>1
<1>12. \A c : Performed(c, u) = SetSda(GotBit(SetSda(c, 1)), 0)
  <2> TAKE c
  <2>1. Performed(c, u)
          = Does(Does(Does(Does(Does(c, M_SDA_OUT(1)), M_SCL_OUT(1)), M_SDA_IN), M_SCL_OUT(0)), M_SDA_OUT(0))
    BY PerformedFive DEF u
  <2>2. QED BY <2>1, DoesIs DEF GotBit
<1>13. QED BY <1>4, <1>8, <1>9, <1>11, <1>12

(* A byte from it.                                                         *)
LEMMA GetByteIs ==
  ASSUME NEW b, NEW last \in BOOLEAN
  PROVE  \E f : /\ f[0] = SetScl(SetSda(b, 1), 0) /\ \A k \in 0 .. Width - 1 : f[k + 1] = GotBit(f[k])
                /\ Performed(b, mi2c_get_byte(last)) = PutBit(f[Width], IF last THEN 1 ELSE 0)
<1> DEFINE t == [i \in 1 .. 3 * Width |-> CASE i % 3 = 1 -> M_SCL_OUT(1)
                                 [] i % 3 = 2 -> M_SDA_IN
                                 [] OTHER     -> M_SCL_OUT(0)]
           x == IF last THEN 1 ELSE 0
           s == << M_SDA_OUT(1), M_SCL_OUT(0) >>
           u == << M_SDA_OUT(x), M_SCL_OUT(1), M_SCL_OUT(0) >>
           a == SetScl(SetSda(b, 1), 0)
<1>1. Width \in Nat /\ 3 * Width \in Nat
  BY Powers
<1>2. t \in Seq(Event) /\ Len(t) = 3 * Width
  <2>1. \A i \in 1 .. 3 * Width : t[i] \in Event
    BY DEF Event
  <2>2. t = [i \in 1 .. 3 * Width |-> t[i]]
    OBVIOUS
  <2> HIDE DEF t
  <2>3. QED BY <1>1, <2>1, <2>2
<1>3. u \in Seq(Event) /\ s \in Seq(Event)
  BY DEF Event
<1>4. mi2c_get_byte(last) = (s \o t) \o u
  BY DEF mi2c_get_byte
<1>5. \A k \in 0 .. Width - 1 :
        /\ t[3 * k + 1] = M_SCL_OUT(1) /\ t[3 * k + 2] = M_SDA_IN /\ t[3 * k + 3] = M_SCL_OUT(0)
        /\ 3 * k + 1 \in 1 .. 3 * Width /\ 3 * k + 2 \in 1 .. 3 * Width /\ 3 * k + 3 \in 1 .. 3 * Width
  <2> TAKE k \in 0 .. Width - 1
  <2>1. 3 * k + 1 \in 1 .. 3 * Width /\ 3 * k + 2 \in 1 .. 3 * Width /\ 3 * k + 3 \in 1 .. 3 * Width
    BY <1>1
  <2>2. (3 * k + 1) % 3 = 1 /\ (3 * k + 2) % 3 = 2 /\ (3 * k + 3) % 3 = 0
    BY Thirds
  <2>3. t[3 * k + 1] = M_SCL_OUT(1)
    BY <2>1, <2>2
  <2>4. t[3 * k + 2] = M_SDA_IN
    BY <2>1, <2>2
  <2>5. t[3 * k + 3] = M_SCL_OUT(0)
    BY <2>1, <2>2
  <2>6. QED BY <2>1, <2>3, <2>4, <2>5
<1> HIDE DEF t, a
<1>6. PICK r : RunOf(r, a, t)
  BY <1>1, <1>2, Runs
<1>7. r[0] = a /\ \A i \in 1 .. 3 * Width : r[i] = Does(r[i - 1], t[i])
  BY <1>2, <1>6 DEF RunOf
<1> DEFINE f == [k \in 0 .. Width |-> r[3 * k]]
<1>8. f[0] = a /\ f[Width] = r[3 * Width]
  BY <1>1, <1>7
<1>9. ASSUME NEW k \in 0 .. Width - 1 PROVE f[k + 1] = GotBit(f[k])
  <2>1. f[k] = r[3 * k] /\ f[k + 1] = r[3 * k + 3]
    <3>1. k \in 0 .. Width /\ k + 1 \in 0 .. Width /\ 3 * (k + 1) = 3 * k + 3
      BY <1>1
    <3>2. QED BY <3>1
  <2>2. 3 * k + 1 - 1 = 3 * k /\ 3 * k + 2 - 1 = 3 * k + 1 /\ 3 * k + 3 - 1 = 3 * k + 2
    OBVIOUS
  <2> DEFINE i == 3 * k + 1
             j == 3 * k + 2
             l == 3 * k + 3
             m == 3 * k
  <2>3. /\ t[i] = M_SCL_OUT(1) /\ t[j] = M_SDA_IN /\ t[l] = M_SCL_OUT(0)
        /\ i \in 1 .. 3 * Width /\ j \in 1 .. 3 * Width /\ l \in 1 .. 3 * Width
    BY <1>5
  <2>4. i - 1 = m /\ j - 1 = i /\ l - 1 = j
    BY <2>2
  <2>a. f[k] = r[m] /\ f[k + 1] = r[l]
    BY <2>1
  <2> HIDE DEF f, i, j, l, m
  <2>5. r[i] = SetScl(r[m], 1)
    BY <1>7, <2>3, <2>4, DoesIs
  <2>6. r[j] = Does(r[i], M_SDA_IN)
    BY <1>7, <2>3, <2>4
  <2>7. r[l] = SetScl(r[j], 0)
    BY <1>7, <2>3, <2>4, DoesIs
  <2>8. QED BY <2>a, <2>5, <2>6, <2>7 DEF GotBit
<1> HIDE DEF f, u, s, x
<1>10. Performed(a, t) = f[Width]
  <2>1. Performed(a, t) = r[Len(t)]
    BY <1>1, <1>2, <1>6, RunEnds
  <2>2. QED BY <1>2, <1>8, <2>1
<1>11. Performed(b, s) = a
  <2>1. Performed(b, s) = Does(Does(b, M_SDA_OUT(1)), M_SCL_OUT(0))
    BY PerformedTwo DEF s
  <2>2. QED BY <2>1, DoesIs DEF a
<1>12. Performed(b, (s \o t) \o u) = Performed(f[Width], u)
  <2>1. Performed(b, s \o t) = Performed(Performed(b, s), t)
    BY <1>2, <1>3, PerformedCat
  <2>2. s \o t \in Seq(Event)
    BY <1>2, <1>3
  <2> DEFINE st == s \o t
  <2>3. st \in Seq(Event)
    BY <2>2
  <2> HIDE DEF st
  <2>4. Performed(b, st \o u) = Performed(Performed(b, st), u)
    BY <1>3, <2>3, PerformedCat
  <2>5. QED BY <1>10, <1>11, <2>1, <2>4 DEF st
<1>13. \A c : Performed(c, u) = PutBit(c, x)
  <2> TAKE c
  <2>1. Performed(c, u) = Does(Does(Does(c, M_SDA_OUT(x)), M_SCL_OUT(1)), M_SCL_OUT(0))
    BY PerformedThree DEF u
  <2>2. QED BY <2>1, DoesIs DEF PutBit
<1>14. QED BY <1>4, <1>8, <1>9, <1>12, <1>13 DEF a, x

(* What k pulses of the clock leave of a chip b, or is it a chip c?        *)
Pulsed(D, b, c, k) ==
  /\ c \in Chip(D) /\ c.scl = 0
  /\ b.mode = "idle" => c.mode = "idle"
  /\ b.mode = "send" => c.mode \in {"send", "idle"}
  /\ c.mode = "idle" \/ Phase(c) = IF Phase(b) + k > Width THEN Phase(b) + k - Width - 1 ELSE Phase(b) + k
  /\ c.mode = "device" => b.mode = "device" /\ Phase(b) + k <= Width
  /\ b.mode \notin {"send", "device"} => c.mode # "send"

(* There are as many phases as a byte has bits, and the acknowledgement.   *)
LEMMA PhaseIn == ASSUME NEW D, NEW b \in Chip(D), b.scl = 0, b.mode # "idle" PROVE Phase(b) \in 0 .. Width
<1>1. b \in Lines(D) /\ Consistent(b) /\ (Receives(b) /\ b.out = 1 => b.n < Width)
  BY DEF Chip, Bus
<1>2. b.n \in Nat /\ b.n <= Width + 1 /\ Width \in Nat /\ b.out \in {0, 1}
  BY <1>1, Powers DEF Lines
<1>3. CASE b.mode = "send"
  BY <1>1, <1>2, <1>3 DEF Phase, Consistent
<1>4. CASE Receives(b)
  BY <1>1, <1>2, <1>4 DEF Phase, Receives
<1>5. QED BY <1>1, <1>3, <1>4, ReceivesIs

(* Without a pulse it is the same chip.                                    *)
LEMMA PulsedNone == ASSUME NEW D, NEW b \in Chip(D), b.scl = 0 PROVE Pulsed(D, b, b, 0)
<1>1. CASE b.mode = "idle"
  BY <1>1 DEF Pulsed
<1>2. CASE b.mode # "idle"
  <2>1. Phase(b) \in 0 .. Width /\ Width \in Nat
    BY <1>2, PhaseIn, Powers
  <2> DEFINE p == Phase(b)
  <2> HIDE DEF p
  <2>2. p + 0 = p /\ ~(p + 0 > Width) /\ p + 0 <= Width
    BY <2>1 DEF p
  <2>3. QED BY <1>2, <2>2 DEF Pulsed, p
<1>3. QED BY <1>1, <1>2

(* A pulse more.                                                           *)
LEMMA PulsedNext ==
  ASSUME NEW D, NEW a \in Chip(D), a.scl = 0, NEW b, NEW k \in 0 .. Width, Pulsed(D, a, b, k), NEW c,
         c \in Chip(D), c.scl = 0,
         b.mode = "idle" => c.mode = "idle",
         b.mode = "send" => c.mode \in {"send", "idle"},
         c.mode = "idle" \/ Phase(c) = NextPhase(Phase(b)),
         c.mode = "device" => b.mode = "device" /\ Phase(b) # Width,
         b.mode \notin {"send", "device"} => c.mode # "send"
  PROVE  Pulsed(D, a, c, k + 1)
<1>1. CASE a.mode = "idle"
  <2>1. c.mode = "idle"
    BY <1>1 DEF Pulsed
  <2>2. QED BY <2>1 DEF Pulsed
<1>2. CASE a.mode # "idle"
  <2> DEFINE p == Phase(a)
             q == Phase(b)
             r == Phase(c)
  <2>1. p \in 0 .. Width /\ Width \in Nat
    BY <1>2, PhaseIn, Powers
  <2>2. b.mode = "idle" \/ q = IF p + k > Width THEN p + k - Width - 1 ELSE p + k
    BY DEF Pulsed
  <2>3. c.mode = "idle" \/ r = IF q = Width THEN 0 ELSE q + 1
    BY DEF NextPhase
  <2>4. c.mode = "device" => b.mode = "device" /\ q # Width
    OBVIOUS
  <2>5. b.mode = "device" => a.mode = "device" /\ p + k <= Width
    BY DEF Pulsed
  <2>6. c.mode = "device" => c.mode # "idle" /\ b.mode # "idle"
    OBVIOUS
  <2> HIDE DEF p, q, r
  <2>7. b.mode # "idle" /\ c.mode # "idle" => r = IF p + (k + 1) > Width THEN p + (k + 1) - Width - 1 ELSE p + (k + 1)
    BY <2>1, <2>2, <2>3
  <2>8. c.mode = "device" => a.mode = "device" /\ p + (k + 1) <= Width
    BY <2>1, <2>2, <2>4, <2>5, <2>6
  <2>9. a.mode \notin {"send", "device"} => c.mode # "send"
    <3>1. a.mode \notin {"send", "device"} => b.mode \notin {"send", "device"}
      BY DEF Pulsed
    <3>2. QED BY <3>1
  <2>10. QED BY <1>2, <2>7, <2>8, <2>9 DEF Pulsed, p, r
<1>3. QED BY <1>1, <1>2

(* Putting a bit is a pulse of the clock ...                               *)
LEMMA WrittenPulse ==
  ASSUME NEW D, NEW a \in Chip(D), a.scl = 0, NEW b, NEW k \in 0 .. Width, Pulsed(D, a, b, k), NEW x \in {0, 1}
  PROVE  Pulsed(D, a, PutBit(b, x), k + 1) /\ PutBit(b, x).sda = x
<1> DEFINE s == SetSda(b, x)
           u == SetScl(s, 1)
           c == SetScl(u, 0)
<1>1. b \in Chip(D) /\ b.scl = 0
  BY DEF Pulsed
<1>2. s \in Chip(D) /\ Phase(s) = Phase(b) /\ s.scl = 0 /\ s.mode = b.mode /\ s.sda = x
  <2>1. s = [b EXCEPT !.sda = x] /\ s \in Chip(D) /\ Phase(s) = Phase(b)
    BY <1>1, SdaLow
  <2>2. b \in Lines(D)
    BY <1>1 DEF Chip, Bus
  <2>3. QED BY <1>1, <2>1, <2>2 DEF Lines
<1>3. u \in Chip(D) /\ u.scl = 1 /\ u.sda = x /\ (u.mode = "idle" \/ (u.mode = s.mode /\ Phase(u) = Phase(s)))
  <2> HIDE DEF s
  <2>1. QED BY <1>2, SclUp
<1>4. /\ c \in Chip(D) /\ c.scl = 0 /\ c.sda = x
      /\ u.mode = "idle" => c.mode = "idle"
      /\ u.mode = "send" => c.mode \in {"send", "idle"}
      /\ c.mode = "idle" \/ Phase(c) = NextPhase(Phase(u))
      /\ c.mode = "device" => u.mode = "device" /\ Phase(u) # Width
      /\ u.mode # "send" /\ u.mode # "device" => c.mode # "send"
  <2> HIDE DEF u
  <2>1. QED BY <1>3, SclDown
<1>5. PutBit(b, x) = c
  BY DEF PutBit
<1> HIDE DEF s, u, c
<1>6. /\ b.mode = "idle" => c.mode = "idle"
      /\ b.mode = "send" => c.mode \in {"send", "idle"}
      /\ c.mode = "idle" \/ Phase(c) = NextPhase(Phase(b))
      /\ c.mode = "device" => b.mode = "device" /\ Phase(b) # Width
      /\ b.mode \notin {"send", "device"} => c.mode # "send"
  BY <1>2, <1>3, <1>4
<1>7. QED BY <1>4, <1>5, <1>6, PulsedNext

(* ... and so is getting one.                                              *)
LEMMA ReadPulse ==
  ASSUME NEW D, NEW a \in Chip(D), a.scl = 0, NEW b, NEW k \in 0 .. Width, Pulsed(D, a, b, k)
  PROVE  Pulsed(D, a, GotBit(b), k + 1) /\ GotBit(b).sda = b.sda
<1> DEFINE u == SetScl(b, 1)
           v == Does(u, M_SDA_IN)
           c == SetScl(v, 0)
<1>1. b \in Chip(D) /\ b.scl = 0
  BY DEF Pulsed
<1>3. u \in Chip(D) /\ u.scl = 1 /\ u.sda = b.sda /\ (u.mode = "idle" \/ (u.mode = b.mode /\ Phase(u) = Phase(b)))
  BY <1>1, SclUp
<1> HIDE DEF u
<1>4. v \in Chip(D) /\ v.scl = 1 /\ v.sda = b.sda /\ v.mode = u.mode /\ Phase(v) = Phase(u)
  <2>1. v = [u EXCEPT !.got = Append(u.got, Wire(u))] /\ v \in Chip(D) /\ Phase(v) = Phase(u)
    BY <1>3, SdaRead
  <2>2. u \in Lines(D)
    BY <1>3 DEF Chip, Bus
  <2>3. QED BY <1>3, <2>1, <2>2 DEF Lines
<1> HIDE DEF v
<1>5. /\ c \in Chip(D) /\ c.scl = 0 /\ c.sda = b.sda
      /\ v.mode = "idle" => c.mode = "idle"
      /\ v.mode = "send" => c.mode \in {"send", "idle"}
      /\ c.mode = "idle" \/ Phase(c) = NextPhase(Phase(v))
      /\ c.mode = "device" => v.mode = "device" /\ Phase(v) # Width
      /\ v.mode # "send" /\ v.mode # "device" => c.mode # "send"
  BY <1>4, SclDown
<1>6. GotBit(b) = c
  BY DEF GotBit, u, v
<1> HIDE DEF c
<1>7. /\ b.mode = "idle" => c.mode = "idle"
      /\ b.mode = "send" => c.mode \in {"send", "idle"}
      /\ c.mode = "idle" \/ Phase(c) = NextPhase(Phase(b))
      /\ c.mode = "device" => b.mode = "device" /\ Phase(b) # Width
      /\ b.mode \notin {"send", "device"} => c.mode # "send"
  BY <1>3, <1>4, <1>5
<1>8. QED BY <1>5, <1>6, <1>7, PulsedNext

(* A byte leaves the chip at the same phase, or done with the transfer.    *)
Kept(D, b, c) ==
  /\ c \in Chip(D) /\ c.scl = 0 /\ c.mode # "device"
  /\ b.mode = "idle" => c.mode = "idle"
  /\ b.mode = "send" => c.mode \in {"send", "idle"}
  /\ c.mode = "idle" \/ Phase(c) = Phase(b)
  /\ b.mode \notin {"send", "device"} => c.mode # "send"

(* A whole byte is a pulse for each of its phases.                         *)
LEMMA PulsedKept ==
  ASSUME NEW D, NEW b \in Chip(D), b.scl = 0, NEW c, Pulsed(D, b, c, Width + 1)
  PROVE  Kept(D, b, c)
<1>1. CASE b.mode = "idle"
  BY <1>1 DEF Pulsed, Kept
<1>2. CASE b.mode # "idle"
  <2> DEFINE p == Phase(b)
  <2>1. p \in 0 .. Width /\ Width \in Nat
    BY <1>2, PhaseIn, Powers
  <2> HIDE DEF p
  <2>2. p + (Width + 1) > Width /\ p + (Width + 1) - Width - 1 = p /\ ~(p + (Width + 1) <= Width)
    BY <2>1
  <2>3. QED BY <1>2, <2>2 DEF Pulsed, Kept, p
<1>3. QED BY <1>1, <1>2

(* Putting a byte does no more to a chip that is out of step ...           *)
LEMMA PutBytePhase ==
  ASSUME NEW D, NEW b \in Chip(D), b.scl = 0, NEW data \in Nat
  PROVE  Kept(D, b, Performed(b, mi2c_put_byte(data))) /\ Performed(b, mi2c_put_byte(data)).sda = 0
<1>1. PICK f : /\ f[0] = b /\ \A k \in 0 .. Width - 1 : f[k + 1] = PutBit(f[k], Bit(data, k + 1))
               /\ Performed(b, mi2c_put_byte(data)) = SetSda(GotBit(SetSda(f[Width], 1)), 0)
  BY PutByteIs
<1> DEFINE T == { k \in 0 .. Width : Pulsed(D, b, f[k], k) }
<1>2. 0 \in T
  BY <1>1, PulsedNone, Powers
<1>3. ASSUME NEW j \in 0 .. Width - 1, j \in T PROVE j + 1 \in T
  <2>1. j + 1 \in 1 .. Width /\ j + 1 \in 0 .. Width /\ j \in 0 .. Width /\ Pulsed(D, b, f[j], j)
    BY <1>3, Powers
  <2>2. Bit(data, j + 1) \in {0, 1}
    BY <2>1, BitIs01
  <2>3. Pulsed(D, b, PutBit(f[j], Bit(data, j + 1)), j + 1)
    BY <2>1, <2>2, WrittenPulse
  <2>4. f[j + 1] = PutBit(f[j], Bit(data, j + 1))
    BY <1>1
  <2> HIDE DEF T
  <2>5. Pulsed(D, b, f[j + 1], j + 1)
    BY <2>3, <2>4
  <2>6. QED BY <2>1, <2>5 DEF T
<1>4. Pulsed(D, b, f[Width], Width)
  <2> HIDE DEF T
  <2>1. Width \in Nat /\ Width \in 0 .. Width
    BY Powers
  <2>2. 0 .. Width \subseteq T
    BY <1>2, <1>3, <2>1, CountUp
  <2>3. QED BY <2>1, <2>2 DEF T
<1> HIDE DEF T
<1> DEFINE w == f[Width]
           s == SetSda(w, 1)
           r == GotBit(s)
           c == SetSda(r, 0)
<1>5. w \in Chip(D) /\ w.scl = 0
  BY <1>4 DEF Pulsed
<1>6. Pulsed(D, b, s, Width)
  <2>1. s = [w EXCEPT !.sda = 1] /\ s \in Chip(D) /\ Phase(s) = Phase(w)
    BY <1>5, SdaLow
  <2>2. w \in Lines(D)
    BY <1>5 DEF Chip, Bus
  <2>3. s.scl = 0 /\ s.mode = w.mode
    BY <1>5, <2>1, <2>2 DEF Lines
  <2>4. Pulsed(D, b, w, Width)
    BY <1>4
  <2> HIDE DEF s, w
  <2>5. QED BY <2>1, <2>3, <2>4 DEF Pulsed
<1>7. Pulsed(D, b, r, Width + 1)
  <2>1. Width \in 0 .. Width
    BY Powers
  <2> HIDE DEF s
  <2>2. QED BY <1>6, <2>1, ReadPulse
<1>8. r \in Chip(D) /\ r.scl = 0
  BY <1>7 DEF Pulsed
<1> HIDE DEF r
<1>9. c \in Chip(D) /\ c.scl = 0 /\ c.mode = r.mode /\ Phase(c) = Phase(r) /\ c.sda = 0
  <2>1. c = [r EXCEPT !.sda = 0] /\ c \in Chip(D) /\ Phase(c) = Phase(r)
    BY <1>8, SdaLow
  <2>2. r \in Lines(D)
    BY <1>8 DEF Chip, Bus
  <2>3. QED BY <1>8, <2>1, <2>2 DEF Lines
<1>10. Performed(b, mi2c_put_byte(data)) = c
  BY <1>1 DEF r
<1>11. Kept(D, b, r)
  BY <1>7, PulsedKept
<1> HIDE DEF c
<1>12. Kept(D, b, c)
  BY <1>9, <1>11 DEF Kept
<1>13. QED BY <1>9, <1>10, <1>12

(* ... and neither does getting one.                                       *)
LEMMA GetBytePhase ==
  ASSUME NEW D, NEW b \in Chip(D), b.scl = 0, NEW last \in BOOLEAN
  PROVE  Kept(D, b, Performed(b, mi2c_get_byte(last)))
<1>1. PICK f : /\ f[0] = SetScl(SetSda(b, 1), 0) /\ \A k \in 0 .. Width - 1 : f[k + 1] = GotBit(f[k])
               /\ Performed(b, mi2c_get_byte(last)) = PutBit(f[Width], IF last THEN 1 ELSE 0)
  BY GetByteIs
<1>2. f[0] \in Chip(D) /\ f[0].scl = 0 /\ f[0].mode = b.mode /\ Phase(f[0]) = Phase(b)
  <2> DEFINE s == SetSda(b, 1)
  <2>1. s = [b EXCEPT !.sda = 1] /\ s \in Chip(D) /\ Phase(s) = Phase(b)
    BY SdaLow
  <2>2. b \in Lines(D)
    BY DEF Chip, Bus
  <2>3. s.scl = 0 /\ s.mode = b.mode
    BY <2>1, <2>2 DEF Lines
  <2> HIDE DEF s
  <2>4. SetScl(s, 0) = s
    BY <2>3 DEF SetScl
  <2>5. f[0] = s
    BY <1>1, <2>4 DEF s
  <2>6. QED BY <2>1, <2>3, <2>5
<1> DEFINE T == { k \in 0 .. Width : Pulsed(D, b, f[k], k) }
<1>3. 0 \in T
  <2>1. Pulsed(D, b, b, 0)
    BY PulsedNone
  <2>2. Pulsed(D, b, f[0], 0)
    <3> DEFINE g == f[0]
    <3>1. g \in Chip(D) /\ g.scl = 0 /\ g.mode = b.mode /\ Phase(g) = Phase(b)
      BY <1>2
    <3> HIDE DEF g
    <3>2. Pulsed(D, b, g, 0)
      BY <2>1, <3>1 DEF Pulsed
    <3>3. QED BY <3>2 DEF g
  <2>3. 0 \in 0 .. Width
    BY Powers
  <2>4. QED BY <2>2, <2>3
<1>4. ASSUME NEW j \in 0 .. Width - 1, j \in T PROVE j + 1 \in T
  <2>1. j + 1 \in 0 .. Width /\ j \in 0 .. Width /\ Pulsed(D, b, f[j], j)
    BY <1>4, Powers
  <2>3. Pulsed(D, b, GotBit(f[j]), j + 1)
    BY <2>1, ReadPulse
  <2>4. f[j + 1] = GotBit(f[j])
    BY <1>1
  <2> HIDE DEF T
  <2>5. Pulsed(D, b, f[j + 1], j + 1)
    BY <2>3, <2>4
  <2>6. QED BY <2>1, <2>5 DEF T
<1>5. Pulsed(D, b, f[Width], Width)
  <2> HIDE DEF T
  <2>1. Width \in Nat /\ Width \in 0 .. Width
    BY Powers
  <2>2. 0 .. Width \subseteq T
    BY <1>3, <1>4, <2>1, CountUp
  <2>3. QED BY <2>1, <2>2 DEF T
<1> HIDE DEF T
<1> DEFINE x == IF last THEN 1 ELSE 0
<1>6. x \in {0, 1} /\ Width \in 0 .. Width
  BY Powers
<1> HIDE DEF x
<1>7. Pulsed(D, b, PutBit(f[Width], x), Width + 1)
  BY <1>5, <1>6, WrittenPulse
<1>8. Kept(D, b, PutBit(f[Width], x))
  BY <1>7, PulsedKept
<1>9. QED BY <1>1, <1>8 DEF x

(* The lines between transfers.                                            *)
Rest(D) ==
  { b \in Chip(D) : b.scl = 1 /\ b.sda = 1 /\ (b.mode = "idle" \/ (b.out = 0 /\ b.mode # "device")) }

(* An event that the driver makes leaves a chip ...                        *)
LEMMA ChipDoes ==
  ASSUME NEW D, D \subseteq Int, NEW b \in Chip(D), NEW e \in Event
  PROVE  Does(b, e) \in Chip(D)
<1>1. b \in Bus(D) /\ b \in Lines(D) /\ b.scl \in {0, 1}
  BY DEF Chip, Bus, Lines
<1>2. Does(b, e) \in Bus(D)
  BY <1>1, DoesIn
<1>3. CASE e = M_SDA_IN
  BY <1>3, SdaRead
<1>4. CASE e \in { M_SDA_OUT(x) : x \in {0, 1} }
  <2>1. PICK x \in {0, 1} : e = M_SDA_OUT(x)
    BY <1>4
  <2>2. Does(b, e) = SetSda(b, x)
    BY <2>1, DoesIs
  <2>3. CASE b.scl = 0
    BY <2>2, <2>3, SdaLow
  <2>4. CASE b.scl = 1
    <3> DEFINE c == [b EXCEPT !.sda = x]
               d == SetSda(b, x)
    <3>1. c \in Lines(D) /\ c.scl = 1
      BY <1>1, <2>4 DEF Lines
    <3>2. d \in {Started(c), Stopped(c), c}
      BY DEF SetSda
    <3> HIDE DEF c, d
    <3>3. Started(c).scl = 1 /\ Stopped(c).scl = 1
      BY <3>1 DEF Started, Stopped, Lines
    <3>4. d.scl = 1
      BY <3>1, <3>2, <3>3
    <3>5. QED BY <1>2, <2>2, <3>4 DEF Chip, d
  <2>5. QED BY <1>1, <2>3, <2>4
<1>5. CASE e \in { M_SCL_OUT(x) : x \in {0, 1} }
  <2>1. PICK x \in {0, 1} : e = M_SCL_OUT(x)
    BY <1>5
  <2>2. Does(b, e) = SetScl(b, x)
    BY <2>1, DoesIs
  <2>3. CASE b.scl = x
    <3>1. SetScl(b, x) = b
      BY <2>3 DEF SetScl
    <3>2. QED BY <2>2, <3>1
  <2>4. CASE b.scl = 0 /\ x = 1
    BY <2>2, <2>4, SclUp
  <2>5. CASE b.scl = 1 /\ x = 0
    BY <2>2, <2>5, SclDown
  <2>6. QED BY <1>1, <2>3, <2>4, <2>5
<1>6. QED BY <1>3, <1>4, <1>5 DEF Event

(* ... and so do all of an operation, ...                                  *)
LEMMA ChipPerformed ==
  ASSUME NEW D, D \subseteq Int, NEW b \in Chip(D), NEW op \in Seq(Event)
  PROVE  Performed(b, op) \in Chip(D) /\ Passed(b, op) \subseteq Chip(D)
<1>1. Len(op) \in Nat /\ \A i \in 1 .. Len(op) : op[i] \in Event
  OBVIOUS
<1> DEFINE S == Chip(D)
<1>2. \A x \in S : \A i \in 1 .. Len(op) : Does(x, op[i]) \in S
  BY <1>1, ChipDoes
<1> HIDE DEF S
<1>3. b \in S
  BY DEF S
<1>4. QED BY <1>1, <1>2, <1>3, PerformedIn, PassedIn DEF S

(* ... wherever they stop.                                                 *)
LEMMA ChipAlong ==
  ASSUME NEW D, D \subseteq Int, NEW b \in Chip(D), NEW operations \in Seq(Seq(Event))
  PROVE  After(b, operations) \in Chip(D) /\ Along(b, operations) \subseteq Chip(D)
<1> DEFINE S == Chip(D)
           O == Seq(Event)
<1>1. \A x \in S : \A op \in O : Performed(x, op) \in S /\ Passed(x, op) \subseteq S
  BY ChipPerformed
<1>2. operations \in Seq(O) /\ b \in S
  OBVIOUS
<1> HIDE DEF S, O
<1>3. ASSUME NEW ops \in Seq(O) PROVE After(b, ops) \in S
  <2>1. Len(ops) \in Nat /\ \A i \in 1 .. Len(ops) : ops[i] \in O
    OBVIOUS
  <2>2. \A x \in S : \A i \in 1 .. Len(ops) : Performed(x, ops[i]) \in S
    BY <1>1, <2>1
  <2>3. QED BY <1>2, <2>1, <2>2, AfterIn
<1>4. ASSUME NEW k \in DOMAIN operations
      PROVE  UNION { Passed(before, operations[k]) : before \in {After(b, SubSeq(operations, 1, k - 1))} } \subseteq S
  <2>1. SubSeq(operations, 1, k - 1) \in Seq(O) /\ operations[k] \in O
    BY <1>2
  <2>2. After(b, SubSeq(operations, 1, k - 1)) \in S
    BY <1>3, <2>1
  <2>3. QED BY <1>1, <2>1, <2>2
<1>5. Along(b, operations) \subseteq S
  BY <1>4 DEF Along
<1>6. QED BY <1>2, <1>3, <1>5 DEF S

(* Every operation is made of these.                                       *)
LEMMA Operations ==
  /\ mi2c_init \in Seq(Event) /\ mi2c_start \in Seq(Event) /\ mi2c_repeat_start \in Seq(Event) /\ mi2c_stop \in Seq(Event)
  /\ \A data \in Nat : mi2c_put_byte(data) \in Seq(Event)
  /\ \A last \in BOOLEAN : mi2c_get_byte(last) \in Seq(Event)
<1>1. mi2c_init \in Seq(Event) /\ mi2c_start \in Seq(Event) /\ mi2c_repeat_start \in Seq(Event) /\ mi2c_stop \in Seq(Event)
  BY DEF mi2c_init, mi2c_start, mi2c_repeat_start, mi2c_stop, Event
<1>0. 3 * Width \in Nat
  BY Powers
<1>2. ASSUME NEW data \in Nat PROVE mi2c_put_byte(data) \in Seq(Event)
  <2> DEFINE t == [i \in 1 .. 3 * Width |-> CASE i % 3 = 1 -> M_SDA_OUT(Bit(data, i \div 3 + 1))
                              [] i % 3 = 2 -> M_SCL_OUT(1)
                              [] OTHER     -> M_SCL_OUT(0)]
             u == << M_SDA_OUT(1), M_SCL_OUT(1), M_SDA_IN, M_SCL_OUT(0), M_SDA_OUT(0) >>
  <2>1. ASSUME NEW i \in 1 .. 3 * Width PROVE t[i] \in Event
    <3>1. CASE i % 3 = 1
      <4>1. t[i] = M_SDA_OUT(Bit(data, i \div 3 + 1))
        BY <3>1
      <4>2. i \div 3 + 1 \in 1 .. Width
        BY <3>1, Powers
      <4>3. Bit(data, i \div 3 + 1) \in {0, 1}
        BY <4>2, BitIs01
      <4>4. QED BY <4>1, <4>3 DEF Event
    <3>2. CASE i % 3 = 2
      <4>1. t[i] = M_SCL_OUT(1)
        BY <3>2
      <4>2. QED BY <4>1 DEF Event
    <3>3. CASE i % 3 # 1 /\ i % 3 # 2
      <4>1. t[i] = M_SCL_OUT(0)
        BY <3>3
      <4>2. QED BY <4>1 DEF Event
    <3>4. QED BY <3>1, <3>2, <3>3
  <2>2. t = [i \in 1 .. 3 * Width |-> t[i]]
    OBVIOUS
  <2>3. u \in Seq(Event)
    BY DEF Event
  <2>4. mi2c_put_byte(data) = t \o u
    BY DEF mi2c_put_byte
  <2> HIDE DEF t, u
  <2>5. t \in Seq(Event)
    BY <1>0, <2>1, <2>2
  <2>6. QED BY <2>3, <2>4, <2>5
<1>3. ASSUME NEW last \in BOOLEAN PROVE mi2c_get_byte(last) \in Seq(Event)
  <2> DEFINE t == [i \in 1 .. 3 * Width |-> CASE i % 3 = 1 -> M_SCL_OUT(1)
                                 [] i % 3 = 2 -> M_SDA_IN
                                 [] OTHER     -> M_SCL_OUT(0)]
             x == IF last THEN 1 ELSE 0
             s == << M_SDA_OUT(1), M_SCL_OUT(0) >>
             u == << M_SDA_OUT(x), M_SCL_OUT(1), M_SCL_OUT(0) >>
  <2>1. \A i \in 1 .. 3 * Width : t[i] \in Event
    BY DEF Event
  <2>2. t = [i \in 1 .. 3 * Width |-> t[i]]
    OBVIOUS
  <2>3. u \in Seq(Event) /\ s \in Seq(Event)
    BY DEF Event
  <2>4. mi2c_get_byte(last) = s \o t \o u
    BY DEF mi2c_get_byte
  <2> HIDE DEF t, u, s
  <2>5. t \in Seq(Event)
    BY <1>0, <2>1, <2>2
  <2>6. QED BY <2>3, <2>4, <2>5
<1>4. QED BY <1>1, <1>2, <1>3

(* A start, from whatever state the bus is in.                             *)
LEMMA StartFrom ==
  ASSUME NEW D, D \subseteq Int, NEW b \in Chip(D)
  PROVE  Performed(b, mi2c_start) \in Chip(D) /\ Performed(b, mi2c_start).scl = 0
         /\ Performed(b, mi2c_start) = SetScl(SetSda(b, 0), 0)
<1> DEFINE s == SetSda(b, 0)
           c == SetScl(s, 0)
<1>1. Performed(b, mi2c_start) = c
  <2>1. Performed(b, mi2c_start) = Does(Does(b, M_SDA_OUT(0)), M_SCL_OUT(0))
    BY PerformedTwo DEF mi2c_start
  <2>2. QED BY <2>1, DoesIs
<1>2. s \in Chip(D)
  <2>1. Does(b, M_SDA_OUT(0)) \in Chip(D)
    BY ChipDoes DEF Event
  <2>2. QED BY <2>1, DoesIs
<1> HIDE DEF s
<1>3. s.scl \in {0, 1}
  BY <1>2 DEF Chip, Bus, Lines
<1>4. CASE s.scl = 0
  <2>1. c = s
    BY <1>4 DEF SetScl
  <2>2. QED BY <1>1, <1>2, <1>4, <2>1 DEF s
<1>5. CASE s.scl = 1
  <2>1. c \in Chip(D) /\ c.scl = 0
    BY <1>2, <1>5, SclDown
  <2>2. QED BY <1>1, <2>1 DEF s
<1>6. QED BY <1>3, <1>4, <1>5

(* From between transfers.  A chip that holds SDA down does not notice.    *)
LEMMA StartRest ==
  ASSUME NEW D, D \subseteq Int, NEW b \in Rest(D)
  PROVE  LET c == Performed(b, mi2c_start) IN
         /\ c \in Chip(D) /\ c.scl = 0
         /\ b.mode # "idle" =>
              /\ c.mode # "device" /\ (c.mode = "idle" \/ Phase(c) = NextPhase(Phase(b)))
              /\ b.mode # "send" => c.mode # "send"
              /\ b.mode = "send" => c.mode \in {"send", "idle"}
         /\ b.mode = "idle" =>
              c = [b EXCEPT !.mode = "device", !.n = 0, !.byte = 0, !.out = 1, !.pend = << >>, !.scl = 0, !.sda = 0]
<1> DEFINE s == SetSda(b, 0)
           c == Performed(b, mi2c_start)
           e == [b EXCEPT !.sda = 0]
<1>0. b \in Chip(D) /\ b.scl = 1 /\ b.sda = 1 /\ b \in Lines(D) /\ Consistent(b)
  BY DEF Rest, Chip, Bus
<1>1. c \in Chip(D) /\ c.scl = 0 /\ c = SetScl(s, 0)
  BY <1>0, StartFrom
<1>e. e \in Lines(D) /\ e.mode = b.mode /\ e.out = b.out /\ e.sda = 0 /\ e.scl = 1 /\ e.n = b.n
  BY <1>0 DEF Lines
<1>2. CASE b.mode # "idle"
  <2>1. b.out = 0 /\ b.mode # "device"
    BY <1>2 DEF Rest
  <2>2. Wire(b) = 0 /\ Wire(e) = 0
    BY <1>e, <2>1 DEF Wire
  <2>3. s = e
    BY <1>0, <2>2 DEF SetSda
  <2> HIDE DEF e
  <2>4. s \in Chip(D)
    <3>1. Does(b, M_SDA_OUT(0)) \in Chip(D)
      BY <1>0, ChipDoes DEF Event
    <3>2. QED BY <3>1, DoesIs
  <2>5. s.scl = 1 /\ s.mode = b.mode /\ Phase(s) = Phase(b)
    BY <1>0, <1>e, <2>3 DEF Phase
  <2> HIDE DEF s, c
  <2>6. /\ c.mode = "idle" \/ Phase(c) = NextPhase(Phase(s))
        /\ c.mode = "device" => s.mode = "device"
        /\ s.mode # "send" /\ s.mode # "device" => c.mode # "send"
        /\ s.mode = "send" => c.mode \in {"send", "idle"}
    BY <1>1, <2>4, <2>5, SclDown
  <2>7. QED BY <1>1, <1>2, <2>1, <2>5, <2>6 DEF c
<1>3. CASE b.mode = "idle"
  <2>1. b.out = 1
    BY <1>0, <1>3 DEF Consistent
  <2>2. Wire(b) = 1 /\ Wire(e) = 0
    BY <1>0, <1>e, <2>1 DEF Wire
  <2>3. s = Started(e)
    BY <1>0, <2>2 DEF SetSda
  <2>4. s = [b EXCEPT !.mode = "device", !.n = 0, !.byte = 0, !.out = 1, !.pend = << >>, !.sda = 0]
    BY <1>0, <2>3 DEF Started, Lines
  <2> HIDE DEF e
  <2> DEFINE d == [s EXCEPT !.scl = 0]
             f == [b EXCEPT !.mode = "device", !.n = 0, !.byte = 0, !.out = 1, !.pend = << >>, !.scl = 0, !.sda = 0]
  <2>5. d = f /\ f.n = 0 /\ f.mode = "device" /\ f.out = 1 /\ s.scl = 1
    BY <1>0, <2>4 DEF Lines
  <2>6. c = Falls(d)
    BY <1>1, <2>5 DEF SetScl
  <2> HIDE DEF s, c, d, f
  <2>7. Falls(d) = d
    <3>1. d.n # Width /\ d.n \in Nat /\ Receives(d)
      BY <2>5, Powers DEF Receives
    <3>2. QED BY <2>5, <3>1, FallsIs
  <2>8. QED BY <1>1, <1>3, <2>5, <2>6, <2>7 DEF c, f
<1>4. QED BY <1>2, <1>3

(* A repeated start finds the chip in the middle of a transfer, with the   *)
(* clock low.                                                              *)
LEMMA RepeatStart ==
  ASSUME NEW D, D \subseteq Int, NEW b \in Chip(D), b.scl = 0
  PROVE  Performed(b, mi2c_repeat_start) \in Chip(D) /\ Performed(b, mi2c_repeat_start).scl = 0
         /\ Performed(b, mi2c_repeat_start) = SetScl(SetSda(SetScl(SetSda(b, 1), 1), 0), 0)
<1> DEFINE a == SetSda(b, 1)
           u == SetScl(a, 1)
           s == SetSda(u, 0)
           c == SetScl(s, 0)
<1>1. Performed(b, mi2c_repeat_start) = c
  <2>1. Performed(b, mi2c_repeat_start) = Does(Does(Does(Does(b, M_SDA_OUT(1)), M_SCL_OUT(1)), M_SDA_OUT(0)), M_SCL_OUT(0))
    BY PerformedFour DEF mi2c_repeat_start
  <2>2. QED BY <2>1, DoesIs
<1>2. u \in Chip(D)
  <2>1. Does(b, M_SDA_OUT(1)) \in Chip(D)
    BY ChipDoes DEF Event
  <2>2. a \in Chip(D)
    BY <2>1, DoesIs
  <2> HIDE DEF a
  <2>3. Does(a, M_SCL_OUT(1)) \in Chip(D)
    BY <2>2, ChipDoes DEF Event
  <2>4. QED BY <2>3, DoesIs
<1> HIDE DEF u
<1>3. Performed(u, mi2c_start) \in Chip(D) /\ Performed(u, mi2c_start).scl = 0 /\ Performed(u, mi2c_start) = c
  BY <1>2, StartFrom
<1>4. QED BY <1>1, <1>3 DEF u

(* A stop leaves the bus between transfers, whatever state it comes in.    *)
LEMMA StopTo ==
  ASSUME NEW D, D \subseteq Int, NEW b \in Chip(D), b.scl = 0, b.mode # "device"
  PROVE  LET c == Performed(b, mi2c_stop) IN
         /\ c \in Rest(D)
         /\ b.mode = "idle" => c.mode = "idle"
         /\ c.mode = "idle" \/ (c.mode = b.mode /\ Phase(c) = Phase(b))
<1> DEFINE s == SetSda(b, 0)
           u == SetScl(s, 1)
           e == [u EXCEPT !.sda = 1]
           c == SetSda(u, 1)
<1>1. Performed(b, mi2c_stop) = c
  <2>1. Performed(b, mi2c_stop) = Does(Does(Does(b, M_SDA_OUT(0)), M_SCL_OUT(1)), M_SDA_OUT(1))
    BY PerformedThree DEF mi2c_stop
  <2>2. QED BY <2>1, DoesIs
<1>2. s \in Chip(D) /\ s.scl = 0 /\ s.sda = 0 /\ s.mode = b.mode /\ Phase(s) = Phase(b)
  <2>1. s = [b EXCEPT !.sda = 0] /\ s \in Chip(D) /\ Phase(s) = Phase(b)
    BY SdaLow
  <2>2. b \in Lines(D)
    BY DEF Chip, Bus
  <2>3. QED BY <2>1, <2>2 DEF Lines
<1> HIDE DEF s
<1>3. u \in Chip(D) /\ u.scl = 1 /\ u.sda = 0 /\ (u.mode = "idle" \/ (u.mode = s.mode /\ Phase(u) = Phase(s)))
  BY <1>2, SclUp
<1> HIDE DEF u
<1>4. c \in Chip(D)
  <2>1. Does(u, M_SDA_OUT(1)) \in Chip(D)
    BY <1>3, ChipDoes DEF Event
  <2>2. QED BY <2>1, DoesIs
<1>5. u \in Lines(D) /\ e \in Lines(D) /\ e.mode = u.mode /\ e.out = u.out /\ e.n = u.n /\ e.scl = 1 /\ e.sda = 1
  BY <1>3 DEF Chip, Bus, Lines
<1>6. Wire(u) = 0
  BY <1>3 DEF Wire
<1>7. CASE u.out = 1
  <2>1. Wire(e) = 1
    BY <1>5, <1>7 DEF Wire
  <2>2. c = Stopped(e)
    BY <1>3, <1>6, <2>1 DEF SetSda
  <2> HIDE DEF e
  <2>3. Stopped(e).mode = "idle" /\ Stopped(e).scl = 1 /\ Stopped(e).sda = 1
    BY <1>5 DEF Stopped, Lines
  <2> HIDE DEF c
  <2>4. c \in Rest(D) /\ c.mode = "idle"
    BY <1>4, <2>2, <2>3 DEF Rest
  <2>5. QED BY <1>1, <2>4 DEF c
<1>8. CASE u.out = 0
  <2>1. Wire(e) = 0
    BY <1>5, <1>8 DEF Wire
  <2>2. c = e
    BY <1>3, <1>6, <2>1 DEF SetSda
  <2> HIDE DEF e, c
  <2>3. u.mode # "idle"
    BY <1>3, <1>8 DEF Chip, Bus, Consistent
  <2>4. Phase(e) = Phase(u)
    BY <1>3, <1>5 DEF Phase
  <2>5. c \in Rest(D)
    BY <1>2, <1>3, <1>4, <1>5, <1>8, <2>2, <2>3 DEF Rest
  <2>6. b.mode # "idle"
    BY <1>2, <1>3, <2>3
  <2>7. QED BY <1>1, <1>2, <1>3, <1>5, <2>2, <2>3, <2>4, <2>5, <2>6 DEF c
<1>9. QED BY <1>5, <1>7, <1>8 DEF Lines

-----------------------------------------------------------------------------
(* The operations, from a chip that listens.                               *)

(* Halving once more.                                                      *)
LEMMA Halves ==
  ASSUME NEW d \in Nat, NEW p \in Nat, p > 0
  PROVE  d \div p = 2 * (d \div (2 * p)) + ((d \div p) % 2)
<1> DEFINE q == d \div p
           h == d \div (2 * p)
<1>1. q \in Nat /\ p * q <= d /\ d < p * q + p
  OBVIOUS
<1>2. h \in Nat /\ (2 * p) * h <= d /\ d < (2 * p) * h + 2 * p
  OBVIOUS
<1> HIDE DEF q, h
<1>3. p * (2 * h) = (2 * p) * h
  BY <1>2
<1> DEFINE x == p * q
           y == p * (2 * h)
<1>4. x < y + 2 * p /\ y < x + p
  <2>1. x \in Nat /\ y \in Nat
    BY <1>1, <1>2
  <2>2. x <= d /\ d < x + p /\ y <= d /\ d < y + 2 * p
    BY <1>1, <1>2, <1>3
  <2> HIDE DEF x, y
  <2>3. QED BY <2>1, <2>2
<1>5. q < 2 * h + 2
  <2>1. SUFFICES ASSUME q >= 2 * h + 2 PROVE FALSE
    BY <1>1, <1>2
  <2> DEFINE e == q - 2 * h - 2
  <2>2. e \in Nat /\ q = (2 * h + 2) + e
    BY <1>1, <1>2, <2>1
  <2> HIDE DEF e
  <2>3. p * q = p * (2 * h) + 2 * p + p * e
    BY <1>1, <1>2, <2>2
  <2>4. p * e \in Nat
    BY <2>2
  <2>5. p * q \in Nat /\ p * (2 * h) \in Nat
    BY <1>1, <1>2
  <2>6. QED BY <1>4, <2>3, <2>4, <2>5
<1>6. 2 * h < q + 1
  <2>1. SUFFICES ASSUME 2 * h >= q + 1 PROVE FALSE
    BY <1>1, <1>2
  <2> DEFINE e == 2 * h - q - 1
  <2>2. e \in Nat /\ 2 * h = q + 1 + e
    BY <1>1, <1>2, <2>1
  <2> HIDE DEF e
  <2>3. p * (2 * h) = p * q + p + p * e
    <3>1. p * (q + 1 + e) = p * q + p + p * e
      BY <1>1, <2>2
    <3>2. QED BY <2>2, <3>1
  <2>4. p * e \in Nat
    BY <2>2
  <2>5. p * q \in Nat /\ p * (2 * h) \in Nat
    BY <1>1, <1>2
  <2>6. QED BY <1>4, <2>3, <2>4, <2>5
<1>7. q = 2 * h \/ q = 2 * h + 1
  BY <1>1, <1>2, <1>5, <1>6
<1>8. q = 2 * h + (q % 2)
  BY <1>1, <1>2, <1>7
<1>9. QED BY <1>8 DEF q, h

(* The bits of a byte that have come in, with one more ...                 *)
LEMMA BitNext ==
  ASSUME NEW d \in Nat, NEW k \in 0 .. Width - 1
  PROVE  d \div 2 ^ (Width - (k + 1)) = 2 * (d \div 2 ^ (Width - k)) + Bit(d, k + 1)
<1> DEFINE j == Width - (k + 1)
           p == 2 ^ j
<1>1. j \in 0 .. Width - 1 /\ j \in 0 .. Width /\ Width - k = j + 1
  BY Powers
<1> HIDE DEF j
<1>2. p \in Nat /\ p > 0 /\ 2 ^ (Width - k) = 2 * p
  BY <1>1, Powers
<1> HIDE DEF p
<1>3. d \div p = 2 * (d \div (2 * p)) + ((d \div p) % 2)
  BY <1>2, Halves
<1>4. Bit(d, k + 1) = (d \div p) % 2
  BY DEF Bit, p, j
<1>5. d \div 2 ^ (Width - k) = d \div (2 * p)
  BY <1>2
<1>6. QED BY <1>3, <1>4, <1>5 DEF p, j

(* ... from none to all of them.                                           *)
LEMMA BitEnds ==
  ASSUME NEW d \in 0 .. Blank
  PROVE  d \div 2 ^ (Width - 0) = 0 /\ d \div 2 ^ (Width - Width) = d
<1>1. Width - 0 = Width /\ Width - Width = 0 /\ 2 ^ 0 = 1
  BY Powers
<1>2. d \in Nat /\ d < Byte /\ Byte \in Nat /\ 2 ^ Width = Byte
  BY Powers DEF Byte
<1> DEFINE m == Byte
<1> HIDE DEF m
<1>3. d \div m = 0
  BY <1>2 DEF m
<1>4. d \div 1 = d
  BY <1>2
<1>5. QED BY <1>1, <1>2, <1>3, <1>4 DEF m

(* A bit of a byte that comes in, but for the last.                        *)
LEMMA WrittenBit ==
  ASSUME NEW D, NEW b \in Chip(D), b.scl = 0, Receives(b), b.out = 1, b.n + 1 < Width, NEW x \in {0, 1}
  PROVE  PutBit(b, x) = [b EXCEPT !.sda = x, !.n = b.n + 1, !.byte = 2 * b.byte + x]
<1> DEFINE s == [b EXCEPT !.sda = x]
           k == b.n + 1
           y == 2 * b.byte + x
           c == [b EXCEPT !.sda = x, !.n = k, !.byte = y]
           t == [s EXCEPT !.scl = 1]
           u == [t EXCEPT !.n = k, !.byte = y]
           v == [u EXCEPT !.scl = 0]
<1>1. b \in Lines(D) /\ b.n \in Nat /\ Width \in Nat
  BY Powers DEF Chip, Bus, Lines
<1>2. SetSda(b, x) = s
  BY SdaLow
<1>3. /\ t \in Lines(D) /\ t.mode = b.mode /\ t.out = 1 /\ t.sda = x /\ t.n = b.n /\ t.byte = b.byte
      /\ s.scl = 0
  <2>1. s \in Lines(D)
    BY <1>1 DEF Lines
  <2>2. s.sda = x /\ s.mode = b.mode /\ s.out = 1 /\ s.scl = 0 /\ s.n = b.n /\ s.byte = b.byte
    BY <1>1 DEF Lines
  <2> HIDE DEF s
  <2>3. QED BY <2>1, <2>2 DEF Lines
<1>4. SetScl(s, 1) = u
  <2>1. SetScl(s, 1) = Rises(t)
    BY <1>3 DEF SetScl
  <2>2. Receives(t) /\ t.n < Width /\ Wire(t) = x
    BY <1>1, <1>3 DEF Receives, Wire
  <2> HIDE DEF t
  <2>3. Rises(t) = [t EXCEPT !.byte = 2 * @ + Wire(t), !.n = @ + 1]
    BY <1>3, <2>2, RisesIs
  <2>4. QED BY <1>3, <2>1, <2>2, <2>3 DEF Lines
<1>5. v = c /\ u.scl = 1
  <2> HIDE DEF k, y
  <2>1. QED BY <1>1 DEF Lines
<1>6. SetScl(u, 0) = v
  <2>1. SetScl(u, 0) = Falls(v)
    BY <1>5 DEF SetScl
  <2>2. c.n = k /\ c.mode = b.mode /\ c.out = 1
    <3> HIDE DEF k, y
    <3>1. QED BY <1>1 DEF Lines
  <2>3. k # Width /\ k \in Nat
    BY <1>1
  <2>4. Receives(c)
    BY <2>2 DEF Receives
  <2> HIDE DEF c, k, y, v, u
  <2>5. Falls(c) = c
    BY <2>2, <2>3, <2>4, FallsIs
  <2>6. QED BY <1>5, <2>1, <2>5
<1> HIDE DEF s, u, v, c
<1>7. PutBit(b, x) = c
  BY <1>2, <1>4, <1>5, <1>6 DEF PutBit
<1>8. QED BY <1>7 DEF c

(* The last one.                                                           *)
LEMMA WrittenLast ==
  ASSUME NEW D, NEW b \in Chip(D), b.scl = 0, Receives(b), b.out = 1, b.n + 1 = Width, NEW x \in {0, 1}
  PROVE  PutBit(b, x)
           = LET c == [b EXCEPT !.sda = x, !.n = Width, !.byte = 2 * b.byte + x]
             IN  IF b.mode = "device" /\ ~Called(c) THEN [c EXCEPT !.mode = "idle"] ELSE [c EXCEPT !.out = 0]
<1> DEFINE s == [b EXCEPT !.sda = x]
           y == 2 * b.byte + x
           c == [b EXCEPT !.sda = x, !.n = Width, !.byte = y]
           t == [s EXCEPT !.scl = 1]
           u == [t EXCEPT !.n = Width, !.byte = y]
           v == [u EXCEPT !.scl = 0]
<1>1. b \in Lines(D) /\ b.n \in Nat /\ Width \in Nat
  BY Powers DEF Chip, Bus, Lines
<1>2. SetSda(b, x) = s
  BY SdaLow
<1>3. /\ t \in Lines(D) /\ t.mode = b.mode /\ t.out = 1 /\ t.sda = x /\ t.n = b.n /\ t.byte = b.byte
      /\ s.scl = 0
  <2>1. s \in Lines(D)
    BY <1>1 DEF Lines
  <2>2. s.sda = x /\ s.mode = b.mode /\ s.out = 1 /\ s.scl = 0 /\ s.n = b.n /\ s.byte = b.byte
    BY <1>1 DEF Lines
  <2> HIDE DEF s
  <2>3. QED BY <2>1, <2>2 DEF Lines
<1>4. SetScl(s, 1) = u
  <2>1. SetScl(s, 1) = Rises(t)
    BY <1>3 DEF SetScl
  <2>2. Receives(t) /\ t.n < Width /\ Wire(t) = x
    BY <1>1, <1>3 DEF Receives, Wire
  <2> HIDE DEF t
  <2>3. Rises(t) = [t EXCEPT !.byte = 2 * @ + Wire(t), !.n = @ + 1]
    BY <1>3, <2>2, RisesIs
  <2>4. QED BY <1>3, <2>1, <2>2, <2>3 DEF Lines
<1>5. v = c /\ u.scl = 1
  <2> HIDE DEF y
  <2>1. QED BY <1>1 DEF Lines
<1>6. SetScl(u, 0) = IF b.mode = "device" /\ ~Called(c) THEN [c EXCEPT !.mode = "idle"] ELSE [c EXCEPT !.out = 0]
  <2>1. SetScl(u, 0) = Falls(v)
    BY <1>5 DEF SetScl
  <2>2. c.n = Width /\ c.mode = b.mode /\ c.out = 1
    <3> HIDE DEF y
    <3>1. QED BY <1>1 DEF Lines
  <2>4. Receives(c)
    BY <2>2 DEF Receives
  <2> HIDE DEF c, y, v, u
  <2>5. (c.mode = "device" /\ ~Called(c) => Falls(c) = [c EXCEPT !.mode = "idle"])
        /\ (~(c.mode = "device" /\ ~Called(c)) => Falls(c) = [c EXCEPT !.out = 0])
    BY <1>1, <2>2, <2>4, FallsIs
  <2>6. QED BY <1>5, <2>1, <2>2, <2>5
<1> HIDE DEF s, u, v, c
<1>7. PutBit(b, x) = SetScl(u, 0)
  BY <1>2, <1>4 DEF PutBit
<1>8. QED BY <1>6, <1>7 DEF c

(* All of them.                                                            *)
Came(b, data) ==
  LET c == [b EXCEPT !.sda = Bit(data, Width), !.n = Width, !.byte = data]
  IN  IF b.mode = "device" /\ ~Called(c) THEN [c EXCEPT !.mode = "idle"] ELSE [c EXCEPT !.out = 0]

(* It has come in once they have been put.                                 *)
LEMMA WrittenByte ==
  ASSUME NEW D, NEW b \in Chip(D), b.scl = 0, Receives(b), b.out = 1, b.n = 0, b.byte = 0,
         NEW data \in 0 .. Blank, NEW f, f[0] = b,
         \A k \in 0 .. Width - 1 : f[k + 1] = PutBit(f[k], Bit(data, k + 1))
  PROVE  f[Width] = Came(b, data)
<1> DEFINE At(k) == \E s \in {0, 1} : f[k] = [b EXCEPT !.sda = s, !.n = k, !.byte = data \div 2 ^ (Width - k)]
           T == { k \in 0 .. Width - 1 : f[k] \in Chip(D) /\ At(k) }
<1>0. Width - 1 \in Nat /\ Width \in Nat /\ Width > 0 /\ data \in Nat /\ b \in Lines(D)
  BY Powers DEF Chip, Bus
<1>1. 0 \in T
  <2>1. 0 \in 0 .. Width - 1 /\ data \div 2 ^ (Width - 0) = 0 /\ b.sda \in {0, 1}
    BY <1>0, BitEnds DEF Lines
  <2>2. b = [b EXCEPT !.sda = b.sda, !.n = 0, !.byte = 0]
    BY <1>0 DEF Lines
  <2>3. At(0)
    BY <2>1, <2>2
  <2>4. QED BY <2>1, <2>3
<1>2. ASSUME NEW j \in 0 .. Width - 2, j \in T PROVE j + 1 \in T
  <2> DEFINE x == Bit(data, j + 1)
             y == data \div 2 ^ (Width - j)
             z == data \div 2 ^ (Width - (j + 1))
             g == f[j]
  <2>1. j + 1 \in 0 .. Width - 1 /\ j + 1 \in 1 .. Width /\ j \in 0 .. Width - 1 /\ j + 1 < Width
    BY <1>0
  <2>2. x \in {0, 1}
    BY <1>0, <2>1, BitIs01
  <2>3. z = 2 * y + x
    BY <1>0, <2>1, BitNext
  <2>4. PICK s \in {0, 1} : g = [b EXCEPT !.sda = s, !.n = j, !.byte = y]
    BY <1>2
  <2>5. f[j + 1] = PutBit(g, x) /\ g \in Chip(D)
    BY <1>2, <2>1
  <2> HIDE DEF x, y, z, g
  <2>6. g.scl = 0 /\ g.out = 1 /\ g.mode = b.mode /\ g.n = j /\ g.byte = y
    BY <1>0, <2>4 DEF Lines
  <2>7. Receives(g)
    BY <2>6 DEF Receives
  <2>8. PutBit(g, x) = [g EXCEPT !.sda = x, !.n = g.n + 1, !.byte = 2 * g.byte + x]
    BY <2>1, <2>2, <2>5, <2>6, <2>7, WrittenBit
  <2>9. f[j + 1] = [b EXCEPT !.sda = x, !.n = j + 1, !.byte = z]
    <3>1. g.n + 1 = j + 1 /\ 2 * g.byte + x = z
      BY <2>3, <2>6
    <3>2. [g EXCEPT !.sda = x, !.n = j + 1, !.byte = z] = [b EXCEPT !.sda = x, !.n = j + 1, !.byte = z]
      BY <1>0, <2>4 DEF Lines
    <3>3. QED BY <2>5, <2>8, <3>1, <3>2
  <2>10. f[j + 1] \in Chip(D)
    <3>1. Pulsed(D, g, PutBit(g, x), 1)
      <4>1. Pulsed(D, g, g, 0) /\ 0 \in 0 .. Width
        BY <1>0, <2>5, <2>6, PulsedNone
      <4>2. Pulsed(D, g, PutBit(g, x), 0 + 1)
        BY <2>2, <2>5, <2>6, <4>1, WrittenPulse
      <4>3. QED BY <4>2
    <3>2. QED BY <2>5, <3>1 DEF Pulsed
  <2>11. At(j + 1)
    BY <2>2, <2>9 DEF z
  <2>12. QED BY <2>1, <2>10, <2>11
<1>3. Width - 1 \in T
  <2> HIDE DEF T
  <2> DEFINE m == Width - 1
  <2>1. m \in Nat /\ \A j \in 0 .. m - 1 : j \in 0 .. Width - 2
    BY <1>0
  <2>2. \A j \in 0 .. m - 1 : j \in T => j + 1 \in T
    BY <1>2, <2>1
  <2> HIDE DEF m
  <2>3. 0 .. m \subseteq T
    BY <1>1, <2>1, <2>2, CountUp
  <2>4. QED BY <2>1, <2>3 DEF m
<1> DEFINE j == Width - 1
           x == Bit(data, j + 1)
           y == data \div 2 ^ (Width - j)
           g == f[j]
<1>4. j \in 0 .. Width - 1 /\ j + 1 = Width /\ j + 1 \in 1 .. Width
  BY <1>0
<1>5. x \in {0, 1}
  BY <1>0, <1>4, BitIs01
<1>6. data = 2 * y + x
  <2>1. data \div 2 ^ (Width - (j + 1)) = 2 * y + x
    BY <1>0, <1>4, BitNext
  <2>2. data \div 2 ^ (Width - Width) = data
    BY BitEnds
  <2>3. Width - (j + 1) = Width - Width
    BY <1>4
  <2>4. QED BY <2>1, <2>2, <2>3
<1>7. g \in Chip(D) /\ \E s \in {0, 1} : g = [b EXCEPT !.sda = s, !.n = j, !.byte = y]
  BY <1>3
<1>8. f[j + 1] = PutBit(g, x)
  BY <1>4
<1>x. x = Bit(data, Width)
  BY <1>4
<1> HIDE DEF x, y, g, T, j
<1>9. PICK s \in {0, 1} : g = [b EXCEPT !.sda = s, !.n = j, !.byte = y]
  BY <1>7
<1>10. g.scl = 0 /\ g.out = 1 /\ g.mode = b.mode /\ g.n = j /\ g.byte = y
  BY <1>0, <1>9 DEF Lines
<1>11. Receives(g)
  BY <1>10 DEF Receives
<1> DEFINE cg == [g EXCEPT !.sda = x, !.n = Width, !.byte = 2 * g.byte + x]
           c == [b EXCEPT !.sda = x, !.n = Width, !.byte = data]
<1>12. PutBit(g, x) = IF g.mode = "device" /\ ~Called(cg) THEN [cg EXCEPT !.mode = "idle"] ELSE [cg EXCEPT !.out = 0]
  <2>1. g.n + 1 = Width
    BY <1>4, <1>10
  <2>2. g.scl = 0 /\ g.out = 1 /\ g \in Chip(D)
    BY <1>7, <1>10
  <2> HIDE DEF cg
  <2>3. PutBit(g, x) = LET e == [g EXCEPT !.sda = x, !.n = Width, !.byte = 2 * g.byte + x]
             IN  IF g.mode = "device" /\ ~Called(e) THEN [e EXCEPT !.mode = "idle"] ELSE [e EXCEPT !.out = 0]
    BY ZenonT(20), <1>5, <1>11, <2>1, <2>2, WrittenLast
  <2>4. QED BY <2>3 DEF cg
<1>13. cg = c
  <2>1. 2 * g.byte + x = data
    BY <1>6, <1>10
  <2>2. QED BY <1>0, <1>9, <2>1 DEF Lines
<1> HIDE DEF cg, c
<1>14. f[Width] = IF b.mode = "device" /\ ~Called(c) THEN [c EXCEPT !.mode = "idle"] ELSE [c EXCEPT !.out = 0]
  BY <1>4, <1>8, <1>10, <1>12, <1>13
<1>15. QED BY <1>14, <1>x DEF c, Came

(* What the chip makes of the byte, case by case.                          *)
LEMMA TakesIs ==
  ASSUME NEW b, NEW D, b \in Lines(D)
  PROVE  /\ b.mode = "device" /\ b.byte % 2 = 1 =>
              Takes(b) = [b EXCEPT !.out = Bit(Content(b), 1), !.n = 1, !.byte = 0, !.mode = "send"]
         /\ b.mode = "device" /\ b.byte % 2 # 1 =>
              Takes(b) = [b EXCEPT !.out = 1, !.n = 0, !.byte = 0, !.at = 0,
                                   !.mode = IF AddrBytes = 2 THEN "high" ELSE "low"]
         /\ b.mode = "high" => Takes(b) = [b EXCEPT !.out = 1, !.n = 0, !.byte = 0, !.at = b.byte * Byte, !.mode = "low"]
         /\ b.mode = "low" => Takes(b) = [b EXCEPT !.out = 1, !.n = 0, !.byte = 0, !.at = b.at + b.byte, !.mode = "data"]
         /\ b.mode = "data" => Takes(b) = [b EXCEPT !.out = 1, !.n = 0, !.byte = 0, !.pend = Append(b.pend, b.byte)]
<1> DEFINE next == [b EXCEPT !.out = 1, !.n = 0, !.byte = 0]
<1>1. next.at = b.at /\ next.mem = b.mem /\ next.pend = b.pend
  BY DEF Lines
<1>2. ASSUME b.mode = "device", b.byte % 2 = 1
      PROVE  Takes(b) = [b EXCEPT !.out = Bit(Content(b), 1), !.n = 1, !.byte = 0, !.mode = "send"]
  <2>1. Takes(b) = Sends(next)
    BY <1>2 DEF Takes
  <2>2. Content(next) = Content(b)
    <3> HIDE DEF next
    <3>1. QED BY <1>1 DEF Content
  <2> DEFINE x == Bit(Content(b), 1)
  <2>3. Sends(next) = [next EXCEPT !.mode = "send", !.n = 1, !.out = x]
    <3> HIDE DEF next
    <3>1. QED BY <2>2 DEF Sends
  <2> HIDE DEF x
  <2>4. [next EXCEPT !.mode = "send", !.n = 1, !.out = x] = [b EXCEPT !.out = x, !.n = 1, !.byte = 0, !.mode = "send"]
    BY DEF Lines
  <2> HIDE DEF next
  <2>5. QED BY <2>1, <2>3, <2>4 DEF x
<1>3. ASSUME b.mode = "device", b.byte % 2 # 1
      PROVE  Takes(b) = [b EXCEPT !.out = 1, !.n = 0, !.byte = 0, !.at = 0,
                                   !.mode = IF AddrBytes = 2 THEN "high" ELSE "low"]
  <2> DEFINE mode == IF AddrBytes = 2 THEN "high" ELSE "low"
  <2>1. Takes(b) = [next EXCEPT !.at = 0, !.mode = mode]
    BY <1>3 DEF Takes
  <2> HIDE DEF mode
  <2>2. [next EXCEPT !.at = 0, !.mode = mode] = [b EXCEPT !.out = 1, !.n = 0, !.byte = 0, !.at = 0, !.mode = mode]
    BY DEF Lines
  <2> HIDE DEF next
  <2>3. QED BY <2>1, <2>2 DEF mode
<1>4. ASSUME b.mode = "high"
      PROVE  Takes(b) = [b EXCEPT !.out = 1, !.n = 0, !.byte = 0, !.at = b.byte * Byte, !.mode = "low"]
  <2> DEFINE a == b.byte * Byte
  <2>1. Takes(b) = [next EXCEPT !.at = a, !.mode = "low"]
    BY <1>4 DEF Takes
  <2> HIDE DEF a
  <2>2. [next EXCEPT !.at = a, !.mode = "low"] = [b EXCEPT !.out = 1, !.n = 0, !.byte = 0, !.at = a, !.mode = "low"]
    BY DEF Lines
  <2> HIDE DEF next
  <2>3. QED BY <2>1, <2>2 DEF a
<1>5. ASSUME b.mode = "low"
      PROVE  Takes(b) = [b EXCEPT !.out = 1, !.n = 0, !.byte = 0, !.at = b.at + b.byte, !.mode = "data"]
  <2> DEFINE a == b.at + b.byte
  <2>1. Takes(b) = [next EXCEPT !.at = next.at + b.byte, !.mode = "data"]
    BY <1>5 DEF Takes, Lines
  <2>2. next.at + b.byte = a
    BY <1>1
  <2> HIDE DEF a
  <2>3. [next EXCEPT !.at = a, !.mode = "data"] = [b EXCEPT !.out = 1, !.n = 0, !.byte = 0, !.at = a, !.mode = "data"]
    BY DEF Lines
  <2> HIDE DEF next
  <2>4. QED BY <2>1, <2>2, <2>3 DEF a
<1>6. ASSUME b.mode = "data"
      PROVE  Takes(b) = [b EXCEPT !.out = 1, !.n = 0, !.byte = 0, !.pend = Append(b.pend, b.byte)]
  <2> DEFINE p == Append(b.pend, b.byte)
  <2>1. Takes(b) = [next EXCEPT !.pend = Append(next.pend, b.byte)]
    BY <1>6 DEF Takes, Lines
  <2>2. Append(next.pend, b.byte) = p
    BY <1>1
  <2> HIDE DEF p
  <2>3. [next EXCEPT !.pend = p] = [b EXCEPT !.out = 1, !.n = 0, !.byte = 0, !.pend = p]
    BY DEF Lines
  <2> HIDE DEF next
  <2>4. QED BY <2>1, <2>2, <2>3 DEF p
<1>7. QED BY <1>2, <1>3, <1>4, <1>5, <1>6

(* The acknowledgement.                                                    *)
LEMMA AckSlot ==
  ASSUME NEW D, NEW w \in Chip(D), w.scl = 0, w.mode = "idle" \/ (Receives(w) /\ w.out = 0)
  PROVE  SetSda(GotBit(SetSda(w, 1)), 0)
         = IF w.mode = "idle" THEN [w EXCEPT !.sda = 0, !.got = Append(w.got, 1)]
           ELSE [Takes([w EXCEPT !.sda = 1, !.got = Append(w.got, 0)]) EXCEPT !.sda = 0]
<1> DEFINE s == [w EXCEPT !.sda = 1]
           u == [s EXCEPT !.scl = 1]
           g == Append(w.got, w.out)
           v == [u EXCEPT !.got = g]
           z == [v EXCEPT !.scl = 0]
           y == [w EXCEPT !.sda = 1, !.got = g]
           c == SetScl(v, 0)
<1>1. w \in Lines(D) /\ Consistent(w)
  BY DEF Chip, Bus
<1>2. SetSda(w, 1) = s /\ s \in Chip(D)
  BY SdaLow
<1>3. s.scl = 0 /\ s.mode = w.mode /\ s.out = w.out /\ s.got = w.got /\ s.sda = 1
  BY <1>1 DEF Lines
<1>4. u.scl = 1 /\ u.mode = w.mode /\ u.out = w.out /\ u.got = w.got /\ u.sda = 1 /\ u \in Lines(D)
  <2>1. s \in Lines(D)
    BY <1>1 DEF Lines
  <2> HIDE DEF s
  <2>2. QED BY <1>3, <2>1 DEF Lines
<1>5. SetScl(s, 1) = u
  <2>1. SetScl(s, 1) = Rises(u)
    BY <1>3 DEF SetScl
  <2>2. ~(Receives(u) /\ u.out = 1) /\ u.mode # "send"
    BY <1>4 DEF Receives
  <2> HIDE DEF u
  <2>3. Rises(u) = u
    BY <2>2, RisesIs
  <2>4. QED BY <2>1, <2>3
<1>6. u \in Chip(D)
  <2> HIDE DEF s, u
  <2>1. SetScl(s, 1) \in Chip(D)
    BY <1>2, <1>3, SclUp
  <2>2. QED BY <1>5, <2>1
<1>7. Does(u, M_SDA_IN) = v /\ v \in Chip(D)
  <2>1. Wire(u) = w.out
    <3> HIDE DEF u
    <3>1. w.out \in {0, 1}
      BY <1>1 DEF Lines
    <3>2. QED BY <1>4, <3>1 DEF Wire
  <2> HIDE DEF u
  <2>2. Append(u.got, Wire(u)) = g
    BY <1>4, <2>1
  <2>3. Does(u, M_SDA_IN) = [u EXCEPT !.got = Append(u.got, Wire(u))] /\ Does(u, M_SDA_IN) \in Chip(D)
    BY <1>6, SdaRead
  <2> HIDE DEF g
  <2>4. QED BY <2>2, <2>3
<1>8. z = y /\ v.scl = 1 /\ v.mode = w.mode /\ v.out = w.out
  <2> HIDE DEF g
  <2>1. QED BY <1>1 DEF Lines
<1>9. y.mode = w.mode /\ y.out = w.out /\ y.n = w.n /\ y.scl = 0
  <2> HIDE DEF g
  <2>1. QED BY <1>1 DEF Lines
<1>10. c = Falls(y)
  <2>1. c = Falls(z)
    BY <1>8 DEF SetScl
  <2> HIDE DEF c, z
  <2>2. QED BY <1>8, <2>1
<1>11. c \in Chip(D) /\ c.scl = 0
  <2> HIDE DEF v
  <2>1. QED BY <1>7, <1>8, SclDown
<1>12. GotBit(SetSda(w, 1)) = c
  <2> HIDE DEF s, u, v
  <2>1. GotBit(SetSda(w, 1)) = SetScl(Does(SetScl(s, 1), M_SDA_IN), 0)
    BY <1>2 DEF GotBit
  <2>2. QED BY <1>5, <1>7, <2>1
<1>13. SetSda(c, 0) = [c EXCEPT !.sda = 0]
  <2> HIDE DEF c
  <2>1. QED BY <1>11, SdaLow
<1> HIDE DEF c, v, z, u, s
<1>n. y.n \in Nat
  BY <1>1, <1>9 DEF Lines
<1>14. CASE w.mode = "idle"
  <2>1. w.out = 1
    BY <1>1, <1>14 DEF Consistent
  <2>2. c = y
    <3> HIDE DEF y
    <3>1. Falls(y) = y
      BY <1>9, <1>14, <1>n, FallsIs
    <3>2. QED BY <1>10, <3>1
  <2>3. [y EXCEPT !.sda = 0] = [w EXCEPT !.sda = 0, !.got = g]
    <3> HIDE DEF g
    <3>1. QED BY <1>1 DEF Lines
  <2> HIDE DEF y
  <2>4. QED BY <1>12, <1>13, <1>14, <2>1, <2>2, <2>3
<1>15. CASE w.mode # "idle"
  <2>1. Receives(w) /\ w.out = 0
    BY <1>15
  <2>2. c = Takes(y)
    <3> HIDE DEF y
    <3>1. Receives(y)
      BY <1>9, <2>1 DEF Receives
    <3>2. Falls(y) = Takes(y)
      BY <1>9, <1>n, <2>1, <3>1, FallsIs
    <3>3. QED BY <1>10, <3>2
  <2>3. g = Append(w.got, 0)
    BY <2>1
  <2>4. QED BY <1>12, <1>13, <1>15, <2>2, <2>3
<1>16. QED BY <1>14, <1>15

(* What a byte makes of a chip that waits for one.                         *)
LEMMA PutByteExact ==
  ASSUME NEW D, NEW b \in Chip(D), b.scl = 0, Receives(b), b.out = 1, b.n = 0, b.byte = 0,
         NEW data \in 0 .. Blank
  PROVE  LET c == [b EXCEPT !.n = Width, !.byte = data]
             called == data \div 2 = Device /\ ~b.busy /\ ~b.deaf
             p == Performed(b, mi2c_put_byte(data))
         IN  IF b.mode = "device" /\ ~called
               THEN p = [c EXCEPT !.mode = "idle", !.sda = 0, !.got = Append(b.got, 1)]
               ELSE p = [Takes([c EXCEPT !.out = 0, !.sda = 1, !.got = Append(b.got, 0)]) EXCEPT !.sda = 0]
<1> DEFINE x == Bit(data, Width)
           cx == [b EXCEPT !.sda = x, !.n = Width, !.byte = data]
           c == [b EXCEPT !.n = Width, !.byte = data]
           called == data \div 2 = Device /\ ~b.busy /\ ~b.deaf
           p == Performed(b, mi2c_put_byte(data))
<1>1. PICK f : /\ f[0] = b /\ \A k \in 0 .. Width - 1 : f[k + 1] = PutBit(f[k], Bit(data, k + 1))
               /\ p = SetSda(GotBit(SetSda(f[Width], 1)), 0)
  <2>1. data \in Nat
    BY Powers
  <2>2. QED BY <2>1, PutByteIs
<1>2. f[Width] = IF b.mode = "device" /\ ~Called(cx) THEN [cx EXCEPT !.mode = "idle"] ELSE [cx EXCEPT !.out = 0]
  <2>1. f[Width] = Came(b, data)
    <3>1. f[0] = b /\ \A k \in 0 .. Width - 1 : f[k + 1] = PutBit(f[k], Bit(data, k + 1))
      BY <1>1
    <3> HIDE DEF p
    <3>2. QED BY <3>1, WrittenByte
  <2>2. QED BY <2>1 DEF Came
<1>3. b \in Lines(D)
  BY DEF Chip, Bus
<1>4. Called(cx) <=> called
  <2>1. cx.byte = data /\ cx.busy = b.busy /\ cx.deaf = b.deaf
    <3> HIDE DEF x
    <3>1. QED BY <1>3 DEF Lines
  <2> HIDE DEF cx
  <2>2. QED BY <2>1 DEF Called
<1> DEFINE w == f[Width]
<1>5. w \in Chip(D) /\ w.scl = 0
  <2> DEFINE T == { k \in 0 .. Width : Pulsed(D, b, f[k], k) }
  <2>1. 0 \in T
    BY <1>1, PulsedNone, Powers
  <2>2. ASSUME NEW j \in 0 .. Width - 1, j \in T PROVE j + 1 \in T
    <3>1. j + 1 \in 1 .. Width /\ j + 1 \in 0 .. Width /\ j \in 0 .. Width /\ Pulsed(D, b, f[j], j) /\ data \in Nat
      BY <2>2, Powers
    <3>2. Bit(data, j + 1) \in {0, 1}
      BY <3>1, BitIs01
    <3>3. Pulsed(D, b, PutBit(f[j], Bit(data, j + 1)), j + 1)
      BY <3>1, <3>2, WrittenPulse
    <3>4. f[j + 1] = PutBit(f[j], Bit(data, j + 1))
      BY <1>1
    <3> HIDE DEF T
    <3>5. Pulsed(D, b, f[j + 1], j + 1)
      BY <3>3, <3>4
    <3>6. QED BY <3>1, <3>5 DEF T
  <2> HIDE DEF T
  <2>3. Width \in Nat /\ Width \in 0 .. Width
    BY Powers
  <2>4. 0 .. Width \subseteq T
    BY <2>1, <2>2, <2>3, CountUp
  <2>5. Pulsed(D, b, f[Width], Width)
    BY <2>3, <2>4 DEF T
  <2>6. QED BY <2>5 DEF Pulsed
<1> DEFINE idle == [cx EXCEPT !.mode = "idle"]
           ack == [cx EXCEPT !.out = 0]
<1>6. idle.mode = "idle" /\ ack.mode = b.mode /\ ack.out = 0 /\ idle.got = b.got /\ ack.got = b.got
  <2> HIDE DEF x
  <2>1. QED BY <1>3 DEF Lines
<1> DEFINE g0 == Append(b.got, 0)
           g1 == Append(b.got, 1)
<1>7. [idle EXCEPT !.sda = 0, !.got = g1] = [c EXCEPT !.mode = "idle", !.sda = 0, !.got = g1]
      /\ [ack EXCEPT !.sda = 1, !.got = g0] = [c EXCEPT !.out = 0, !.sda = 1, !.got = g0]
  <2> HIDE DEF x, g0, g1
  <2>1. QED BY <1>3 DEF Lines
<1> HIDE DEF cx, c, called, p, idle, ack, g0, g1, w
<1>8. CASE b.mode = "device" /\ ~called
  <2>1. w = idle
    BY <1>2, <1>4, <1>8 DEF w, idle
  <2>2. w.mode = "idle"
    BY <1>6, <2>1
  <2>3. SetSda(GotBit(SetSda(w, 1)), 0) = [w EXCEPT !.sda = 0, !.got = Append(w.got, 1)]
    BY <1>5, <2>2, AckSlot
  <2>4. p = [idle EXCEPT !.sda = 0, !.got = g1]
    BY <1>1, <1>6, <2>1, <2>3 DEF w, g1
  <2>5. QED BY <1>7, <1>8, <2>4 DEF p, c, g1, called
<1>9. CASE ~(b.mode = "device" /\ ~called)
  <2>1. w = ack
    BY <1>2, <1>4, <1>9 DEF w, ack
  <2>2. w.mode # "idle" /\ Receives(w) /\ w.out = 0
    BY <1>6, <2>1 DEF Receives
  <2>3. SetSda(GotBit(SetSda(w, 1)), 0) = [Takes([w EXCEPT !.sda = 1, !.got = Append(w.got, 0)]) EXCEPT !.sda = 0]
    BY <1>5, <2>2, AckSlot
  <2>4. p = [Takes([ack EXCEPT !.sda = 1, !.got = g0]) EXCEPT !.sda = 0]
    BY <1>1, <1>6, <2>1, <2>3 DEF w, g0
  <2>5. QED BY <1>7, <1>9, <2>4 DEF p, c, g0, called
<1>10. QED BY <1>8, <1>9

(* A chip that is not in a transfer leaves SDA alone.                      *)
LEMMA PutByteIdle ==
  ASSUME NEW D, NEW b \in Chip(D), b.scl = 0, b.mode = "idle", NEW data \in Nat
  PROVE  Performed(b, mi2c_put_byte(data)) = [b EXCEPT !.sda = 0, !.got = Append(b.got, 1)]
<1>1. PICK f : /\ f[0] = b /\ \A k \in 0 .. Width - 1 : f[k + 1] = PutBit(f[k], Bit(data, k + 1))
               /\ Performed(b, mi2c_put_byte(data)) = SetSda(GotBit(SetSda(f[Width], 1)), 0)
  BY PutByteIs
<1>2. b \in Lines(D)
  BY DEF Chip, Bus
<1> DEFINE T == { k \in 0 .. Width : \E s \in {0, 1} : f[k] = [b EXCEPT !.sda = s] }
<1>3. ASSUME NEW s \in {0, 1}
      PROVE  [b EXCEPT !.sda = s] \in Chip(D) /\ [b EXCEPT !.sda = s].scl = 0 /\ [b EXCEPT !.sda = s].mode = "idle"
             /\ [b EXCEPT !.sda = s].n = b.n
  <2>1. SetSda(b, s) = [b EXCEPT !.sda = s] /\ SetSda(b, s) \in Chip(D)
    BY SdaLow
  <2>2. [b EXCEPT !.sda = s].scl = 0 /\ [b EXCEPT !.sda = s].mode = "idle" /\ [b EXCEPT !.sda = s].n = b.n
    BY <1>2 DEF Lines
  <2>3. QED BY <2>1, <2>2
<1>4. ASSUME NEW a \in Chip(D), a.scl = 0, a.mode = "idle", NEW x \in {0, 1}
      PROVE  PutBit(a, x) = [a EXCEPT !.sda = x]
  <2> DEFINE s == [a EXCEPT !.sda = x]
             u == [s EXCEPT !.scl = 1]
             v == [u EXCEPT !.scl = 0]
  <2>1. a \in Lines(D)
    BY DEF Chip, Bus
  <2>2. SetSda(a, x) = s
    BY <1>4, SdaLow
  <2>a. a.scl = 0 /\ a.mode = "idle"
    BY <1>4
  <2>b. s.scl = 0 /\ u.scl = 1 /\ u.mode = "idle" /\ s.mode = "idle" /\ s.n = a.n /\ a.n \in Nat
    BY <2>a, <2>1 DEF Lines
  <2>c. v = s
    BY <2>a, <2>1 DEF Lines
  <2>3. s.scl = 0 /\ u.scl = 1 /\ u.mode = "idle" /\ v = s /\ s.mode = "idle" /\ s.n = a.n /\ a.n \in Nat
    BY <2>b, <2>c
  <2>4. SetScl(s, 1) = u
    <3>1. SetScl(s, 1) = Rises(u)
      BY <2>3 DEF SetScl
    <3> HIDE DEF u
    <3>2. Rises(u) = u
      BY <2>3, RisesIs DEF Receives
    <3>3. QED BY <3>1, <3>2
  <2>5. SetScl(u, 0) = s
    <3>1. SetScl(u, 0) = Falls(v)
      BY <2>3 DEF SetScl
    <3> HIDE DEF u, s, v
    <3>2. Falls(s) = s
      BY <2>3, FallsIs
    <3>3. QED BY <2>3, <3>1, <3>2
  <2> HIDE DEF s, u, v
  <2>6. QED BY <2>2, <2>4, <2>5 DEF PutBit, s
<1>5. 0 \in T
  <2>1. b = [b EXCEPT !.sda = b.sda] /\ b.sda \in {0, 1} /\ 0 \in 0 .. Width
    BY <1>2, Powers DEF Lines
  <2>2. QED BY <1>1, <2>1
<1>6. ASSUME NEW j \in 0 .. Width - 1, j \in T PROVE j + 1 \in T
  <2>1. j + 1 \in 1 .. Width /\ j + 1 \in 0 .. Width
    BY Powers
  <2> DEFINE x == Bit(data, j + 1)
  <2>2. x \in {0, 1} /\ f[j + 1] = PutBit(f[j], x)
    BY <1>1, <2>1, BitIs01
  <2>3. PICK s \in {0, 1} : f[j] = [b EXCEPT !.sda = s]
    BY <1>6
  <2> HIDE DEF x
  <2> DEFINE a == [b EXCEPT !.sda = s]
  <2>4. a \in Chip(D) /\ a.scl = 0 /\ a.mode = "idle"
    BY <1>3
  <2>5. [a EXCEPT !.sda = x] = [b EXCEPT !.sda = x]
    BY <1>2 DEF Lines
  <2> HIDE DEF a
  <2>6. PutBit(a, x) = [a EXCEPT !.sda = x]
    BY <1>4, <2>2, <2>4
  <2>7. f[j + 1] = [b EXCEPT !.sda = x]
    BY <2>2, <2>3, <2>5, <2>6 DEF a
  <2>8. QED BY <2>1, <2>2, <2>7
<1>7. \E s \in {0, 1} : f[Width] = [b EXCEPT !.sda = s]
  <2> HIDE DEF T
  <2>1. Width \in Nat /\ Width \in 0 .. Width
    BY Powers
  <2>2. 0 .. Width \subseteq T
    BY <1>5, <1>6, <2>1, CountUp
  <2>3. QED BY <2>1, <2>2 DEF T
<1>8. PICK s \in {0, 1} : f[Width] = [b EXCEPT !.sda = s]
  BY <1>7
<1> DEFINE a == [b EXCEPT !.sda = s]
           g == Append(b.got, 1)
<1>9. a \in Chip(D) /\ a.scl = 0 /\ a.mode = "idle"
  BY <1>3
<1>10. a.got = b.got
  BY <1>2 DEF Lines
<1>11. [a EXCEPT !.sda = 0, !.got = g] = [b EXCEPT !.sda = 0, !.got = g]
  <2> HIDE DEF g
  <2>1. QED BY <1>2 DEF Lines
<1> HIDE DEF a
<1>12. SetSda(GotBit(SetSda(a, 1)), 0) = [a EXCEPT !.sda = 0, !.got = Append(a.got, 1)]
  BY <1>9, AckSlot
<1>13. QED BY <1>1, <1>8, <1>10, <1>11, <1>12 DEF a, g

(* A chip that waits for the first bit of a byte.                          *)
Waits(D) == { b \in Chip(D) : b.scl = 0 /\ Receives(b) /\ b.out = 1 /\ b.n = 0 /\ b.byte = 0 }

(* The two bytes that address the chip.                                    *)
LEMMA Addressed ==
  /\ Device \in Nat /\ 2 * Device \in 0 .. Blank /\ 2 * Device + 1 \in 0 .. Blank
  /\ (2 * Device) \div 2 = Device /\ (2 * Device + 1) \div 2 = Device
  /\ (2 * Device) % 2 = 0 /\ (2 * Device + 1) % 2 = 1
<1> DEFINE p == 2 ^ (Width - 1)
<1>1. Width - 1 \in 0 .. Width - 1 /\ Width - 1 + 1 = Width
  BY Powers
<1>2. p \in Nat /\ Byte = 2 * p
  <2>1. 2 ^ (Width - 1 + 1) = 2 * p
    BY <1>1, Powers
  <2>2. QED BY <1>1, <2>1, Powers DEF Byte
<1>3. Device \in 0 .. p - 1
  BY I2cAssumption
<1> HIDE DEF p
<1>4. Device \in Nat /\ 2 * Device + 1 < Byte
  BY <1>2, <1>3
<1>5. QED BY <1>4, Powers

(* A byte put and acknowledged.                                            *)
LEMMA PutTaken ==
  ASSUME NEW D, NEW b \in Waits(D), NEW data \in 0 .. Blank,
         b.mode = "device" => data \div 2 = Device /\ ~b.busy /\ ~b.deaf
  PROVE  LET z == [b EXCEPT !.n = Width, !.byte = data, !.out = 0, !.sda = 1, !.got = Append(b.got, 0)]
         IN  z \in Lines(D) /\ Performed(b, mi2c_put_byte(data)) = [Takes(z) EXCEPT !.sda = 0]
<1> DEFINE c == [b EXCEPT !.n = Width, !.byte = data]
           g == Append(b.got, 0)
           y == [c EXCEPT !.out = 0, !.sda = 1, !.got = g]
           z == [b EXCEPT !.n = Width, !.byte = data, !.out = 0, !.sda = 1, !.got = g]
           called == data \div 2 = Device /\ ~b.busy /\ ~b.deaf
           p == Performed(b, mi2c_put_byte(data))
<1>1. b \in Chip(D) /\ b.scl = 0 /\ Receives(b) /\ b.out = 1 /\ b.n = 0 /\ b.byte = 0 /\ b \in Lines(D)
  BY DEF Waits, Chip, Bus
<1>2. ~(b.mode = "device" /\ ~called)
  OBVIOUS
<1>3. p = [Takes(y) EXCEPT !.sda = 0]
  <2>1. LET e == [b EXCEPT !.n = Width, !.byte = data]
             called_ == data \div 2 = Device /\ ~b.busy /\ ~b.deaf
             q == Performed(b, mi2c_put_byte(data))
         IN  IF b.mode = "device" /\ ~called_
               THEN q = [e EXCEPT !.mode = "idle", !.sda = 0, !.got = Append(b.got, 1)]
               ELSE q = [Takes([e EXCEPT !.out = 0, !.sda = 1, !.got = Append(b.got, 0)]) EXCEPT !.sda = 0]
    BY <1>1, PutByteExact
  <2>2. QED BY <1>2, <2>1
<1>4. Width \in 0 .. Width + 1 /\ g \in Seq({0, 1})
  <2>1. b.got \in Seq({0, 1})
    BY <1>1 DEF Lines
  <2>2. QED BY <2>1, Powers
<1>5. y = z /\ z \in Lines(D)
  <2> HIDE DEF g
  <2>1. y = z
    BY <1>1 DEF Lines
  <2>2. z \in Lines(D)
    BY <1>1, <1>4 DEF Lines
  <2>3. QED BY <2>1, <2>2
<1> HIDE DEF p, y, z
<1>6. QED BY <1>3, <1>5 DEF z, p, g

(* The address of the chip itself, to be written to.                       *)
LEMMA PutDevice ==
  ASSUME NEW D, NEW b \in Waits(D), b.mode = "device", ~b.busy, ~b.deaf
  PROVE  Performed(b, mi2c_put_byte(2 * Device))
         = [b EXCEPT !.mode = IF AddrBytes = 2 THEN "high" ELSE "low", !.at = 0, !.sda = 0, !.got = Append(b.got, 0)]
<1> DEFINE data == 2 * Device
           g == Append(b.got, 0)
           z == [b EXCEPT !.n = Width, !.byte = data, !.out = 0, !.sda = 1, !.got = g]
           m == IF AddrBytes = 2 THEN "high" ELSE "low"
<1>1. z \in Lines(D) /\ Performed(b, mi2c_put_byte(data)) = [Takes(z) EXCEPT !.sda = 0]
  <2>1. data \in 0 .. Blank /\ data \div 2 = Device
    BY Addressed
  <2> HIDE DEF data
  <2>2. QED BY <2>1, PutTaken
<1>2. data % 2 # 1
  BY Addressed
<1>3. b \in Lines(D) /\ b.n = 0 /\ b.byte = 0 /\ b.out = 1
  BY DEF Waits, Chip, Bus
<1> HIDE DEF data, g
<1>4. z.mode = "device" /\ z.byte = data
  BY <1>3 DEF Lines
<1> DEFINE y == [z EXCEPT !.out = 1, !.n = 0, !.byte = 0, !.at = 0, !.mode = m]
<1> HIDE DEF m
<1>5. [y EXCEPT !.sda = 0] = [b EXCEPT !.mode = m, !.at = 0, !.sda = 0, !.got = g]
  BY <1>3 DEF Lines
<1> HIDE DEF z
<1>6. Takes(z) = y
  BY <1>1, <1>2, <1>4, TakesIs DEF m
<1> HIDE DEF y
<1>7. QED BY <1>1, <1>5, <1>6 DEF data, g, m

(* ... and to be read from.                                                *)
LEMMA PutDeviceRead ==
  ASSUME NEW D, NEW b \in Waits(D), b.mode = "device", ~b.busy, ~b.deaf
  PROVE  Performed(b, mi2c_put_byte(2 * Device + 1))
         = [b EXCEPT !.mode = "send", !.n = 1, !.out = Bit(Content(b), 1), !.sda = 0, !.got = Append(b.got, 0)]
<1> DEFINE data == 2 * Device + 1
           g == Append(b.got, 0)
           z == [b EXCEPT !.n = Width, !.byte = data, !.out = 0, !.sda = 1, !.got = g]
           x == Bit(Content(b), 1)
<1>1. z \in Lines(D) /\ Performed(b, mi2c_put_byte(data)) = [Takes(z) EXCEPT !.sda = 0]
  <2>1. data \in 0 .. Blank /\ data \div 2 = Device
    BY Addressed
  <2> HIDE DEF data
  <2>2. QED BY <2>1, PutTaken
<1>2. data % 2 = 1
  BY Addressed
<1>3. b \in Lines(D) /\ b.n = 0 /\ b.byte = 0 /\ b.out = 1
  BY DEF Waits, Chip, Bus
<1> HIDE DEF data, g
<1>4. z.mode = "device" /\ z.byte = data /\ z.at = b.at /\ z.mem = b.mem
  BY <1>3 DEF Lines
<1> DEFINE y == [z EXCEPT !.out = x, !.n = 1, !.byte = 0, !.mode = "send"]
<1> HIDE DEF x
<1>5. [y EXCEPT !.sda = 0] = [b EXCEPT !.mode = "send", !.n = 1, !.out = x, !.sda = 0, !.got = g]
  BY <1>3 DEF Lines
<1> HIDE DEF z
<1>6. Takes(z) = y
  <2>1. Bit(Content(z), 1) = x
    BY <1>4 DEF Content, x
  <2>2. QED BY <1>1, <1>2, <1>4, <2>1, TakesIs
<1> HIDE DEF y
<1>7. QED BY <1>1, <1>5, <1>6 DEF data, g, x

(* Another address, or one the chip does not hear.                         *)
LEMMA PutOther ==
  ASSUME NEW D, NEW b \in Waits(D), NEW data \in 0 .. Blank, b.mode = "device",
         ~(data \div 2 = Device /\ ~b.busy /\ ~b.deaf)
  PROVE  Performed(b, mi2c_put_byte(data))
         = [b EXCEPT !.mode = "idle", !.n = Width, !.byte = data, !.sda = 0, !.got = Append(b.got, 1)]
<1>1. b \in Chip(D) /\ b.scl = 0 /\ Receives(b) /\ b.out = 1 /\ b.n = 0 /\ b.byte = 0 /\ b \in Lines(D)
  BY DEF Waits, Chip, Bus
<1>2. LET e == [b EXCEPT !.n = Width, !.byte = data]
             called_ == data \div 2 = Device /\ ~b.busy /\ ~b.deaf
             q == Performed(b, mi2c_put_byte(data))
         IN  IF b.mode = "device" /\ ~called_
               THEN q = [e EXCEPT !.mode = "idle", !.sda = 0, !.got = Append(b.got, 1)]
               ELSE q = [Takes([e EXCEPT !.out = 0, !.sda = 1, !.got = Append(b.got, 0)]) EXCEPT !.sda = 0]
  BY <1>1, PutByteExact
<1> DEFINE g == Append(b.got, 1)
           p == Performed(b, mi2c_put_byte(data))
           e == [b EXCEPT !.n = Width, !.byte = data]
<1>3. p = [e EXCEPT !.mode = "idle", !.sda = 0, !.got = g]
  BY <1>2
<1>4. [e EXCEPT !.mode = "idle", !.sda = 0, !.got = g]
      = [b EXCEPT !.mode = "idle", !.n = Width, !.byte = data, !.sda = 0, !.got = g]
  <2> HIDE DEF g, p
  <2>1. QED BY <1>1 DEF Lines
<1> HIDE DEF p, e
<1>5. QED BY <1>3, <1>4 DEF p, g

(* The two bytes of an address in it, and a byte to be stored there.       *)
LEMMA PutHigh ==
  ASSUME NEW D, NEW b \in Waits(D), b.mode = "high", NEW data \in 0 .. Blank
  PROVE  Performed(b, mi2c_put_byte(data))
         = [b EXCEPT !.mode = "low", !.at = data * Byte, !.sda = 0, !.got = Append(b.got, 0)]
<1> DEFINE g == Append(b.got, 0)
           z == [b EXCEPT !.n = Width, !.byte = data, !.out = 0, !.sda = 1, !.got = g]
           a == data * Byte
<1>1. z \in Lines(D) /\ Performed(b, mi2c_put_byte(data)) = [Takes(z) EXCEPT !.sda = 0]
  BY PutTaken
<1>3. b \in Lines(D) /\ b.n = 0 /\ b.byte = 0 /\ b.out = 1
  BY DEF Waits, Chip, Bus
<1> HIDE DEF g
<1>4. z.mode = "high" /\ z.byte = data
  BY <1>3 DEF Lines
<1> DEFINE y == [z EXCEPT !.out = 1, !.n = 0, !.byte = 0, !.at = a, !.mode = "low"]
<1> HIDE DEF a
<1>5. [y EXCEPT !.sda = 0] = [b EXCEPT !.mode = "low", !.at = a, !.sda = 0, !.got = g]
  BY <1>3 DEF Lines
<1> HIDE DEF z
<1>6. Takes(z) = y
  <2>1. z.byte * Byte = a
    BY <1>4 DEF a
  <2>2. QED BY <1>1, <1>4, <2>1, TakesIs
<1> HIDE DEF y
<1>7. QED BY <1>1, <1>5, <1>6 DEF g, a

(* The lower one.                                                          *)
LEMMA PutLow ==
  ASSUME NEW D, NEW b \in Waits(D), b.mode = "low", NEW data \in 0 .. Blank
  PROVE  Performed(b, mi2c_put_byte(data))
         = [b EXCEPT !.mode = "data", !.at = b.at + data, !.sda = 0, !.got = Append(b.got, 0)]
<1> DEFINE g == Append(b.got, 0)
           z == [b EXCEPT !.n = Width, !.byte = data, !.out = 0, !.sda = 1, !.got = g]
           a == b.at + data
<1>1. z \in Lines(D) /\ Performed(b, mi2c_put_byte(data)) = [Takes(z) EXCEPT !.sda = 0]
  BY PutTaken
<1>3. b \in Lines(D) /\ b.n = 0 /\ b.byte = 0 /\ b.out = 1
  BY DEF Waits, Chip, Bus
<1> HIDE DEF g
<1>4. z.mode = "low" /\ z.byte = data /\ z.at = b.at
  BY <1>3 DEF Lines
<1> DEFINE y == [z EXCEPT !.out = 1, !.n = 0, !.byte = 0, !.at = a, !.mode = "data"]
<1> HIDE DEF a
<1>5. [y EXCEPT !.sda = 0] = [b EXCEPT !.mode = "data", !.at = a, !.sda = 0, !.got = g]
  BY <1>3 DEF Lines
<1> HIDE DEF z
<1>6. Takes(z) = y
  <2>1. z.at + z.byte = a
    BY <1>4 DEF a
  <2>2. QED BY <1>1, <1>4, <2>1, TakesIs
<1> HIDE DEF y
<1>7. QED BY <1>1, <1>5, <1>6 DEF g, a

(* The byte to be stored.                                                  *)
LEMMA PutData ==
  ASSUME NEW D, NEW b \in Waits(D), b.mode = "data", NEW data \in 0 .. Blank
  PROVE  Performed(b, mi2c_put_byte(data))
         = [b EXCEPT !.pend = Append(b.pend, data), !.sda = 0, !.got = Append(b.got, 0)]
<1> DEFINE g == Append(b.got, 0)
           z == [b EXCEPT !.n = Width, !.byte = data, !.out = 0, !.sda = 1, !.got = g]
           a == Append(b.pend, data)
<1>1. z \in Lines(D) /\ Performed(b, mi2c_put_byte(data)) = [Takes(z) EXCEPT !.sda = 0]
  BY PutTaken
<1>3. b \in Lines(D) /\ b.n = 0 /\ b.byte = 0 /\ b.out = 1
  BY DEF Waits, Chip, Bus
<1> HIDE DEF g
<1>4. z.mode = "data" /\ z.byte = data /\ z.pend = b.pend
  BY <1>3 DEF Lines
<1> DEFINE y == [z EXCEPT !.out = 1, !.n = 0, !.byte = 0, !.pend = a]
<1> HIDE DEF a
<1>5. [y EXCEPT !.sda = 0] = [b EXCEPT !.pend = a, !.sda = 0, !.got = g]
  BY <1>3 DEF Lines
<1> HIDE DEF z
<1>6. Takes(z) = y
  <2>1. Append(z.pend, z.byte) = a
    BY <1>4 DEF a
  <2>2. QED BY <1>1, <1>4, <2>1, TakesIs
<1> HIDE DEF y
<1>7. QED BY <1>1, <1>5, <1>6 DEF g, a

(* Each of them leaves a chip that waits for the next byte.                *)
LEMMA PutWaits ==
  ASSUME NEW D, NEW b \in Waits(D), NEW data \in 0 .. Blank,
         b.mode = "device" => data = 2 * Device /\ ~b.busy /\ ~b.deaf
  PROVE  Performed(b, mi2c_put_byte(data)) \in Waits(D)
<1> DEFINE p == Performed(b, mi2c_put_byte(data))
<1>1. b \in Chip(D) /\ b.scl = 0 /\ Receives(b) /\ b.out = 1 /\ b.n = 0 /\ b.byte = 0 /\ b \in Lines(D)
  BY DEF Waits, Chip, Bus
<1>2. p \in Chip(D)
  <2>1. data \in Nat
    BY Powers
  <2>2. QED BY <1>1, <2>1, PutBytePhase DEF Kept
<1>3. p.scl = 0 /\ p.mode \in {"device", "high", "low", "data"} /\ p.out = 1 /\ p.n = 0 /\ p.byte = 0
  <2> DEFINE g == Append(b.got, 0)
  <2>1. CASE b.mode = "device"
    <3> DEFINE m == IF AddrBytes = 2 THEN "high" ELSE "low"
    <3>1. p = [b EXCEPT !.mode = m, !.at = 0, !.sda = 0, !.got = g]
      <4>1. data = 2 * Device /\ ~b.busy /\ ~b.deaf
        BY <2>1
      <4>2. QED BY <2>1, <4>1, PutDevice
    <3>2. m \in {"high", "low"}
      OBVIOUS
    <3> HIDE DEF m, p, g
    <3>3. QED BY <1>1, <3>1, <3>2 DEF Lines
  <2>2. CASE b.mode = "high"
    <3> DEFINE a == data * Byte
    <3>1. p = [b EXCEPT !.mode = "low", !.at = a, !.sda = 0, !.got = g]
      BY <2>2, PutHigh
    <3> HIDE DEF a, p, g
    <3>2. QED BY <1>1, <3>1 DEF Lines
  <2>3. CASE b.mode = "low"
    <3> DEFINE a == b.at + data
    <3>1. p = [b EXCEPT !.mode = "data", !.at = a, !.sda = 0, !.got = g]
      BY <2>3, PutLow
    <3> HIDE DEF a, p, g
    <3>2. QED BY <1>1, <3>1 DEF Lines
  <2>4. CASE b.mode = "data"
    <3> DEFINE a == Append(b.pend, data)
    <3>1. p = [b EXCEPT !.pend = a, !.sda = 0, !.got = g]
      BY <2>4, PutData
    <3> HIDE DEF a, p, g
    <3>2. QED BY <1>1, <2>4, <3>1 DEF Lines
  <2>5. QED BY <1>1, <2>1, <2>2, <2>3, <2>4 DEF Receives
<1> HIDE DEF p
<1>4. QED BY <1>2, <1>3 DEF Waits, Receives, p

-----------------------------------------------------------------------------
(* What the processor reads.                                               *)

(* Only the third kind of event reads, and nothing disturbs the chip.      *)
LEMMA Unread ==
  ASSUME NEW D, NEW b \in Lines(D), NEW x \in {0, 1}
  PROVE  /\ SetSda(b, x).got = b.got /\ SetSda(b, x).deaf = b.deaf
         /\ SetScl(b, x).got = b.got /\ SetScl(b, x).deaf = b.deaf
<1> DEFINE c == [b EXCEPT !.sda = x]
           e == [b EXCEPT !.scl = x]
           Same(d) == d.got = b.got /\ d.deaf = b.deaf
<1>1. c \in Lines(D) /\ Same(c) /\ e \in Lines(D) /\ Same(e) /\ Same(b)
  BY DEF Lines
<1>2. SetSda(b, x) \in {Started(c), Stopped(c), c}
  BY DEF SetSda
<1>3. SetScl(b, x) \in {Rises(e), Falls(e), b}
  BY DEF SetScl
<1> HIDE DEF c, e
<1>4. Same(Started(c)) /\ Same(Stopped(c))
  BY <1>1 DEF Started, Stopped, Lines
<1>5. ASSUME NEW d \in Lines(D) PROVE Advanced(d) \in Lines(D) /\ Advanced(d).got = d.got /\ Advanced(d).deaf = d.deaf
  <2> DEFINE a == (d.at + 1) % 2 ^ (AddrBytes * Width)
  <2>1. Advanced(d) = [d EXCEPT !.at = a]
    BY DEF Advanced
  <2>2. a \in Nat
    <3> DEFINE p == 2 ^ (AddrBytes * Width)
    <3>1. AddrBytes * Width \in Nat
      BY I2cAssumption
    <3> DEFINE q == AddrBytes * Width
    <3> HIDE DEF q
    <3>2. 2 ^ q \in Nat \ {0}
      BY <3>1, PowerPos DEF q
    <3>3. p \in Nat \ {0}
      BY <3>2 DEF q
    <3>4. d.at \in Nat
      BY DEF Lines
    <3> HIDE DEF p
    <3>5. (d.at + 1) % p \in Nat
      BY <3>3, <3>4
    <3>6. QED BY <3>5 DEF p
  <2> HIDE DEF a
  <2>3. QED BY <2>1, <2>2 DEF Lines
<1>6. ASSUME NEW d \in Lines(D) PROVE Sends(d).got = d.got /\ Sends(d).deaf = d.deaf
  <2> DEFINE y == Bit(Content(d), 1)
  <2>1. Sends(d) = [d EXCEPT !.mode = "send", !.n = 1, !.out = y]
    BY DEF Sends
  <2> HIDE DEF y
  <2>2. QED BY <2>1 DEF Lines
<1>7. Same(Rises(e))
  <2> DEFINE y == 2 * e.byte + Wire(e)
             k == e.n + 1
  <2>1. Rises(e) \in {[e EXCEPT !.byte = y, !.n = k], [Advanced(e) EXCEPT !.mode = "idle"], e}
    BY DEF Rises
  <2> HIDE DEF y, k
  <2>2. Same([e EXCEPT !.byte = y, !.n = k])
    BY <1>1 DEF Lines
  <2>3. Same([Advanced(e) EXCEPT !.mode = "idle"])
    <3> DEFINE a == Advanced(e)
    <3>1. a \in Lines(D) /\ a.got = e.got /\ a.deaf = e.deaf
      BY <1>1, <1>5
    <3> HIDE DEF a
    <3>2. Same([a EXCEPT !.mode = "idle"])
      BY <1>1, <3>1 DEF Lines
    <3>3. QED BY <3>2 DEF a
  <2>4. QED BY <1>1, <2>1, <2>2, <2>3
<1>8. Same(Falls(e))
  <2>1. CASE Receives(e) /\ e.out = 0
    <3>1. Falls(e) = Takes(e)
      <4>1. e.n \in Nat
        BY <1>1 DEF Lines
      <4>2. QED BY <2>1, <4>1, FallsIs
    <3> DEFINE x1 == Bit(Content(e), 1)
               m == IF AddrBytes = 2 THEN "high" ELSE "low"
               a1 == e.byte * Byte
               a2 == e.at + e.byte
               p == Append(e.pend, e.byte)
    <3>2. Takes(e) \in {[e EXCEPT !.out = x1, !.n = 1, !.byte = 0, !.mode = "send"],
                        [e EXCEPT !.out = 1, !.n = 0, !.byte = 0, !.at = 0, !.mode = m],
                        [e EXCEPT !.out = 1, !.n = 0, !.byte = 0, !.at = a1, !.mode = "low"],
                        [e EXCEPT !.out = 1, !.n = 0, !.byte = 0, !.at = a2, !.mode = "data"],
                        [e EXCEPT !.out = 1, !.n = 0, !.byte = 0, !.pend = p]}
      BY <1>1, <2>1, TakesIs DEF Receives
    <3> HIDE DEF x1, m, a1, a2, p
    <3>3. \A d \in {[e EXCEPT !.out = x1, !.n = 1, !.byte = 0, !.mode = "send"],
                    [e EXCEPT !.out = 1, !.n = 0, !.byte = 0, !.at = 0, !.mode = m],
                    [e EXCEPT !.out = 1, !.n = 0, !.byte = 0, !.at = a1, !.mode = "low"]} : Same(d)
      BY <1>1 DEF Lines
    <3>4. \A d \in {[e EXCEPT !.out = 1, !.n = 0, !.byte = 0, !.at = a2, !.mode = "data"],
                    [e EXCEPT !.out = 1, !.n = 0, !.byte = 0, !.pend = p]} : Same(d)
      BY <1>1 DEF Lines
    <3> HIDE DEF Same
    <3>5. QED BY <3>1, <3>2, <3>3, <3>4
  <2>2. CASE ~(Receives(e) /\ e.out = 0) /\ ~(e.mode = "send" /\ e.n > Width)
    <3> DEFINE k == e.n + 1
               y == Bit(Content(e), e.n + 1)
    <3>1. Falls(e) \in {[e EXCEPT !.mode = "idle"], [e EXCEPT !.out = 0], [e EXCEPT !.n = k, !.out = y],
                        [e EXCEPT !.n = k, !.out = 1], e}
      <4>1. e.n \in Nat /\ e.out \in {0, 1} /\ (e.mode = "idle" \/ e.mode = "send" \/ Receives(e))
        <5>1. e.mode = "idle" \/ e.mode = "send" \/ Receives(e)
          BY <1>1, ReceivesIs
        <5>2. e.n \in Nat /\ e.out \in {0, 1}
          BY <1>1 DEF Lines
        <5>3. QED BY <5>1, <5>2
      <4>2. e.mode = "send" => e.n < Width \/ e.n = Width
        BY <2>2, <4>1, Powers
      <4>3. Receives(e) => e.out = 1
        BY <2>2, <4>1
      <4>4. QED BY <4>1, <4>2, <4>3, FallsIs
    <3> HIDE DEF k, y
    <3>2. \A d \in {[e EXCEPT !.mode = "idle"], [e EXCEPT !.out = 0], [e EXCEPT !.n = k, !.out = y],
                    [e EXCEPT !.n = k, !.out = 1], e} : Same(d)
      BY <1>1 DEF Lines
    <3> HIDE DEF Same
    <3>3. QED BY <3>1, <3>2
  <2>3. CASE e.mode = "send" /\ e.n > Width
    <3> DEFINE a == Advanced(e)
    <3>1. Falls(e) = Sends(a)
      <4>1. ~(e.n < Width) /\ e.n # Width
        <5>1. e.n \in Nat /\ Width \in Nat
          BY <1>1, Powers DEF Lines
        <5>2. QED BY <2>3, <5>1
      <4>2. QED BY <2>3, <4>1 DEF Falls, Receives
    <3>2. a \in Lines(D) /\ a.got = e.got /\ a.deaf = e.deaf
      BY <1>1, <1>5
    <3> HIDE DEF a
    <3>3. QED BY <1>1, <1>6, <3>1, <3>2
  <2>4. QED BY <2>1, <2>2, <2>3
<1>9. QED BY <1>1, <1>2, <1>3, <1>4, <1>7, <1>8

(* A setting of a line reads nothing ...                                   *)
LEMMA LineUnread ==
  ASSUME NEW D, D \subseteq Int, NEW d \in Chip(D), NEW x \in {0, 1}
  PROVE  /\ SetSda(d, x) \in Chip(D) /\ SetSda(d, x).got = d.got /\ SetSda(d, x).deaf = d.deaf
         /\ SetScl(d, x) \in Chip(D) /\ SetScl(d, x).got = d.got /\ SetScl(d, x).deaf = d.deaf
<1>1. d \in Lines(D)
  BY DEF Chip, Bus
<1>2. Does(d, M_SDA_OUT(x)) \in Chip(D) /\ Does(d, M_SCL_OUT(x)) \in Chip(D)
  <2>1. M_SDA_OUT(x) \in Event /\ M_SCL_OUT(x) \in Event
    BY DEF Event
  <2>2. QED BY <2>1, ChipDoes
<1>3. SetSda(d, x) \in Chip(D) /\ SetScl(d, x) \in Chip(D)
  BY <1>2, DoesIs
<1>4. QED BY <1>1, <1>3, Unread

(* ... and neither does a bit put.                                         *)
LEMMA WrittenUnread ==
  ASSUME NEW D, D \subseteq Int, NEW d \in Chip(D), NEW x \in {0, 1}
  PROVE  PutBit(d, x) \in Chip(D) /\ PutBit(d, x).got = d.got /\ PutBit(d, x).deaf = d.deaf
<1> DEFINE s == SetSda(d, x)
           u == SetScl(s, 1)
<1>1. s \in Chip(D) /\ s.got = d.got /\ s.deaf = d.deaf
  BY LineUnread
<1> HIDE DEF s
<1>2. u \in Chip(D) /\ u.got = d.got /\ u.deaf = d.deaf
  BY <1>1, LineUnread
<1> HIDE DEF u
<1>3. SetScl(u, 0) \in Chip(D) /\ SetScl(u, 0).got = d.got /\ SetScl(u, 0).deaf = d.deaf
  BY <1>2, LineUnread
<1>4. QED BY <1>3 DEF PutBit, s, u

(* A bit got is one bit read.                                              *)
LEMMA ReadOne ==
  ASSUME NEW D, D \subseteq Int, NEW d \in Chip(D)
  PROVE  GotBit(d) \in Chip(D) /\ Len(GotBit(d).got) = Len(d.got) + 1 /\ GotBit(d).deaf = d.deaf
<1> DEFINE u == SetScl(d, 1)
           v == Does(u, M_SDA_IN)
           g == Append(u.got, Wire(u))
<1>1. u \in Chip(D) /\ u.got = d.got /\ u.deaf = d.deaf
  BY LineUnread
<1> HIDE DEF u
<1>2. v = [u EXCEPT !.got = g] /\ v \in Chip(D)
  BY <1>1, SdaRead
<1>3. u \in Lines(D)
  BY <1>1 DEF Chip, Bus
<1>4. Len(g) = Len(d.got) + 1
  <2>1. u.got \in Seq({0, 1})
    BY <1>3 DEF Lines
  <2>2. QED BY <1>1, <2>1
<1> HIDE DEF g, v
<1>5. v.got = g /\ v.deaf = d.deaf
  BY <1>1, <1>2, <1>3 DEF Lines
<1>6. SetScl(v, 0) \in Chip(D) /\ SetScl(v, 0).got = v.got /\ SetScl(v, 0).deaf = v.deaf
  BY <1>2, LineUnread
<1>7. QED BY <1>4, <1>5, <1>6 DEF GotBit, u, v

(* A byte put is one bit read, a byte got as many as it has.               *)
LEMMA PutByteGot ==
  ASSUME NEW D, D \subseteq Int, NEW b \in Chip(D), NEW data \in Nat
  PROVE  /\ Len(Performed(b, mi2c_put_byte(data)).got) = Len(b.got) + 1
         /\ Performed(b, mi2c_put_byte(data)).deaf = b.deaf
<1>1. PICK f : /\ f[0] = b /\ \A k \in 0 .. Width - 1 : f[k + 1] = PutBit(f[k], Bit(data, k + 1))
               /\ Performed(b, mi2c_put_byte(data)) = SetSda(GotBit(SetSda(f[Width], 1)), 0)
  BY PutByteIs
<1> DEFINE Same(d) == d \in Chip(D) /\ d.got = b.got /\ d.deaf = b.deaf
           T == { k \in 0 .. Width : Same(f[k]) }
<1>2. 0 \in T
  BY <1>1, Powers
<1>3. ASSUME NEW j \in 0 .. Width - 1, j \in T PROVE j + 1 \in T
  <2>1. j + 1 \in 1 .. Width /\ j + 1 \in 0 .. Width /\ Same(f[j])
    BY <1>3, Powers
  <2>2. Bit(data, j + 1) \in {0, 1}
    BY <2>1, BitIs01
  <2>3. f[j + 1] = PutBit(f[j], Bit(data, j + 1))
    BY <1>1
  <2> DEFINE d == f[j]
             x == Bit(data, j + 1)
  <2>4. d \in Chip(D) /\ x \in {0, 1} /\ Same(d)
    BY <2>1, <2>2
  <2> HIDE DEF d, x
  <2>5. Same(PutBit(d, x))
    BY <2>4, WrittenUnread
  <2>6. QED BY <2>1, <2>3, <2>5 DEF d, x
<1>4. Same(f[Width])
  <2> HIDE DEF T
  <2>1. Width \in Nat /\ Width \in 0 .. Width
    BY Powers
  <2>2. 0 .. Width \subseteq T
    BY <1>2, <1>3, <2>1, CountUp
  <2>3. QED BY <2>1, <2>2 DEF T
<1> HIDE DEF T
<1> DEFINE w == f[Width]
           s == SetSda(w, 1)
           r == GotBit(s)
<1>5. w \in Chip(D) /\ w.got = b.got /\ w.deaf = b.deaf
  BY <1>4
<1> HIDE DEF w
<1>6. s \in Chip(D) /\ s.got = b.got /\ s.deaf = b.deaf
  BY <1>5, LineUnread
<1> HIDE DEF s
<1>7. r \in Chip(D) /\ Len(r.got) = Len(b.got) + 1 /\ r.deaf = b.deaf
  BY <1>6, ReadOne
<1> HIDE DEF r
<1>8. SetSda(r, 0).got = r.got /\ SetSda(r, 0).deaf = r.deaf
  BY <1>7, LineUnread
<1>9. QED BY <1>1, <1>7, <1>8 DEF r, s, w

(* The bits of a byte got.                                                 *)
LEMMA GetByteGot ==
  ASSUME NEW D, D \subseteq Int, NEW b \in Chip(D), NEW last \in BOOLEAN
  PROVE  /\ Len(Performed(b, mi2c_get_byte(last)).got) = Len(b.got) + Width
         /\ Performed(b, mi2c_get_byte(last)).deaf = b.deaf
<1> DEFINE x == IF last THEN 1 ELSE 0
<1>1. PICK f : /\ f[0] = SetScl(SetSda(b, 1), 0) /\ \A k \in 0 .. Width - 1 : f[k + 1] = GotBit(f[k])
               /\ Performed(b, mi2c_get_byte(last)) = PutBit(f[Width], x)
  BY GetByteIs
<1> DEFINE Same(d, k) == d \in Chip(D) /\ Len(d.got) = Len(b.got) + k /\ d.deaf = b.deaf
           T == { k \in 0 .. Width : Same(f[k], k) }
<1>0. Len(b.got) \in Nat
  <2>1. b.got \in Seq({0, 1})
    BY DEF Chip, Bus, Lines
  <2>2. QED BY <2>1
<1>2. 0 \in T
  <2> DEFINE s == SetSda(b, 1)
  <2>1. s \in Chip(D) /\ s.got = b.got /\ s.deaf = b.deaf
    BY LineUnread
  <2> HIDE DEF s
  <2>2. SetScl(s, 0) \in Chip(D) /\ SetScl(s, 0).got = b.got /\ SetScl(s, 0).deaf = b.deaf
    BY <2>1, LineUnread
  <2>3. Len(b.got) = Len(b.got) + 0 /\ 0 \in 0 .. Width
    BY <1>0, Powers
  <2>4. f[0] = SetScl(s, 0)
    BY <1>1 DEF s
  <2>5. Same(f[0], 0)
    BY <2>2, <2>3, <2>4
  <2>6. QED BY <2>3, <2>5
<1>3. ASSUME NEW j \in 0 .. Width - 1, j \in T PROVE j + 1 \in T
  <2>1. j + 1 \in 0 .. Width /\ j \in Nat /\ Same(f[j], j)
    BY <1>3, Powers
  <2>2. f[j + 1] = GotBit(f[j])
    BY <1>1
  <2> DEFINE d == f[j]
  <2>3. d \in Chip(D) /\ Len(d.got) = Len(b.got) + j /\ d.deaf = b.deaf
    BY <2>1
  <2> HIDE DEF d
  <2>4. GotBit(d) \in Chip(D) /\ Len(GotBit(d).got) = Len(d.got) + 1 /\ GotBit(d).deaf = b.deaf
    BY <2>3, ReadOne
  <2>5. Len(GotBit(d).got) = Len(b.got) + (j + 1)
    <3> DEFINE l == Len(b.got)
               m == Len(d.got)
    <3>1. m = l + j /\ Len(GotBit(d).got) = m + 1 /\ l \in Nat
      BY <1>0, <2>3, <2>4
    <3> HIDE DEF l, m
    <3>2. Len(GotBit(d).got) = l + (j + 1)
      BY <2>1, <3>1
    <3>3. QED BY <3>2 DEF l
  <2>6. QED BY <2>1, <2>2, <2>4, <2>5 DEF d
<1>4. Same(f[Width], Width)
  <2> HIDE DEF T
  <2>1. Width \in Nat /\ Width \in 0 .. Width
    BY Powers
  <2>2. 0 .. Width \subseteq T
    BY <1>2, <1>3, <2>1, CountUp
  <2>3. QED BY <2>1, <2>2 DEF T
<1> HIDE DEF T
<1>5. x \in {0, 1}
  OBVIOUS
<1> DEFINE w == f[Width]
<1>6. w \in Chip(D) /\ Len(w.got) = Len(b.got) + Width /\ w.deaf = b.deaf
  BY <1>4
<1> HIDE DEF w, x
<1>7. PutBit(w, x).got = w.got /\ PutBit(w, x).deaf = w.deaf
  BY <1>5, <1>6, WrittenUnread
<1>8. QED BY <1>1, <1>6, <1>7 DEF w, x

(* A stop reads nothing ...                                                *)
LEMMA StopGot ==
  ASSUME NEW D, D \subseteq Int, NEW b \in Chip(D)
  PROVE  Performed(b, mi2c_stop).got = b.got /\ Performed(b, mi2c_stop).deaf = b.deaf
<1> DEFINE s == SetSda(b, 0)
           u == SetScl(s, 1)
<1>1. Performed(b, mi2c_stop) = SetSda(u, 1)
  <2>1. Performed(b, mi2c_stop) = Does(Does(Does(b, M_SDA_OUT(0)), M_SCL_OUT(1)), M_SDA_OUT(1))
    BY PerformedThree DEF mi2c_stop
  <2>2. QED BY <2>1, DoesIs
<1>2. s \in Chip(D) /\ s.got = b.got /\ s.deaf = b.deaf
  BY LineUnread
<1> HIDE DEF s
<1>3. u \in Chip(D) /\ u.got = b.got /\ u.deaf = b.deaf
  BY <1>2, LineUnread
<1> HIDE DEF u
<1>4. SetSda(u, 1).got = b.got /\ SetSda(u, 1).deaf = b.deaf
  BY <1>3, LineUnread
<1>5. QED BY <1>1, <1>4

(* ... and neither does a start ...                                        *)
LEMMA StartGot ==
  ASSUME NEW D, D \subseteq Int, NEW b \in Chip(D)
  PROVE  Performed(b, mi2c_start).got = b.got /\ Performed(b, mi2c_start).deaf = b.deaf
<1> DEFINE s == SetSda(b, 0)
<1>1. Performed(b, mi2c_start) = SetScl(s, 0)
  BY StartFrom
<1>2. s \in Chip(D) /\ s.got = b.got /\ s.deaf = b.deaf
  BY LineUnread
<1> HIDE DEF s
<1>3. SetScl(s, 0).got = b.got /\ SetScl(s, 0).deaf = b.deaf
  BY <1>2, LineUnread
<1>4. QED BY <1>1, <1>3

(* ... or a repeated one.                                                  *)
LEMMA RepeatGot ==
  ASSUME NEW D, D \subseteq Int, NEW b \in Chip(D), b.scl = 0
  PROVE  Performed(b, mi2c_repeat_start).got = b.got /\ Performed(b, mi2c_repeat_start).deaf = b.deaf
<1> DEFINE a == SetSda(b, 1)
           u == SetScl(a, 1)
           s == SetSda(u, 0)
<1>1. Performed(b, mi2c_repeat_start) = SetScl(s, 0)
  BY RepeatStart
<1>0. \A d \in Chip(D) :
        /\ \A x \in {0, 1} : SetSda(d, x) \in Chip(D) /\ SetSda(d, x).got = d.got /\ SetSda(d, x).deaf = d.deaf
        /\ \A x \in {0, 1} : SetScl(d, x) \in Chip(D) /\ SetScl(d, x).got = d.got /\ SetScl(d, x).deaf = d.deaf
  <2>1. ASSUME NEW d \in Chip(D), NEW x \in {0, 1}
        PROVE  /\ SetSda(d, x) \in Chip(D) /\ SetSda(d, x).got = d.got /\ SetSda(d, x).deaf = d.deaf
               /\ SetScl(d, x) \in Chip(D) /\ SetScl(d, x).got = d.got /\ SetScl(d, x).deaf = d.deaf
    BY LineUnread
  <2>2. QED BY <2>1
<1>2. a \in Chip(D) /\ a.got = b.got /\ a.deaf = b.deaf
  BY <1>0
<1> HIDE DEF a
<1>3. u \in Chip(D) /\ u.got = b.got /\ u.deaf = b.deaf
  BY <1>0, <1>2
<1> HIDE DEF u
<1>4. s \in Chip(D) /\ s.got = b.got /\ s.deaf = b.deaf
  BY <1>0, <1>3
<1> HIDE DEF s
<1>5. SetScl(s, 0).got = b.got /\ SetScl(s, 0).deaf = b.deaf
  BY <1>0, <1>4
<1>6. QED BY <1>1, <1>5

(* Asking for a chip: whatever state it is in, it is between transfers     *)
(* after that; one in the middle of a byte moves on by a bit, or is free.  *)
LEMMA ProbeChip ==
  ASSUME NEW D, D \subseteq Int, NEW b \in Chip(D), NEW device \in Nat
  PROVE  /\ After(b, mi2c_devprobe(device)) \in Rest(D)
         /\ After(b, mi2c_devprobe(device)).deaf = b.deaf
         /\ Len(After(b, mi2c_devprobe(device)).got) = Len(b.got) + 1
<1> DEFINE st == Performed(b, mi2c_start)
           pt == Performed(st, mi2c_put_byte(2 * device))
           c == Performed(pt, mi2c_stop)
<1>1. After(b, mi2c_devprobe(device)) = c
  BY AfterThree DEF mi2c_devprobe
<1>2. st \in Chip(D) /\ st.scl = 0 /\ st.got = b.got /\ st.deaf = b.deaf
  BY StartFrom, StartGot
<1> HIDE DEF st
<1>0. 2 * device \in Nat
  OBVIOUS
<1>3. pt \in Chip(D) /\ pt.scl = 0 /\ pt.mode # "device"
  BY <1>0, <1>2, PutBytePhase DEF Kept
<1>4. Len(pt.got) = Len(b.got) + 1 /\ pt.deaf = b.deaf
  <2>1. Len(pt.got) = Len(st.got) + 1 /\ pt.deaf = st.deaf
    BY <1>0, <1>2, PutByteGot
  <2> HIDE DEF pt
  <2>2. QED BY <1>2, <2>1
<1> HIDE DEF pt
<1>5. c \in Rest(D) /\ c.got = pt.got /\ c.deaf = pt.deaf
  BY <1>3, StopTo, StopGot
<1> HIDE DEF c
<1>6. QED BY <1>1, <1>4, <1>5

(* Between transfers, the bit a chip has stopped at.                       *)
LEMMA RestPhase ==
  ASSUME NEW D, NEW b \in Rest(D), b.mode # "idle"
  PROVE  b.scl = 1 /\ b.out = 0 /\ IF b.mode = "send" THEN b.n \in 1 .. Width /\ Phase(b) = b.n - 1 ELSE Phase(b) = Width
<1>1. b.scl = 1 /\ b.out = 0 /\ b \in Lines(D) /\ Consistent(b) /\ b.mode # "device"
  BY DEF Rest, Chip, Bus
<1>2. CASE b.mode = "send"
  <2>1. b.n \in 0 .. Width + 1 /\ b.n >= 1 /\ b.n # Width + 1 /\ Width \in Nat
    BY <1>1, <1>2, Powers DEF Lines, Consistent
  <2>2. QED BY <1>1, <1>2, <2>1 DEF Phase
<1>3. CASE b.mode # "send"
  BY <1>1, <1>3 DEF Phase
<1>4. QED BY <1>2, <1>3

(* A chip that is free stays so; another is freed, or is in the middle of  *)
(* a byte and moves on.                                                    *)
LEMMA ProbeRest ==
  ASSUME NEW D, D \subseteq Int, NEW b \in Rest(D), NEW c, c = After(b, mi2c_devprobe(Device))
  PROVE  /\ c \in Rest(D)
         /\ b.mode = "idle" => c.mode = "idle"
         /\ c.mode = "idle" \/ (b.mode = "send" /\ c.mode = "send" /\ c.n = b.n + 1)
<1> DEFINE st == Performed(b, mi2c_start)
           pt == Performed(st, mi2c_put_byte(2 * Device))
<1>1. c = Performed(pt, mi2c_stop)
  BY AfterThree DEF mi2c_devprobe
<1>0. 2 * Device \in Nat /\ b \in Chip(D)
  BY Addressed DEF Rest
<1>2. /\ st \in Chip(D) /\ st.scl = 0
      /\ b.mode # "idle" => st.mode # "device" /\ (st.mode = "idle" \/ Phase(st) = NextPhase(Phase(b)))
      /\ b.mode # "idle" => (b.mode # "send" => st.mode # "send") /\ (b.mode = "send" => st.mode \in {"send", "idle"})
      /\ b.mode = "idle" => st.mode = "device" /\ Phase(st) = 0 /\ st \in Waits(D)
  <2>1. LET d == Performed(b, mi2c_start) IN
         /\ d \in Chip(D) /\ d.scl = 0
         /\ b.mode # "idle" =>
              /\ d.mode # "device" /\ (d.mode = "idle" \/ Phase(d) = NextPhase(Phase(b)))
              /\ b.mode # "send" => d.mode # "send"
              /\ b.mode = "send" => d.mode \in {"send", "idle"}
         /\ b.mode = "idle" =>
              d = [b EXCEPT !.mode = "device", !.n = 0, !.byte = 0, !.out = 1, !.pend = << >>, !.scl = 0, !.sda = 0]
    BY StartRest
  <2>2. b \in Lines(D)
    BY <1>0 DEF Chip, Bus
  <2>3. b.mode = "idle" => st.mode = "device" /\ st.out = 1 /\ st.n = 0 /\ st.scl = 0 /\ st.byte = 0
    <3> HIDE DEF st
    <3> SUFFICES ASSUME b.mode = "idle" PROVE st.mode = "device" /\ st.out = 1 /\ st.n = 0 /\ st.scl = 0 /\ st.byte = 0
      OBVIOUS
    <3>1. st = [b EXCEPT !.mode = "device", !.n = 0, !.byte = 0, !.out = 1, !.pend = << >>, !.scl = 0, !.sda = 0]
      BY <2>1 DEF st
    <3>2. QED BY <2>2, <3>1 DEF Lines
  <2>4. b.mode = "idle" => Phase(st) = 0
    <3> HIDE DEF st
    <3>1. QED BY <2>3 DEF Phase
  <2>5. b.mode = "idle" => st \in Waits(D)
    <3> HIDE DEF st
    <3>1. st \in Chip(D)
      BY <2>1 DEF st
    <3>2. QED BY <2>3, <3>1 DEF Waits, Receives
  <2> HIDE DEF st
  <2>6. QED BY <2>1, <2>3, <2>4, <2>5 DEF st
<1> HIDE DEF st
<1>3. Kept(D, st, pt)
  BY <1>0, <1>2, PutBytePhase
<1> HIDE DEF pt
<1>4. pt \in Chip(D) /\ pt.scl = 0 /\ pt.mode # "device"
  BY <1>3 DEF Kept
<1>5. /\ c \in Rest(D) /\ (pt.mode = "idle" => c.mode = "idle")
      /\ c.mode = "idle" \/ (c.mode = pt.mode /\ Phase(c) = Phase(pt))
  BY <1>1, <1>4, StopTo
<1>6. c.mode = "idle" \/ (c.scl = 1 /\ c.out = 0 /\ IF c.mode = "send" THEN c.n \in 1 .. Width /\ Phase(c) = c.n - 1 ELSE Phase(c) = Width)
  BY <1>5, RestPhase
<1>w. Width \in Nat /\ Width > 0
  BY Powers
<1>7. CASE c.mode = "idle"
  BY <1>5, <1>7
<1>8. CASE c.mode # "idle" /\ b.mode = "idle"
  <2>1. pt.mode # "idle" /\ Phase(c) = Phase(pt) /\ pt.mode = c.mode
    BY <1>5, <1>8
  <2>2. Phase(pt) = Phase(st) /\ Phase(st) = 0 /\ st \in Waits(D) /\ st.mode = "device"
    BY <1>2, <1>3, <1>8, <2>1 DEF Kept
  <2>3. pt.mode = "send"
    BY <1>6, <1>8, <1>w, <2>1, <2>2
  <2>4. st \in Lines(D)
    BY <1>2 DEF Chip, Bus
  <2>5. pt.mode # "send"
    <3>1. CASE ~st.busy /\ ~st.deaf
      <4> DEFINE m == IF AddrBytes = 2 THEN "high" ELSE "low"
                 g == Append(st.got, 0)
      <4>1. pt = [st EXCEPT !.mode = m, !.at = 0, !.sda = 0, !.got = g]
        BY <2>2, <3>1, PutDevice DEF pt
      <4>2. m # "send"
        OBVIOUS
      <4> HIDE DEF m, g
      <4>3. QED BY <2>4, <4>1, <4>2 DEF Lines
    <3>2. CASE st.busy \/ st.deaf
      <4> DEFINE data == 2 * Device
                 g == Append(st.got, 1)
      <4>1. data \in 0 .. Blank /\ ~(data \div 2 = Device /\ ~st.busy /\ ~st.deaf)
        BY <3>2, Addressed
      <4>2. pt = Performed(st, mi2c_put_byte(data))
        BY DEF pt
      <4> HIDE DEF data
      <4>3. pt = [st EXCEPT !.mode = "idle", !.n = Width, !.byte = data, !.sda = 0, !.got = g]
        BY <2>2, <4>1, <4>2, PutOther
      <4> HIDE DEF g
      <4>4. QED BY <2>4, <4>3 DEF Lines
    <3>3. QED BY <3>1, <3>2
  <2>6. QED BY <2>3, <2>5
<1>9. CASE c.mode # "idle" /\ b.mode # "idle"
  <2>1. pt.mode # "idle" /\ Phase(c) = Phase(pt) /\ pt.mode = c.mode
    BY <1>5, <1>9
  <2>2. st.mode # "idle" /\ Phase(pt) = Phase(st)
    BY <1>3, <2>1 DEF Kept
  <2>3. Phase(c) = NextPhase(Phase(b))
    BY <1>2, <1>9, <2>1, <2>2
  <2>4. b.out = 0 /\ IF b.mode = "send" THEN b.n \in 1 .. Width /\ Phase(b) = b.n - 1 ELSE Phase(b) = Width
    BY <1>9, RestPhase
  <2>5. CASE b.mode # "send"
    <3>1. Phase(c) = 0 /\ c.mode = "send"
      BY <1>6, <1>9, <1>w, <2>3, <2>4, <2>5 DEF NextPhase
    <3>2. st.mode # "send" /\ st.mode # "device"
      BY <1>2, <1>9, <2>5
    <3>3. pt.mode # "send"
      BY <1>3, <3>2 DEF Kept
    <3>4. QED BY <2>1, <3>1, <3>3
  <2>6. CASE b.mode = "send"
    <3>1. b.n \in 1 .. Width /\ Phase(c) = NextPhase(b.n - 1)
      BY <2>3, <2>4, <2>6
    <3>2. Phase(c) = b.n
      BY <1>w, <3>1 DEF NextPhase
    <3>3. c.mode = "send"
      <4>1. st.mode = "send"
        BY <1>2, <1>9, <2>2, <2>6
      <4>2. pt.mode = "send"
        BY <1>3, <2>1, <4>1 DEF Kept
      <4>3. QED BY <2>1, <4>2
    <3>4. c.n = b.n + 1
      BY <1>6, <1>9, <3>1, <3>2, <3>3
    <3>5. QED BY <1>5, <1>9, <2>6, <3>3, <3>4
  <2>7. QED BY <2>5, <2>6
<1>10. QED BY <1>7, <1>8, <1>9

(* A chip that is free answers.                                            *)
LEMMA ProbeFree ==
  ASSUME NEW D, D \subseteq Int, NEW b \in Rest(D), b.mode = "idle", ~b.busy, ~b.deaf
  PROVE  Acknowledged(After(b, mi2c_devprobe(Device)))
<1> DEFINE st == Performed(b, mi2c_start)
           pt == Performed(st, mi2c_put_byte(2 * Device))
           c == Performed(pt, mi2c_stop)
<1>0. b \in Lines(D) /\ b \in Chip(D)
  BY DEF Rest, Chip, Bus
<1>1. After(b, mi2c_devprobe(Device)) = c
  BY AfterThree DEF mi2c_devprobe
<1>2. st \in Chip(D) /\ st = [b EXCEPT !.mode = "device", !.n = 0, !.byte = 0, !.out = 1, !.pend = << >>, !.scl = 0, !.sda = 0]
  <2>1. LET d == Performed(b, mi2c_start) IN
         /\ d \in Chip(D) /\ d.scl = 0
         /\ b.mode # "idle" =>
              /\ d.mode # "device" /\ (d.mode = "idle" \/ Phase(d) = NextPhase(Phase(b)))
              /\ b.mode # "send" => d.mode # "send"
              /\ b.mode = "send" => d.mode \in {"send", "idle"}
         /\ b.mode = "idle" =>
              d = [b EXCEPT !.mode = "device", !.n = 0, !.byte = 0, !.out = 1, !.pend = << >>, !.scl = 0, !.sda = 0]
    BY StartRest
  <2>2. QED BY <2>1
<1> HIDE DEF st
<1>3. st.mode = "device" /\ st.out = 1 /\ st.n = 0 /\ st.scl = 0 /\ st.byte = 0 /\ st.busy = b.busy /\ st.deaf = b.deaf
  BY <1>0, <1>2 DEF Lines
<1>4. st \in Waits(D) /\ ~st.busy /\ ~st.deaf
  BY <1>2, <1>3 DEF Waits, Receives
<1> DEFINE m == IF AddrBytes = 2 THEN "high" ELSE "low"
           g == Append(st.got, 0)
<1>5. pt = [st EXCEPT !.mode = m, !.at = 0, !.sda = 0, !.got = g]
  BY <1>3, <1>4, PutDevice
<1>6. st \in Lines(D)
  BY <1>2 DEF Chip, Bus
<1>7. Len(g) \in Nat /\ g[Len(g)] = 0
  <2>1. st.got \in Seq({0, 1})
    BY <1>6 DEF Lines
  <2>2. QED BY <2>1
<1> HIDE DEF m, g
<1>8. pt.got = g
  BY <1>5, <1>6 DEF Lines
<1>9. pt \in Chip(D)
  <2>1. 2 * Device \in Nat
    BY Addressed
  <2>2. Kept(D, st, pt)
    BY <1>2, <1>3, <2>1, PutBytePhase
  <2>3. QED BY <2>2 DEF Kept
<1> HIDE DEF pt
<1>10. c.got = g
  BY <1>8, <1>9, StopGot
<1> HIDE DEF c
<1>11. QED BY <1>1, <1>7, <1>10 DEF Acknowledged

(* The bits read, one after the other.                                     *)
LEMMA ByteFromIs ==
  ASSUME NEW bits, NEW first
  PROVE  \E r : /\ r[0] = 0 /\ \A i \in 1 .. Width : r[i] = 2 * r[i - 1] + bits[first + i - 1]
                /\ ByteFrom(bits, first) = r[Width]
<1> DEFINE n == Width
           Then(y, i) == 2 * y + bits[first + i - 1]
           Upto(k) == \E r : /\ r = [i \in 0 .. k |-> r[i]] /\ r[0] = 0
                             /\ \A i \in 1 .. k : r[i] = Then(r[i - 1], i)
           T == { k \in 0 .. n : Upto(k) }
           Def(f) == f = [i \in 0 .. n |-> IF i = 0 THEN 0 ELSE 2 * f[i - 1] + bits[first + i - 1]]
           f == CHOOSE g : Def(g)
<1>0. n \in Nat
  BY Powers
<1>1. 0 \in T
  <2> DEFINE r == [i \in 0 .. 0 |-> 0]
  <2>1. r = [i \in 0 .. 0 |-> r[i]] /\ r[0] = 0 /\ \A i \in 1 .. 0 : r[i] = Then(r[i - 1], i)
    OBVIOUS
  <2> HIDE DEF r
  <2>2. QED BY <1>0, <2>1
<1>2. ASSUME NEW j \in 0 .. n - 1, j \in T PROVE j + 1 \in T
  <2>0. j \in Nat /\ j + 1 \in 0 .. n
    BY <1>0
  <2> HIDE DEF Then, n
  <2>1. PICK r : r = [i \in 0 .. j |-> r[i]] /\ r[0] = 0 /\ \A i \in 1 .. j : r[i] = Then(r[i - 1], i)
    BY <1>2
  <2> DEFINE q == [i \in 0 .. j + 1 |-> IF i = j + 1 THEN Then(r[j], j + 1) ELSE r[i]]
  <2>2. q = [i \in 0 .. j + 1 |-> q[i]] /\ q[0] = 0
    BY <2>0, <2>1
  <2>3. ASSUME NEW i \in 1 .. j + 1 PROVE q[i] = Then(q[i - 1], i)
    <3>1. i - 1 \in 0 .. j /\ i - 1 # j + 1 /\ q[i - 1] = r[i - 1]
      BY <2>0
    <3>2. CASE i = j + 1
      <4>1. q[i] = Then(r[j], j + 1) /\ i - 1 = j
        BY <2>0, <3>2
      <4> HIDE DEF q
      <4>2. QED BY <3>1, <3>2, <4>1
    <3>3. CASE i # j + 1
      <4>1. i \in 1 .. j /\ q[i] = r[i]
        BY <2>0, <3>3
      <4> HIDE DEF q
      <4>2. QED BY <2>1, <3>1, <4>1
    <3>4. QED BY <3>2, <3>3
  <2> HIDE DEF q
  <2>4. Upto(j + 1)
    BY <2>2, <2>3
  <2> HIDE DEF Upto
  <2>5. QED BY <2>0, <2>4
<1>3. n \in T
  <2> HIDE DEF T, n
  <2>2. 0 .. n \subseteq T
    BY <1>0, <1>1, <1>2, CountUp
  <2>3. QED BY <1>0, <2>2
<1>4. PICK r : /\ r = [i \in 0 .. n |-> r[i]] /\ r[0] = 0
               /\ \A i \in 1 .. n : r[i] = Then(r[i - 1], i)
  BY <1>3 DEF T
<1>5. Def(r)
  <2>1. \A i \in 0 .. n : r[i] = IF i = 0 THEN 0 ELSE 2 * r[i - 1] + bits[first + i - 1]
    <3> TAKE i \in 0 .. n
    <3>1. i = 0 \/ i \in 1 .. n
      BY <1>0
    <3>2. ~(i \in 1 .. n /\ i = 0)
      OBVIOUS
    <3> HIDE DEF n
    <3>3. QED BY <1>4, <3>1, <3>2
  <2> HIDE DEF n
  <2>2. QED BY <1>4, <2>1
<1>6. Def(f)
  BY <1>5
<1>7. f[0] = 0 /\ \A i \in 1 .. Width : f[i] = 2 * f[i - 1] + bits[first + i - 1]
  <2> HIDE DEF f
  <2>1. \A i \in 0 .. n : f[i] = IF i = 0 THEN 0 ELSE 2 * f[i - 1] + bits[first + i - 1]
    BY <1>6
  <2>2. 0 \in 0 .. n /\ \A i \in 1 .. n : i \in 0 .. n /\ i # 0
    BY <1>0
  <2> HIDE DEF Def
  <2>3. f[0] = 0
    BY <2>1, <2>2
  <2>4. QED BY <2>1, <2>2, <2>3
<1>8. ByteFrom(bits, first) = f[Width]
  BY Zenon DEF ByteFrom, f
<1>9. QED BY <1>7, <1>8

(* The value of the bits is a byte.                                        *)
LEMMA ByteFromIn ==
  ASSUME NEW bits, NEW first, \A i \in 1 .. Width : bits[first + i - 1] \in {0, 1}
  PROVE  ByteFrom(bits, first) \in 0 .. Blank
<1>1. PICK r : /\ r[0] = 0 /\ \A i \in 1 .. Width : r[i] = 2 * r[i - 1] + bits[first + i - 1]
               /\ ByteFrom(bits, first) = r[Width]
  BY ByteFromIs
<1> DEFINE T == { k \in 0 .. Width : r[k] \in Nat /\ r[k] < 2 ^ k }
<1>2. 0 \in T
  BY <1>1, Powers
<1>3. ASSUME NEW j \in 0 .. Width - 1, j \in T PROVE j + 1 \in T
  <2>1. j + 1 \in 1 .. Width /\ j + 1 \in 0 .. Width /\ j + 1 - 1 = j /\ j \in 0 .. Width
    BY Powers
  <2>2. r[j + 1] = 2 * r[j] + bits[first + (j + 1) - 1] /\ bits[first + (j + 1) - 1] \in {0, 1}
    BY <1>1, <2>1
  <2>3. 2 ^ (j + 1) = 2 * 2 ^ j /\ 2 ^ j \in Nat /\ r[j] \in Nat /\ r[j] < 2 ^ j
    BY <1>3, <2>1, Powers
  <2> DEFINE p == 2 ^ j
             y == r[j]
             x == bits[first + (j + 1) - 1]
  <2>4. p \in Nat /\ y \in Nat /\ y < p /\ x \in {0, 1} /\ r[j + 1] = 2 * y + x /\ 2 ^ (j + 1) = 2 * p
    BY <2>2, <2>3
  <2> HIDE DEF p, y, x
  <2>5. 2 * y + x \in Nat /\ 2 * y + x < 2 * p
    BY <2>4
  <2>6. r[j + 1] \in Nat /\ r[j + 1] < 2 ^ (j + 1)
    BY <2>4, <2>5
  <2>7. QED BY <2>1, <2>6
<1>4. Width \in T
  <2>1. Width \in Nat
    BY Powers
  <2> HIDE DEF T
  <2>2. 0 .. Width \subseteq T
    BY <1>2, <1>3, <2>1, CountUp
  <2>3. QED BY <2>1, <2>2
<1>5. r[Width] \in Nat /\ r[Width] < Byte
  BY <1>4 DEF Byte
<1>6. QED BY <1>1, <1>5, Powers

-----------------------------------------------------------------------------
(* The memory between transfers.                                           *)

(* Addresses are numbers.                                                  *)
LEMMA AddrInt == Addr \subseteq Int /\ EE_BASE_INIT \in Nat /\ EE_BASE_SFP \in Nat
<1>1. CalLen \in Nat /\ SFPS_MAX \in Nat /\ Room \in Nat
  BY LayoutAssumption
<1>2. QED BY <1>1 DEF Addr, EE_BASE_INIT, EE_BASE_SFP, RecLen

(* Between transfers of the driver, with nothing of the last one left.     *)
Ready ==
  { b \in Rest(Addr) : /\ b.got = << >> /\ b.deaf = FALSE
                       /\ b.mode = "idle" => b.n = 0 /\ b.byte = 0 /\ b.at = 0 }

(* What is read, what disturbs the chip and what keeps it busy is none of  *)
(* the lines.                                                              *)
Alike(b, c) ==
  c.scl = b.scl /\ c.sda = b.sda /\ c.mode = b.mode /\ c.out = b.out /\ c.n = b.n /\ c.byte = b.byte
  /\ c.pend = b.pend /\ c.mem = b.mem

(* A bus that differs in nothing else is as good.                          *)
LEMMA ChipAlike ==
  ASSUME NEW D, NEW b \in Chip(D), NEW c \in Lines(D), Alike(b, c)
  PROVE  c \in Chip(D) /\ (b \in Rest(D) => c \in Rest(D))
<1>1. b \in Lines(D) /\ Consistent(b) /\ (b.scl = 0 /\ Receives(b) /\ b.out = 1 => b.n < Width)
  BY DEF Chip, Bus
<1>2. Consistent(c) /\ (Receives(c) <=> Receives(b))
  BY <1>1 DEF Consistent, Receives, Alike
<1>3. c \in Chip(D)
  BY <1>1, <1>2 DEF Chip, Bus, Alike
<1>4. QED BY <1>3 DEF Rest, Alike

(* Each of these may change.                                               *)
LEMMA Changes ==
  ASSUME NEW D, NEW b \in Lines(D)
  PROVE  /\ \A x \in BOOLEAN :
              LET c == [b EXCEPT !.deaf = x] IN
              c \in Lines(D) /\ Alike(b, c) /\ c.deaf = x /\ c.got = b.got /\ c.busy = b.busy
         /\ \A x \in BOOLEAN :
              LET c == [b EXCEPT !.busy = x] IN
              c \in Lines(D) /\ Alike(b, c) /\ c.deaf = b.deaf /\ c.got = b.got /\ c.busy = x
         /\ \A x \in BOOLEAN :
              LET c == [b EXCEPT !.got = << >>, !.busy = x] IN
              c \in Lines(D) /\ Alike(b, c) /\ c.deaf = b.deaf /\ c.got = << >> /\ c.busy = x
         /\ LET c == [b EXCEPT !.got = << >>, !.deaf = FALSE] IN
              c \in Lines(D) /\ Alike(b, c) /\ c.deaf = FALSE /\ c.got = << >> /\ c.busy = b.busy
<1>0. << >> \in Seq({0, 1})
  OBVIOUS
<1>1. ASSUME NEW x \in BOOLEAN
      PROVE  LET c == [b EXCEPT !.deaf = x] IN
              c \in Lines(D) /\ Alike(b, c) /\ c.deaf = x /\ c.got = b.got /\ c.busy = b.busy
  BY DEF Lines, Alike
<1>2. ASSUME NEW x \in BOOLEAN
      PROVE  LET c == [b EXCEPT !.busy = x] IN
              c \in Lines(D) /\ Alike(b, c) /\ c.deaf = b.deaf /\ c.got = b.got /\ c.busy = x
  BY DEF Lines, Alike
<1>3. ASSUME NEW x \in BOOLEAN
      PROVE  LET c == [b EXCEPT !.got = << >>, !.busy = x] IN
              c \in Lines(D) /\ Alike(b, c) /\ c.deaf = b.deaf /\ c.got = << >> /\ c.busy = x
  BY <1>0 DEF Lines, Alike
<1>4. LET c == [b EXCEPT !.got = << >>, !.deaf = FALSE] IN
        c \in Lines(D) /\ Alike(b, c) /\ c.deaf = FALSE /\ c.got = << >> /\ c.busy = b.busy
  BY <1>0 DEF Lines, Alike
<1>5. QED BY <1>1, <1>2, <1>3, <1>4

(* What is left of a transfer makes no difference.                         *)
LEMMA QuietReady ==
  ASSUME NEW b \in Rest(Addr)
  PROVE  /\ Quiet(b) \in Ready /\ Quiet(b).mode = b.mode /\ Quiet(b).mem = b.mem /\ Quiet(b).busy = b.busy
         /\ b.mode # "idle" => Quiet(b).n = b.n
<1> DEFINE c == [b EXCEPT !.got = << >>, !.deaf = FALSE]
           d == [c EXCEPT !.n = 0, !.byte = 0, !.at = 0]
<1>1. b \in Lines(Addr)
  BY DEF Rest, Chip, Bus
<1>2. c \in Rest(Addr) /\ c.mode = b.mode /\ c.n = b.n /\ c.got = << >> /\ c.deaf = FALSE /\ c.busy = b.busy /\ c.mem = b.mem
  <2>1. c \in Lines(Addr) /\ Alike(b, c) /\ c.deaf = FALSE /\ c.got = << >> /\ c.busy = b.busy
    <3>1. << >> \in Seq({0, 1})
      OBVIOUS
    <3>2. QED BY <1>1, <3>1 DEF Lines, Alike
  <2> HIDE DEF c
  <2>2. c \in Rest(Addr)
    BY <2>1, ChipAlike DEF Rest
  <2>3. QED BY <2>1, <2>2 DEF Alike
<1> HIDE DEF c
<1>3. CASE b.mode # "idle"
  <2>1. Quiet(b) = c
    BY <1>3 DEF Quiet, c
  <2>2. QED BY <1>2, <1>3, <2>1 DEF Ready
<1>4. CASE b.mode = "idle"
  <2>1. Quiet(b) = d
    BY <1>4 DEF Quiet, c
  <2>2. c \in Lines(Addr) /\ Consistent(c) /\ c.scl = 1 /\ c.sda = 1
    BY <1>2 DEF Rest, Chip, Bus
  <2>0. 0 \in 0 .. Width + 1 /\ 0 \in 0 .. Blank /\ 0 \in Nat
    BY Powers
  <2>3. d \in Lines(Addr)
    BY <2>0, <2>2 DEF Lines
  <2>4. /\ d.mode = "idle" /\ d.out = c.out /\ d.pend = c.pend /\ d.scl = 1 /\ d.sda = 1 /\ d.n = 0 /\ d.byte = 0 /\ d.at = 0
        /\ d.got = << >> /\ d.deaf = FALSE /\ d.busy = b.busy /\ d.mem = b.mem
    BY <1>2, <1>4, <2>2 DEF Lines
  <2> HIDE DEF d
  <2>5. Consistent(d) /\ ~Receives(d)
    BY <1>2, <1>4, <2>2, <2>4 DEF Consistent, Receives
  <2>6. d \in Rest(Addr)
    BY <2>3, <2>4, <2>5 DEF Rest, Chip, Bus
  <2>7. QED BY <1>4, <2>1, <2>4, <2>6 DEF Ready
<1>5. QED BY <1>3, <1>4

(* A bus that is free, and how one is that has been let go.                *)
LEMMA ReadyFree ==
  ASSUME NEW b \in Ready, b.mode = "idle", b.busy = FALSE
  PROVE  Free(b)
<1>1. b \in Lines(Addr) /\ Consistent(b) /\ b.scl = 1 /\ b.sda = 1 /\ b.got = << >> /\ b.deaf = FALSE /\ b.n = 0 /\ b.byte = 0 /\ b.at = 0
  BY DEF Ready, Rest, Chip, Bus
<1>2. b.out = 1 /\ b.pend = << >>
  BY <1>1 DEF Consistent
<1>3. b = Released(b.mem)
  BY <1>1, <1>2 DEF Lines, Released
<1>4. QED BY <1>3 DEF Free

(* A bus that has been let go is one between transfers.                    *)
LEMMA ReleasedReady ==
  ASSUME NEW m \in [Addr -> 0 .. Blank]
  PROVE  Released(m) \in Ready /\ Released(m).mode = "idle" /\ Released(m).mem = m /\ Released(m).busy = FALSE
<1> DEFINE b == Released(m)
<1>0. 0 \in 0 .. Width + 1 /\ 0 \in 0 .. Blank /\ 0 \in Nat /\ << >> \in Seq({0, 1}) /\ << >> \in Seq(0 .. Blank)
  BY Powers
<1>1. b \in Lines(Addr)
  BY <1>0 DEF Lines, Released
<1>2. /\ b.scl = 1 /\ b.sda = 1 /\ b.mode = "idle" /\ b.out = 1 /\ b.n = 0 /\ b.byte = 0 /\ b.at = 0 /\ b.pend = << >>
      /\ b.busy = FALSE /\ b.deaf = FALSE /\ b.mem = m /\ b.got = << >>
  BY DEF Released
<1> HIDE DEF b
<1>3. Consistent(b) /\ ~Receives(b)
  BY <1>2 DEF Consistent, Receives
<1>4. QED BY <1>1, <1>2, <1>3 DEF Ready, Rest, Chip, Bus, b

(* With the clock low, and not in the middle of an address.                *)
Low(D) == { b \in Chip(D) : b.scl = 0 /\ b.mode # "device" }

(* A byte put leaves such a bus ...                                        *)
LEMMA PutLowBus ==
  ASSUME NEW D, D \subseteq Int, NEW b \in Chip(D), b.scl = 0, NEW data \in Nat
  PROVE  LET c == Performed(b, mi2c_put_byte(data)) IN c \in Low(D) /\ Len(c.got) = Len(b.got) + 1 /\ c.deaf = b.deaf
<1> DEFINE c == Performed(b, mi2c_put_byte(data))
<1>1. Kept(D, b, c)
  BY PutBytePhase
<1>2. Len(c.got) = Len(b.got) + 1 /\ c.deaf = b.deaf
  BY PutByteGot
<1> HIDE DEF c
<1>3. c \in Low(D)
  BY <1>1 DEF Kept, Low
<1>4. QED BY <1>2, <1>3 DEF c

(* ... and so does a byte got.                                             *)
LEMMA GetLowBus ==
  ASSUME NEW D, D \subseteq Int, NEW b \in Low(D), NEW op \in { mi2c_get_byte(last) : last \in BOOLEAN }
  PROVE  LET c == Performed(b, op) IN c \in Low(D) /\ Len(c.got) = Len(b.got) + Width /\ c.deaf = b.deaf
<1>1. PICK last \in BOOLEAN : op = mi2c_get_byte(last)
  OBVIOUS
<1> DEFINE c == Performed(b, mi2c_get_byte(last))
<1>2. b \in Chip(D) /\ b.scl = 0 /\ b.mode # "device"
  BY DEF Low
<1>3. Kept(D, b, c)
  BY <1>2, GetBytePhase
<1>4. Len(c.got) = Len(b.got) + Width /\ c.deaf = b.deaf
  BY <1>2, GetByteGot
<1> HIDE DEF c
<1>5. c \in Low(D)
  BY <1>3 DEF Kept, Low
<1>6. QED BY <1>1, <1>4, <1>5 DEF c

(* The bits read so far.                                                   *)
LEMMA GotLen == ASSUME NEW D, NEW b \in Chip(D) PROVE Len(b.got) \in Nat
<1>1. b.got \in Seq({0, 1})
  BY DEF Chip, Bus, Lines
<1>2. QED BY <1>1

(* Bytes got, one after the other.                                         *)
LEMMA GetsLowBus ==
  ASSUME NEW D, D \subseteq Int, NEW b \in Low(D), NEW ops, Len(ops) \in Nat,
         \A i \in 1 .. Len(ops) : ops[i] \in { mi2c_get_byte(last) : last \in BOOLEAN }
  PROVE  LET c == After(b, ops) IN c \in Low(D) /\ Len(c.got) = Len(b.got) + Len(ops) * Width /\ c.deaf = b.deaf
<1> DEFINE n == Len(ops)
           G == { mi2c_get_byte(last) : last \in BOOLEAN }
<1>1. PICK r : OperationsOf(r, b, ops)
  BY OperationsRun
<1>2. r[0] = b /\ \A i \in 1 .. n : r[i] = Performed(r[i - 1], ops[i])
  BY <1>1 DEF OperationsOf
<1>3. After(b, ops) = r[n]
  BY <1>1, OperationsEnd
<1>4. Len(b.got) \in Nat /\ Width \in Nat
  BY GotLen, Powers DEF Low
<1> DEFINE Good(c, k) == c \in Low(D) /\ Len(c.got) = Len(b.got) + k * Width /\ c.deaf = b.deaf
           T == { k \in 0 .. n : Good(r[k], k) }
<1>5. 0 \in T
  <2>1. Len(b.got) = Len(b.got) + 0 * Width
    <3> DEFINE l == Len(b.got)
    <3> HIDE DEF l
    <3>1. l \in Nat /\ 0 * Width = 0
      BY <1>4 DEF l
    <3>2. l = l + 0 * Width
      BY <3>1
    <3>3. QED BY <3>2 DEF l
  <2>2. Good(r[0], 0)
    BY <1>2, <2>1
  <2>3. QED BY <2>2
<1>6. ASSUME NEW j \in 0 .. n - 1, j \in T PROVE j + 1 \in T
  <2>1. j + 1 \in 1 .. n /\ j + 1 \in 0 .. n /\ j + 1 - 1 = j /\ Good(r[j], j) /\ j \in Nat
    BY <1>6
  <2> DEFINE d == r[j]
             op == ops[j + 1]
             c == Performed(d, op)
  <2>2. op \in G /\ d \in Low(D) /\ Len(d.got) = Len(b.got) + j * Width /\ d.deaf = b.deaf
    BY <2>1
  <2>3. r[j + 1] = c
    BY <1>2, <2>1
  <2> HIDE DEF d, op
  <2>4. c \in Low(D) /\ Len(c.got) = Len(d.got) + Width /\ c.deaf = d.deaf
    BY <2>2, GetLowBus
  <2> HIDE DEF c
  <2>5. Len(c.got) = Len(b.got) + (j + 1) * Width
    <3> DEFINE l == Len(b.got)
               m == Len(d.got)
    <3>1. l \in Nat /\ m = l + j * Width /\ Len(c.got) = m + Width
      BY <1>4, <2>2, <2>4
    <3> HIDE DEF l, m
    <3>2. (j + 1) * Width = j * Width + Width
      BY <1>4, <2>1
    <3>3. j * Width \in Nat
      BY <1>4, <2>1
    <3> DEFINE x == j * Width
    <3> HIDE DEF x
    <3>4. Len(c.got) = l + (x + Width)
      BY <1>4, <3>1, <3>3 DEF x
    <3>5. QED BY <3>2, <3>4 DEF l, x
  <2>6. Good(c, j + 1)
    BY <2>2, <2>4, <2>5
  <2>7. QED BY <2>1, <2>3, <2>6
<1>7. n \in T
  <2>1. n \in Nat
    OBVIOUS
  <2> HIDE DEF T, n
  <2>2. 0 .. n \subseteq T
    BY <1>5, <1>6, <2>1, CountUp
  <2>3. QED BY <2>1, <2>2
<1>8. Good(r[n], n)
  BY <1>7
<1>9. QED BY <1>3, <1>8

(* An address put leaves one.                                              *)
LEMMA SelectsLow ==
  ASSUME NEW b \in Rest(Addr), NEW at \in Nat
  PROVE  LET c == After(b, Selects(at)) IN c \in Low(Addr) /\ Len(c.got) = Len(b.got) + 3 /\ c.deaf = b.deaf
<1> DEFINE p == at \div Byte
           q == at % Byte
           s == Performed(b, mi2c_start)
           t == Performed(s, mi2c_put_byte(2 * Device))
           u == Performed(t, mi2c_put_byte(p))
           v == Performed(u, mi2c_put_byte(q))
<1>1. After(b, Selects(at)) = v
  BY AfterFour DEF Selects
<1>2. p \in Nat /\ q \in Nat /\ 2 * Device \in Nat
  <2>1. Byte \in Nat /\ Byte > 1
    BY Powers
  <2> DEFINE m == Byte
  <2> HIDE DEF m
  <2>2. at \div m \in Nat /\ at % m \in Nat
    BY <2>1 DEF m
  <2>3. QED BY <2>2, Addressed DEF m
<1> HIDE DEF p, q
<1>3. b \in Chip(Addr) /\ Addr \subseteq Int /\ Len(b.got) \in Nat
  BY AddrInt, GotLen DEF Rest
<1>4. s \in Chip(Addr) /\ s.scl = 0 /\ s.got = b.got /\ s.deaf = b.deaf
  BY <1>3, StartFrom, StartGot
<1> HIDE DEF s
<1>5. t \in Low(Addr) /\ Len(t.got) = Len(s.got) + 1 /\ t.deaf = s.deaf
  BY <1>2, <1>3, <1>4, PutLowBus
<1> HIDE DEF t
<1>6. t \in Chip(Addr) /\ t.scl = 0
  BY <1>5 DEF Low
<1>7. u \in Low(Addr) /\ Len(u.got) = Len(t.got) + 1 /\ u.deaf = t.deaf
  BY <1>2, <1>3, <1>6, PutLowBus
<1> HIDE DEF u
<1>8. u \in Chip(Addr) /\ u.scl = 0
  BY <1>7 DEF Low
<1>9. v \in Low(Addr) /\ Len(v.got) = Len(u.got) + 1 /\ v.deaf = u.deaf
  BY <1>2, <1>3, <1>8, PutLowBus
<1> HIDE DEF v
<1>10. Len(v.got) = Len(b.got) + 3
  BY <1>3, <1>4, <1>5, <1>7, <1>9
<1>11. QED BY <1>1, <1>4, <1>5, <1>7, <1>9, <1>10

(* The bytes of a transfer are events.                                     *)
LEMMA SelectsSeq == ASSUME NEW at \in Nat PROVE Selects(at) \in Seq(Seq(Event))
<1> DEFINE p == at \div Byte
           q == at % Byte
<1>1. p \in Nat /\ q \in Nat /\ 2 * Device \in Nat
  <2>1. Byte \in Nat /\ Byte > 1
    BY Powers
  <2> DEFINE m == Byte
  <2> HIDE DEF m
  <2>2. at \div m \in Nat /\ at % m \in Nat
    BY <2>1 DEF m
  <2>3. QED BY <2>2, Addressed DEF m
<1> HIDE DEF p, q
<1>2. mi2c_start \in Seq(Event) /\ mi2c_put_byte(2 * Device) \in Seq(Event) /\ mi2c_put_byte(p) \in Seq(Event)
      /\ mi2c_put_byte(q) \in Seq(Event)
  BY <1>1, Operations
<1> DEFINE O == Seq(Event)
           e == mi2c_start
           f == mi2c_put_byte(2 * Device)
           g == mi2c_put_byte(p)
           h == mi2c_put_byte(q)
<1>3. e \in O /\ f \in O /\ g \in O /\ h \in O
  BY <1>2
<1>4. Selects(at) = << e, f, g, h >>
  BY DEF Selects, p, q
<1> HIDE DEF O, e, f, g, h
<1>5. << e, f, g, h >> \in Seq(O)
  BY <1>3
<1>6. QED BY <1>4, <1>5 DEF O

(* Two operations are a sequence of them.                                  *)
LEMMA PairSeq == ASSUME NEW e \in Seq(Event), NEW f \in Seq(Event) PROVE << e, f >> \in Seq(Seq(Event)) /\ << e >> \in Seq(Seq(Event))
<1> DEFINE O == Seq(Event)
<1>1. e \in O /\ f \in O
  OBVIOUS
<1> HIDE DEF O
<1>2. << e, f >> \in Seq(O) /\ << e >> \in Seq(O)
  BY <1>1
<1>3. QED BY <1>2 DEF O

(* Sequences one after the other.                                          *)
LEMMA CatSeq == ASSUME NEW S, NEW s \in Seq(S), NEW t \in Seq(S) PROVE s \o t \in Seq(S)
OBVIOUS

(* Bytes got are operations.                                               *)
LEMMA GetsSeq ==
  ASSUME NEW n \in Nat
  PROVE  LET ops == [i \in 1 .. n |-> mi2c_get_byte(i = n)] IN
         /\ ops \in Seq(Seq(Event)) /\ Len(ops) = n
         /\ \A i \in 1 .. n : ops[i] \in { mi2c_get_byte(last) : last \in BOOLEAN }
<1> DEFINE O == Seq(Event)
           G == { mi2c_get_byte(last) : last \in BOOLEAN }
           ops == [i \in 1 .. n |-> mi2c_get_byte(i = n)]
<1>1. \A i \in 1 .. n : mi2c_get_byte(i = n) \in G
  OBVIOUS
<1>2. \A op \in G : op \in O
  BY Operations
<1>3. \A i \in 1 .. n : ops[i] \in G /\ ops[i] \in O
  BY <1>1, <1>2
<1>4. ops = [i \in 1 .. n |-> ops[i]]
  OBVIOUS
<1> HIDE DEF G, O, ops
<1>5. ops \in Seq(O) /\ Len(ops) = n
  BY <1>3, <1>4
<1>6. QED BY <1>3, <1>5 DEF G, O, ops

(* A write is made of operations.                                          *)
LEMMA WriteSeq == ASSUME NEW at \in Nat, NEW v \in Nat PROVE eeprom_write(at, v) \in Seq(Seq(Event))
<1> DEFINE s == Selects(at)
           t == << mi2c_put_byte(v), mi2c_stop >>
<1>1. s \in Seq(Seq(Event))
  BY SelectsSeq
<1>2. t \in Seq(Seq(Event))
  <2>1. mi2c_put_byte(v) \in Seq(Event) /\ mi2c_stop \in Seq(Event)
    BY Operations
  <2>2. QED BY <2>1, PairSeq
<1>3. eeprom_write(at, v) = s \o t
  BY DEF eeprom_write
<1> HIDE DEF s, t
<1>4. QED BY <1>1, <1>2, <1>3, CatSeq

(* From writing to reading.                                                *)
Turn == << mi2c_repeat_start, mi2c_put_byte(2 * Device + 1) >>

(* The bytes of a read.                                                    *)
Gets(n) == [i \in 1 .. n |-> mi2c_get_byte(i = n)]

(* A read by its parts.                                                    *)
LEMMA ReadParts ==
  ASSUME NEW at \in Nat, NEW n \in Nat
  PROVE  /\ Selects(at) \in Seq(Seq(Event)) /\ Turn \in Seq(Seq(Event)) /\ Gets(n) \in Seq(Seq(Event))
         /\ << mi2c_stop >> \in Seq(Seq(Event))
         /\ eeprom_read(at, n) = ((Selects(at) \o Turn) \o Gets(n)) \o << mi2c_stop >>
<1>1. Selects(at) \in Seq(Seq(Event))
  BY SelectsSeq
<1>2. Turn \in Seq(Seq(Event)) /\ << mi2c_stop >> \in Seq(Seq(Event))
  <2>0. 2 * Device + 1 \in Nat
    BY Addressed
  <2>1. mi2c_put_byte(2 * Device + 1) \in Seq(Event) /\ mi2c_stop \in Seq(Event) /\ mi2c_repeat_start \in Seq(Event)
    BY <2>0, Operations
  <2>2. QED BY <2>1, PairSeq DEF Turn
<1>3. Gets(n) \in Seq(Seq(Event))
  BY GetsSeq DEF Gets
<1>4. eeprom_read(at, n) = ((Selects(at) \o Turn) \o Gets(n)) \o << mi2c_stop >>
  BY DEF eeprom_read, Turn, Gets
<1>5. QED BY <1>1, <1>2, <1>3, <1>4

(* A read is made of operations.                                           *)
LEMMA ReadSeq == ASSUME NEW at \in Nat, NEW n \in Nat PROVE eeprom_read(at, n) \in Seq(Seq(Event))
<1> DEFINE O == Seq(Event)
           s == Selects(at)
           u == Gets(n)
           v == << mi2c_stop >>
<1>1. s \in Seq(O) /\ Turn \in Seq(O) /\ u \in Seq(O) /\ v \in Seq(O) /\ eeprom_read(at, n) = ((s \o Turn) \o u) \o v
  BY ReadParts
<1> HIDE DEF O, s, u, v
<1>2. s \o Turn \in Seq(O)
  BY <1>1, CatSeq
<1> DEFINE y == s \o Turn
<1> HIDE DEF y
<1>3. y \o u \in Seq(O)
  BY <1>1, <1>2, CatSeq DEF y
<1> DEFINE z == y \o u
<1> HIDE DEF z
<1>4. z \o v \in Seq(O)
  BY <1>1, <1>3, CatSeq DEF z
<1>5. QED BY <1>1, <1>4 DEF O, y, z

(* A byte stored, and bytes read.                                          *)
LEMMA WriteRest ==
  ASSUME NEW b \in Rest(Addr), NEW at \in Nat, NEW v \in Nat
  PROVE  After(b, eeprom_write(at, v)) \in Rest(Addr)
<1> DEFINE s == Selects(at)
           t == << mi2c_put_byte(v), mi2c_stop >>
           c == After(b, s)
           d == Performed(c, mi2c_put_byte(v))
<1>1. s \in Seq(Seq(Event))
  BY SelectsSeq
<1>2. t \in Seq(Seq(Event))
  <2>1. mi2c_put_byte(v) \in Seq(Event) /\ mi2c_stop \in Seq(Event)
    BY Operations
  <2>2. QED BY <2>1, PairSeq
<1>3. After(b, eeprom_write(at, v)) = After(c, t)
  <2>1. eeprom_write(at, v) = s \o t
    BY DEF eeprom_write
  <2> HIDE DEF s, t
  <2>2. QED BY <1>1, <1>2, <2>1, AfterCat
<1>4. c \in Low(Addr)
  BY SelectsLow
<1>5. After(c, t) = Performed(d, mi2c_stop)
  BY AfterTwo
<1> HIDE DEF c
<1>6. d \in Low(Addr)
  <2>1. c \in Chip(Addr) /\ c.scl = 0 /\ Addr \subseteq Int
    BY <1>4, AddrInt DEF Low
  <2>2. QED BY <2>1, PutLowBus
<1> HIDE DEF d
<1>7. Performed(d, mi2c_stop) \in Rest(Addr)
  BY <1>6, AddrInt, StopTo DEF Low
<1>8. QED BY <1>3, <1>5, <1>7

(* A read leaves the bus between transfers, with its bits in their places. *)
LEMMA ReadRest ==
  ASSUME NEW b \in Rest(Addr), NEW at \in Nat, NEW n \in Nat
  PROVE  After(b, eeprom_read(at, n)) \in Rest(Addr) /\ Len(After(b, eeprom_read(at, n)).got) = Len(b.got) + 4 + n * Width
<1> DEFINE s == Selects(at)
           t == Turn
           u == Gets(n)
           v == << mi2c_stop >>
           bs == After(b, s)
           bt == After(bs, t)
           bu == After(bt, u)
           bv == After(bu, v)
<1>2. After(b, eeprom_read(at, n)) = bv
  <2> DEFINE O == Seq(Event)
             y == s \o t
             z == y \o u
  <2>1. s \in Seq(O) /\ t \in Seq(O) /\ u \in Seq(O) /\ v \in Seq(O) /\ eeprom_read(at, n) = z \o v
    BY ReadParts
  <2> HIDE DEF O, s, t, u, v
  <2>2. After(b, y) = After(After(b, s), t) /\ y \in Seq(O)
    BY <2>1, AfterCat
  <2> HIDE DEF y
  <2>3. After(b, z) = After(After(b, y), u) /\ z \in Seq(O)
    BY <2>1, <2>2, AfterCat
  <2> HIDE DEF z
  <2>4. After(b, z \o v) = After(After(b, z), v)
    BY <2>1, <2>3, AfterCat
  <2>5. QED BY <2>1, <2>2, <2>3, <2>4
<1>3. bs \in Low(Addr) /\ Len(bs.got) = Len(b.got) + 3 /\ Len(b.got) \in Nat /\ Addr \subseteq Int
  BY SelectsLow, AddrInt, GotLen DEF Rest
<1> HIDE DEF bs
<1>4. bt \in Low(Addr) /\ Len(bt.got) = Len(bs.got) + 1
  <2> DEFINE c == Performed(bs, mi2c_repeat_start)
             data == 2 * Device + 1
  <2>1. bt = Performed(c, mi2c_put_byte(data))
    BY AfterTwo DEF Turn
  <2>2. bs \in Chip(Addr) /\ bs.scl = 0
    BY <1>3 DEF Low
  <2>3. c \in Chip(Addr) /\ c.scl = 0 /\ c.got = bs.got
    BY <1>3, <2>2, RepeatStart, RepeatGot
  <2>4. data \in Nat
    BY Addressed
  <2> HIDE DEF c, data, bt
  <2>5. QED BY <1>3, <2>1, <2>3, <2>4, PutLowBus
<1> HIDE DEF bt
<1>5. bu \in Low(Addr) /\ Len(bu.got) = Len(bt.got) + n * Width
  <2>1. Len(u) = n /\ \A i \in 1 .. n : u[i] \in { mi2c_get_byte(last) : last \in BOOLEAN }
    BY GetsSeq DEF Gets
  <2>2. LET c == After(bt, u) IN c \in Low(Addr) /\ Len(c.got) = Len(bt.got) + Len(u) * Width /\ c.deaf = bt.deaf
    BY <1>3, <1>4, <2>1, GetsLowBus
  <2>3. QED BY <2>1, <2>2
<1> HIDE DEF bu
<1>6. bv \in Rest(Addr) /\ bv.got = bu.got
  <2>1. bu \in Chip(Addr) /\ bu.scl = 0 /\ bu.mode # "device"
    BY <1>5 DEF Low
  <2>2. bv = Performed(bu, mi2c_stop)
    BY AfterOne
  <2> HIDE DEF bv
  <2>3. QED BY <1>3, <2>1, <2>2, StopTo, StopGot
<1> HIDE DEF bv
<1>7. Len(bv.got) = Len(b.got) + 4 + n * Width
  <2> DEFINE l == Len(b.got)
             x == n * Width
  <2>1. l \in Nat /\ x \in Nat
    BY <1>3, Powers
  <2>2. Len(bv.got) = l + 3 + 1 + x
    BY <1>3, <1>4, <1>5, <1>6
  <2> HIDE DEF l, x
  <2>3. Len(bv.got) = l + 4 + x
    BY <2>1, <2>2
  <2>4. QED BY <2>3 DEF l, x
<1>8. QED BY <1>2, <1>6, <1>7

(* What it returns are bytes.                                              *)
LEMMA BytesIn ==
  ASSUME NEW b \in Ready, NEW x \in BOOLEAN, NEW at \in Nat, NEW n \in Nat, NEW c, c = After([b EXCEPT !.deaf = x], eeprom_read(at, n))
  PROVE  c \in Rest(Addr) /\ BytesOf(c, n) \in [1 .. n -> 0 .. Blank]
<1> DEFINE a == [b EXCEPT !.deaf = x]
<1>1. a \in Rest(Addr) /\ a.got = << >>
  <2>1. b \in Rest(Addr) /\ b \in Chip(Addr) /\ b \in Lines(Addr) /\ b.got = << >>
    BY DEF Ready, Rest, Chip, Bus
  <2>2. a \in Lines(Addr) /\ Alike(b, a) /\ a.got = b.got
    BY <2>1 DEF Lines, Alike
  <2> HIDE DEF a
  <2>3. QED BY <2>1, <2>2, ChipAlike
<1> HIDE DEF a
<1>2. c \in Rest(Addr) /\ Len(c.got) = 4 + n * Width
  <2>1. c \in Rest(Addr) /\ Len(c.got) = Len(a.got) + 4 + n * Width
    BY <1>1, ReadRest DEF a
  <2>2. Len(a.got) = 0
    BY <1>1
  <2> DEFINE m == n * Width
  <2>3. m \in Nat
    BY Powers
  <2> HIDE DEF m
  <2>4. Len(a.got) + 4 + m = 4 + m
    BY <2>2, <2>3
  <2>5. QED BY <2>1, <2>4 DEF m
<1>3. c.got \in Seq({0, 1})
  BY <1>2 DEF Rest, Chip, Bus, Lines
<1>4. ASSUME NEW i \in 1 .. n PROVE ByteFrom(c.got, 5 + (i - 1) * Width) \in 0 .. Blank
  <2> DEFINE first == 5 + (i - 1) * Width
  <2>1. ASSUME NEW k \in 1 .. Width PROVE c.got[first + k - 1] \in {0, 1}
    <3> DEFINE g == c.got
               j == first + k - 1
    <3>1. j \in 1 .. 4 + n * Width
      <4>1. i * Width <= n * Width /\ (i - 1) * Width = i * Width - Width /\ (i - 1) * Width \in Nat /\ Width \in Nat
            /\ n * Width \in Nat /\ i * Width \in Nat
        BY Powers
      <4> DEFINE y == (i - 1) * Width
                 z == n * Width
                 w == i * Width
      <4>2. w <= z /\ y = w - Width /\ y \in Nat /\ z \in Nat /\ w \in Nat /\ Width \in Nat
        BY <4>1
      <4> HIDE DEF y, z, w
      <4>3. 5 + y + k - 1 \in 1 .. 4 + z
        BY <4>2
      <4>4. QED BY <4>3 DEF y, z
    <3>2. g \in Seq({0, 1}) /\ j \in 1 .. Len(g)
      BY <1>2, <1>3, <3>1
    <3> HIDE DEF g, j
    <3>3. g[j] \in {0, 1}
      <4> DEFINE A == {0, 1}
      <4>1. g \in Seq(A)
        BY <3>2
      <4> HIDE DEF A
      <4>2. g[j] \in A
        BY <3>2, <4>1
      <4>3. QED BY <4>2 DEF A
    <3>4. QED BY <3>3 DEF g, j
  <2> HIDE DEF first
  <2>2. ByteFrom(c.got, first) \in 0 .. Blank
    BY <2>1, ByteFromIn
  <2>3. QED BY <2>2 DEF first
<1>5. BytesOf(c, n) \in [1 .. n -> 0 .. Blank]
  BY <1>4 DEF BytesOf
<1>6. QED BY <1>2, <1>5

(* One probe: the chip is between transfers behind it, and nothing but the *)
(* answer has been read.                                                   *)
LEMMA Probed ==
  ASSUME NEW b \in Chip(Addr), NEW y, y \in BOOLEAN
  PROVE  LET c == After([b EXCEPT !.got = << >>, !.busy = y], mi2c_devprobe(Device)) IN
         /\ c \in Rest(Addr) /\ c.deaf = b.deaf
         /\ b \in Rest(Addr) =>
              /\ b.mode = "idle" => c.mode = "idle"
              /\ c.mode = "idle" \/ (b.mode = "send" /\ c.mode = "send" /\ c.n = b.n + 1)
              /\ b.mode = "idle" /\ y = FALSE /\ b.deaf = FALSE => Acknowledged(c)
<1> DEFINE a == [b EXCEPT !.got = << >>, !.busy = y]
           c == After(a, mi2c_devprobe(Device))
<1>1. a \in Lines(Addr) /\ Alike(b, a) /\ a.busy = y /\ a.deaf = b.deaf
  <2>1. b \in Lines(Addr) /\ << >> \in Seq({0, 1})
    BY DEF Chip, Bus
  <2>2. QED BY <2>1 DEF Lines, Alike
<1> HIDE DEF a
<1>2. a \in Chip(Addr) /\ (b \in Rest(Addr) => a \in Rest(Addr)) /\ Addr \subseteq Int
  BY <1>1, ChipAlike, AddrInt
<1>3. c \in Rest(Addr) /\ c.deaf = a.deaf
  <2>1. Device \in Nat
    BY Addressed
  <2>2. QED BY <1>2, <2>1, ProbeChip
<1>4. ASSUME b \in Rest(Addr)
      PROVE  /\ a.mode = "idle" => c.mode = "idle"
             /\ c.mode = "idle" \/ (a.mode = "send" /\ c.mode = "send" /\ c.n = a.n + 1)
  BY <1>2, <1>4, ProbeRest
<1>5. ASSUME b \in Rest(Addr), b.mode = "idle", y = FALSE, b.deaf = FALSE PROVE Acknowledged(c)
  <2>1. a.mode = "idle" /\ ~a.busy /\ ~a.deaf /\ a \in Rest(Addr)
    BY <1>1, <1>2, <1>5 DEF Alike
  <2>2. QED BY <1>2, <2>1, ProbeFree
<1> HIDE DEF c
<1>6. a.mode = b.mode /\ a.n = b.n
  BY <1>1 DEF Alike
<1>7. QED BY <1>1, <1>3, <1>4, <1>5, <1>6 DEF c, a

(* Two of them.                                                            *)
LEMMA PresentIs ==
  ASSUME NEW b, NEW done
  PROVE  eeprom_present(b, done)
         = IF Acknowledged(Probe(b, done <= 1)) THEN Probe(b, done <= 1) ELSE Probe(Probe(b, done <= 1), done <= 2)
<1> DEFINE f == Probe(b, done <= 1)
           g == IF Acknowledged(f) THEN f ELSE Probe(f, done <= 2)
<1>1. { IF Acknowledged(first) THEN first ELSE Probe(first, done <= 2) : first \in {f} } = {g}
  OBVIOUS
<1>2. eeprom_present(b, done) = The({ IF Acknowledged(first) THEN first ELSE Probe(first, done <= 2) : first \in {f} })
  BY DEF eeprom_present
<1> HIDE DEF f, g
<1>3. QED BY <1>1, <1>2, OnlyOne DEF f, g

(* A chip is done or not, and listens or not.                              *)
LEMMA ChipBusy == ASSUME NEW b \in Chip(Addr) PROVE b.busy \in BOOLEAN /\ b.deaf \in BOOLEAN
BY DEF Chip, Bus, Lines

(* A probe leaves the bus between transfers ...                            *)
LEMMA ProbeIn ==
  ASSUME NEW b \in Chip(Addr), NEW p, p \in BOOLEAN
  PROVE  Probe(b, p) \in Rest(Addr) /\ Probe(b, p).deaf = b.deaf
<1> DEFINE y == b.busy /\ ~p
<1>1. y \in BOOLEAN
  OBVIOUS
<1>2. Probe(b, p) = After([b EXCEPT !.got = << >>, !.busy = y], mi2c_devprobe(Device))
  BY DEF Probe
<1> HIDE DEF y
<1>3. QED BY <1>1, <1>2, Probed

(* ... and so does a search for the chip ...                               *)
LEMMA PresentIn ==
  ASSUME NEW b \in Chip(Addr), NEW done
  PROVE  eeprom_present(b, done) \in Rest(Addr) /\ eeprom_present(b, done).deaf = b.deaf
<1> DEFINE f == Probe(b, done <= 1)
           g == Probe(f, done <= 2)
           y == b.busy /\ ~(done <= 1)
           z == f.busy /\ ~(done <= 2)
<1>1. y \in BOOLEAN /\ f = After([b EXCEPT !.got = << >>, !.busy = y], mi2c_devprobe(Device))
  BY DEF Probe
<1>2. eeprom_present(b, done) = IF Acknowledged(f) THEN f ELSE g
  BY PresentIs
<1> HIDE DEF y
<1>3. f \in Rest(Addr) /\ f.deaf = b.deaf
  <2> HIDE DEF f
  <2>1. QED BY <1>1, Probed
<1> HIDE DEF f
<1>4. z \in BOOLEAN /\ g = After([f EXCEPT !.got = << >>, !.busy = z], mi2c_devprobe(Device))
  BY DEF Probe
<1> HIDE DEF z
<1>5. g \in Rest(Addr) /\ g.deaf = b.deaf
  <2>1. f \in Chip(Addr)
    BY <1>3 DEF Rest
  <2> HIDE DEF g
  <2>2. QED BY <1>3, <1>4, <2>1, Probed
<1>6. QED BY <1>2, <1>3, <1>5

(* ... and the wait for it.                                                *)
LEMMA WaitedIn ==
  ASSUME NEW b \in Chip(Addr)
  PROVE  Waited(b) \in Rest(Addr)
<1> DEFINE f == Probe(b, TRUE)
           g == Probe(f, TRUE)
           h == IF Acknowledged(f) THEN f ELSE g
<1>1. Waited(b) = h
  <2>1. { IF Acknowledged(first) THEN first ELSE Probe(first, TRUE) : first \in {f} } = {h}
    OBVIOUS
  <2>2. Waited(b) = The({ IF Acknowledged(first) THEN first ELSE Probe(first, TRUE) : first \in {f} })
    BY DEF Waited
  <2> HIDE DEF f, h
  <2>3. QED BY <2>1, <2>2, OnlyOne
<1>2. f \in Rest(Addr)
  BY ProbeIn
<1> HIDE DEF f
<1>3. g \in Rest(Addr)
  <2>1. f \in Chip(Addr)
    BY <1>2 DEF Rest
  <2>2. QED BY <2>1, ProbeIn
<1>4. QED BY <1>1, <1>2, <1>3

(* The bytes of a call, with their addresses.                              *)
Job == Nat \X (0 .. Blank)

(* A byte has room for the marks of a script.                              *)
LEMMA Sizes == Byte \in Nat /\ Byte > 4 /\ Blank \in Nat /\ Blank = Byte - 1 /\ Space \in 0 .. Blank /\ NewLine \in 0 .. Blank
<1>1. Width - 1 \in 0 .. Width - 1 /\ Width - 2 \in 0 .. Width - 1 /\ Width - 3 \in 0 .. Width
      /\ (Width - 1) + 1 = Width /\ (Width - 2) + 1 = Width - 1 /\ (Width - 3) + 1 = Width - 2 /\ Width - 3 \in 0 .. Width - 1
  BY LayoutAssumption
<1> DEFINE p == 2 ^ (Width - 3)
<1>2. p \in Nat /\ p > 0
  BY <1>1, Powers
<1>3. 2 ^ (Width - 2) = 2 * p
  BY <1>1, Powers
<1>4. 2 ^ (Width - 1) = 2 * 2 ^ (Width - 2)
  BY <1>1, Powers
<1>5. Byte = 2 * 2 ^ (Width - 1)
  BY <1>1, Powers DEF Byte
<1> DEFINE q == 2 ^ (Width - 2)
           r == 2 ^ (Width - 1)
<1>6. q = 2 * p /\ r = 2 * q /\ Byte = 2 * r
  BY <1>3, <1>4, <1>5
<1> HIDE DEF p, q, r
<1>7. Byte >= 8
  BY <1>2, <1>6
<1>8. QED BY <1>7, Powers DEF Space, NewLine

(* The writes of a call are bytes with their addresses.                    *)
LEMMA WritesIn ==
  ASSUME NEW at \in Nat, NEW bytes \in Seq(0 .. Blank)
  PROVE  Writes(at, bytes) \in Seq(Job)
<1> DEFINE n == Len(bytes)
           w == [i \in 1 .. n |-> << at + i - 1, bytes[i] >>]
           A == 0 .. Blank
<1>1. n \in Nat /\ \A i \in 1 .. n : bytes[i] \in A
  <2>1. bytes \in Seq(A)
    OBVIOUS
  <2> HIDE DEF A
  <2>2. QED BY <2>1
<1>2. \A i \in 1 .. n : at + i - 1 \in Nat
  BY <1>1
<1>3. \A i \in 1 .. n : w[i] \in Job
  BY <1>1, <1>2 DEF Job
<1>4. w = [i \in 1 .. n |-> w[i]]
  OBVIOUS
<1> HIDE DEF w, n
<1>5. w \in Seq(Job)
  BY <1>1, <1>3, <1>4
<1>6. QED BY <1>5 DEF Writes, w, n

(* One byte and two.                                                       *)
LEMMA OneByte == ASSUME NEW v \in 0 .. Blank, NEW u \in 0 .. Blank PROVE << v >> \in Seq(0 .. Blank) /\ << v, u >> \in Seq(0 .. Blank)
<1> DEFINE A == 0 .. Blank
<1>1. v \in A /\ u \in A
  OBVIOUS
<1> HIDE DEF A
<1>2. << v >> \in Seq(A) /\ << v, u >> \in Seq(A)
  BY <1>1
<1>3. QED BY <1>2 DEF A

(* The lower byte of a number.                                             *)
LEMMA ModIn == ASSUME NEW n \in Nat PROVE n % Byte \in 0 .. Blank /\ n \div Byte \in Nat
<1> DEFINE m == Byte
<1>1. m \in Nat /\ m > 0 /\ Blank = m - 1
  BY Sizes
<1> HIDE DEF m
<1>2. n % m \in 0 .. m - 1 /\ n \div m \in Nat
  BY <1>1
<1>3. QED BY <1>1, <1>2 DEF m

(* A number in two bytes.                                                  *)
LEMMA Bytes16In == ASSUME NEW n \in Nat PROVE Bytes16(n) \in Seq(0 .. Blank)
<1>1. n \div Byte \in Nat /\ n % Byte \in 0 .. Blank
  BY ModIn
<1>2. (n \div Byte) % Byte \in 0 .. Blank
  BY <1>1, ModIn
<1>3. QED BY <1>1, <1>2, OneByte DEF Bytes16

(* The bases are addresses.                                                *)
LEMMA Bases == EE_BASE_SFP \in Nat /\ EE_BASE_INIT \in Nat /\ \A i \in Nat : RecordAt(i) \in Nat
<1>1. EE_BASE_SFP \in Nat /\ EE_BASE_INIT \in Nat
  BY AddrInt
<1>2. ASSUME NEW i \in Nat PROVE RecordAt(i) \in Nat
  BY <1>1 DEF RecordAt, RecLen
<1>3. QED BY <1>1, <1>2

(* The writes of a new entry.                                              *)
LEMMA AddedSfpIn ==
  ASSUME NEW sfp \in 0 .. Blank, NEW n \in 0 .. Blank
  PROVE  AddedSfp(sfp, n) \in Seq(Job)
<1>1. n \in Nat /\ sfp \in Nat
  BY Sizes
<1>2. Checksum(sfp) \in 0 .. Blank /\ NextCount(n) \in 0 .. Blank
  <2>1. n + 1 \in Nat
    BY <1>1
  <2>2. QED BY <1>1, <2>1, ModIn DEF Checksum, NextCount
<1>3. Writes(RecordAt(n), << sfp, Checksum(sfp) >>) \in Seq(Job)
  BY <1>1, <1>2, OneByte, WritesIn, Bases
<1>4. Writes(EE_BASE_SFP, << NextCount(n) >>) \in Seq(Job)
  BY <1>2, OneByte, WritesIn, Bases
<1>5. << >> \in Seq(Job)
  OBVIOUS
<1>6. Writes(RecordAt(n), << sfp, Checksum(sfp) >>) \o Writes(EE_BASE_SFP, << NextCount(n) >>) \in Seq(Job)
  BY <1>3, <1>4, CatSeq
<1>7. QED BY <1>5, <1>6 DEF AddedSfp

(* The writes of a purge.                                                  *)
LEMMA PurgedIn == ASSUME NEW used \in Nat PROVE Purged(used) \in Seq(Job)
<1> DEFINE k == IF used > Room THEN Room ELSE used
           z == [i \in 1 .. k |-> 0]
<1>1. k \in Nat
  BY LayoutAssumption
<1> HIDE DEF k
<1>2. z \in Seq(0 .. Blank)
  <2>1. 0 \in 0 .. Blank
    BY Sizes
  <2>2. QED BY <1>1, <2>1
<1> HIDE DEF z
<1>3. EE_BASE_INIT + 2 \in Nat
  BY Bases
<1>4. Writes(EE_BASE_INIT + 2, z) \in Seq(Job)
  BY <1>2, <1>3, WritesIn
<1>5. BlankSize \in Nat
  BY Sizes DEF BlankSize
<1>6. Writes(EE_BASE_INIT, Bytes16(BlankSize)) \in Seq(Job)
  BY <1>5, Bytes16In, WritesIn, Bases
<1>7. QED BY <1>4, <1>6, CatSeq DEF Purged, z, k

(* The words of a command, with their separators.                          *)
LEMMA SeparatedIn ==
  ASSUME NEW words \in Seq(0 .. Blank)
  PROVE  Separated(words) \in Seq(0 .. Blank) /\ Len(Separated(words)) = 2 * Len(words)
<1> DEFINE n == Len(words)
           A == 0 .. Blank
           w == [i \in 1 .. 2 * n |-> IF i % 2 = 1 THEN words[i \div 2 + 1] ELSE Space]
<1>1. n \in Nat /\ \A i \in 1 .. n : words[i] \in A
  <2>1. words \in Seq(A)
    OBVIOUS
  <2> HIDE DEF A
  <2>2. QED BY <2>1
<1>2. ASSUME NEW i \in 1 .. 2 * n, i % 2 = 1 PROVE i \div 2 + 1 \in 1 .. n
  BY <1>1, <1>2
<1>3. Space \in A
  BY Sizes
<1> HIDE DEF A
<1>4. \A i \in 1 .. 2 * n : w[i] \in A
  BY <1>1, <1>2, <1>3
<1>5. w = [i \in 1 .. 2 * n |-> w[i]] /\ 2 * n \in Nat
  BY <1>1
<1> HIDE DEF w, n
<1>6. w \in Seq(A) /\ Len(w) = 2 * n
  BY <1>4, <1>5
<1>7. QED BY <1>6 DEF Separated, w, n, A

(* The writes of a new command.                                            *)
LEMMA AddedCommandIn ==
  ASSUME NEW words \in Seq(0 .. Blank), NEW used \in Nat
  PROVE  AddedCommand(words, used) \in Seq(Job)
<1> DEFINE text == Separated(words)
           n == Len(text)
           x == Writes(EE_BASE_INIT + 2 + used, text)
           y == Writes(EE_BASE_INIT + 1 + used + n, << NewLine >>)
           z == Writes(EE_BASE_INIT, Bytes16(used + n))
<1>1. text \in Seq(0 .. Blank)
  BY SeparatedIn
<1> HIDE DEF text
<1>2. n \in Nat
  BY <1>1
<1> HIDE DEF n
<1>3. EE_BASE_INIT + 2 + used \in Nat /\ EE_BASE_INIT + 1 + used + n \in Nat /\ used + n \in Nat
  BY <1>2, Bases
<1>4. x \in Seq(Job)
  BY <1>1, <1>3, WritesIn
<1>5. y \in Seq(Job)
  BY <1>3, OneByte, Sizes, WritesIn
<1>6. z \in Seq(Job)
  BY <1>3, Bytes16In, Bases, WritesIn
<1>7. AddedCommand(words, used) = (x \o y) \o z
  BY DEF AddedCommand, text, n
<1> HIDE DEF x, y, z
<1>8. x \o y \in Seq(Job)
  BY <1>4, <1>5, CatSeq
<1> DEFINE v == x \o y
<1> HIDE DEF v
<1>9. v \o z \in Seq(Job)
  BY <1>6, <1>8, CatSeq DEF v
<1>10. QED BY <1>7, <1>9 DEF v

-----------------------------------------------------------------------------
(* Each step of the configuration memory.                                  *)

(* Between calls and between the bytes of a call, the bus is between       *)
(* transfers, and what there is to write are bytes.                        *)
IInv ==
  /\ bus \in Ready /\ has_eeprom \in BOOLEAN /\ todo \in Seq(Job)
  /\ lost \subseteq {"db", "script"} /\ faults \in 0 .. MaxFaults

(* Faults are counted.                                                     *)
LEMMA FaultIn ==
  ASSUME faults \in 0 .. MaxFaults
  PROVE  /\ Fault => faults' \in 0 .. MaxFaults
         /\ \A deaf \in BOOLEAN : Reaches(deaf) => faults' \in 0 .. MaxFaults
<1>1. MaxFaults \in Nat
  BY LayoutAssumption
<1>2. Fault => faults' \in 0 .. MaxFaults
  BY <1>1 DEF Fault
<1>3. ASSUME NEW deaf \in BOOLEAN, Reaches(deaf) PROVE faults' \in 0 .. MaxFaults
  BY <1>2, <1>3 DEF Reaches
<1>4. QED BY <1>2, <1>3

(* A call that only writes.                                                *)
LEMMA CallKeeps ==
  ASSUME IInv, NEW b \in Ready, NEW name, NEW w \in Seq(Job), Call(b, name, w)
  PROVE  IInv'
BY DEF IInv, Call

(* The chip asked, before anything else.                                   *)
LEMMA AskedReady ==
  ASSUME NEW b \in Ready
  PROVE  Quiet(Probe(b, TRUE)) \in Ready
<1>1. b \in Chip(Addr)
  BY DEF Ready, Rest
<1>2. Probe(b, TRUE) \in Rest(Addr)
  BY <1>1, ProbeIn
<1>3. QED BY <1>2, QuietReady

(* A call that reads first.                                                *)
LEMMA ReadReady ==
  ASSUME NEW b \in Ready, NEW deaf, deaf \in BOOLEAN, NEW at \in Nat, NEW n \in Nat
  PROVE  LET read == After([b EXCEPT !.deaf = deaf], eeprom_read(at, n)) IN
         Quiet(read) \in Ready /\ \A i \in 1 .. n : BytesOf(read, n)[i] \in 0 .. Blank
<1> DEFINE read == After([b EXCEPT !.deaf = deaf], eeprom_read(at, n))
<1>1. read \in Rest(Addr) /\ BytesOf(read, n) \in [1 .. n -> 0 .. Blank]
  BY BytesIn
<1> HIDE DEF read
<1>2. Quiet(read) \in Ready
  BY <1>1, QuietReady
<1>3. QED BY <1>1, <1>2 DEF read

(* The calls and the other steps, each.                                    *)
LEMMA SfpEraseKeeps == ASSUME IInv, SfpErase PROVE IInv'
<1>1. Writes(EE_BASE_SFP, << 0 >>) \in Seq(Job)
  <2>1. 0 \in 0 .. Blank
    BY Sizes
  <2>2. QED BY <2>1, OneByte, Bases, WritesIn
<1>2. bus \in Ready /\ Call(bus, "sfp erase", Writes(EE_BASE_SFP, << 0 >>))
  BY DEF IInv, SfpErase
<1>3. QED BY <1>1, <1>2, CallKeeps

(* The calibration value.                                                  *)
LEMMA PhTransKeeps == ASSUME IInv, PhTrans PROVE IInv'
<1>1. PICK v \in Cal : Call(bus, "calibration", Writes(0, [i \in 1 .. CalLen |-> v]))
  BY DEF PhTrans
<1> DEFINE w == [i \in 1 .. CalLen |-> v]
<1>2. w \in Seq(0 .. Blank)
  <2>1. v \in 0 .. Blank /\ CalLen \in Nat
    BY LayoutAssumption
  <2>2. QED BY <2>1
<1> HIDE DEF w
<1>3. Writes(0, w) \in Seq(Job)
  BY <1>2, WritesIn
<1>4. bus \in Ready
  BY DEF IInv
<1>5. QED BY <1>1, <1>3, <1>4, CallKeeps DEF w

(* Erasing the script.                                                     *)
LEMMA InitEraseKeeps == ASSUME IInv, InitErase PROVE IInv'
<1> DEFINE b == Probe(bus, TRUE)
           w == Writes(EE_BASE_INIT, Bytes16(0))
<1>1. w \in Seq(Job)
  BY Bytes16In, Bases, WritesIn
<1>2. bus \in Ready /\ Quiet(b) \in Ready
  BY AskedReady DEF IInv
<1>3. \/ Call(Quiet(b), "init erase", w)
      \/ bus' = Quiet(b) /\ UNCHANGED << has_eeprom, todo, job, lost, faults >>
  BY DEF InitErase, AfterProbe
<1>4. CASE Call(Quiet(b), "init erase", w)
  <2> HIDE DEF w, b
  <2>1. QED BY <1>1, <1>2, <1>4, CallKeeps
<1>5. CASE bus' = Quiet(b) /\ UNCHANGED << has_eeprom, todo, job, lost, faults >>
  <2> HIDE DEF b
  <2>1. QED BY <1>2, <1>5 DEF IInv
<1>6. QED BY <1>3, <1>4, <1>5

(* A new entry of the list.                                                *)
LEMMA SfpAddKeeps == ASSUME IInv, NEW deaf, deaf \in BOOLEAN, SfpAdd(deaf) PROVE IInv'
<1>1. PICK sfp \in Sfp : CallOn(bus, "sfp add", EE_BASE_SFP, 1, deaf, "db", LAMBDA bytes : AddedSfp(sfp, bytes[1]))
  BY DEF SfpAdd
<1> DEFINE read == After([bus EXCEPT !.deaf = deaf], eeprom_read(EE_BASE_SFP, 1))
<1>2. \/ /\ bus' = Quiet(read)
         /\ todo' = AddedSfp(sfp, BytesOf(read, 1)[1])
         /\ lost' \in {lost, lost \cup {"db"}}
         /\ Reaches(deaf) /\ UNCHANGED has_eeprom
      \/ bus' = bus /\ UNCHANGED << has_eeprom, todo, job, lost, faults >>
  BY <1>1 DEF CallOn
<1>3. bus \in Ready /\ EE_BASE_SFP \in Nat
  BY Bases DEF IInv
<1>4. Quiet(read) \in Ready /\ BytesOf(read, 1)[1] \in 0 .. Blank
  BY <1>3, ReadReady
<1> HIDE DEF read
<1>5. AddedSfp(sfp, BytesOf(read, 1)[1]) \in Seq(Job)
  <2>1. sfp \in 0 .. Blank
    BY LayoutAssumption
  <2>2. QED BY <1>4, <2>1, AddedSfpIn
<1>6. Reaches(deaf) => faults' \in 0 .. MaxFaults
  BY FaultIn DEF IInv
<1>7. QED BY <1>2, <1>4, <1>5, <1>6 DEF IInv

(* What is taken for the size of a script.                                 *)
LEMMA Word16In == ASSUME NEW bytes, \A i \in 1 .. 2 : bytes[i] \in 0 .. Blank PROVE UsedOf(Word16(bytes)) \in Nat
<1>1. bytes[1] \in Nat /\ bytes[2] \in Nat /\ Byte \in Nat
  BY Sizes
<1>2. Word16(bytes) \in Nat
  BY <1>1 DEF Word16
<1>3. QED BY <1>2 DEF UsedOf

(* A purge.                                                                *)
LEMMA InitPurgeKeeps == ASSUME IInv, NEW deaf, deaf \in BOOLEAN, InitPurge(deaf) PROVE IInv'
<1> DEFINE b == Quiet(Probe(bus, TRUE))
           read == After([b EXCEPT !.deaf = deaf], eeprom_read(EE_BASE_INIT, 2))
<1>1. b \in Ready /\ EE_BASE_INIT \in Nat
  BY AskedReady, Bases DEF IInv
<1>2. \/ /\ bus' = Quiet(read)
         /\ todo' = Purged(UsedOf(Word16(BytesOf(read, 2))))
         /\ lost' \in {lost, lost \cup {"script"}}
         /\ Reaches(deaf) /\ UNCHANGED has_eeprom
      \/ bus' = b /\ UNCHANGED << has_eeprom, todo, job, lost, faults >>
  BY DEF InitPurge, AfterProbe, CallOn
<1> HIDE DEF b
<1>3. Quiet(read) \in Ready /\ \A i \in 1 .. 2 : BytesOf(read, 2)[i] \in 0 .. Blank
  BY <1>1, ReadReady
<1> HIDE DEF read
<1>4. Purged(UsedOf(Word16(BytesOf(read, 2)))) \in Seq(Job)
  BY <1>3, Word16In, PurgedIn
<1>5. Reaches(deaf) => faults' \in 0 .. MaxFaults
  BY FaultIn DEF IInv
<1>6. QED BY <1>1, <1>2, <1>3, <1>4, <1>5 DEF IInv

(* A new command.                                                          *)
LEMMA InitAddKeeps == ASSUME IInv, NEW deaf, deaf \in BOOLEAN, InitAdd(deaf) PROVE IInv'
<1> DEFINE b == Quiet(Probe(bus, TRUE))
           read == After([b EXCEPT !.deaf = deaf], eeprom_read(EE_BASE_INIT, 2))
<1>1. b \in Ready /\ EE_BASE_INIT \in Nat
  BY AskedReady, Bases DEF IInv
<1>2. PICK words \in BoundedSeq(Name, MaxWords) :
        AfterProbe(LAMBDA c : CallOn(c, "init add", EE_BASE_INIT, 2, deaf, "script",
                                    LAMBDA bytes : AddedCommand(words, UsedOf(Word16(bytes)))))
  BY DEF InitAdd
<1>3. \/ /\ bus' = Quiet(read)
         /\ todo' = AddedCommand(words, UsedOf(Word16(BytesOf(read, 2))))
         /\ lost' \in {lost, lost \cup {"script"}}
         /\ Reaches(deaf) /\ UNCHANGED has_eeprom
      \/ bus' = b /\ UNCHANGED << has_eeprom, todo, job, lost, faults >>
  BY <1>2 DEF AfterProbe, CallOn
<1> HIDE DEF b
<1>4. Quiet(read) \in Ready /\ \A i \in 1 .. 2 : BytesOf(read, 2)[i] \in 0 .. Blank
  BY <1>1, ReadReady
<1> HIDE DEF read
<1>5. words \in Seq(0 .. Blank)
  <2>1. PICK m \in 0 .. MaxWords : words \in [1 .. m -> Name]
    BY DEF BoundedSeq, SeqOf
  <2>2. Name \subseteq 0 .. Blank
    BY LayoutAssumption, Sizes
  <2>3. m \in Nat
    BY LayoutAssumption
  <2> DEFINE A == 0 .. Blank
  <2>4. words = [i \in 1 .. m |-> words[i]] /\ \A i \in 1 .. m : words[i] \in A
    BY <2>1, <2>2
  <2> HIDE DEF A
  <2>5. words \in Seq(A)
    <3>1. [i \in 1 .. m |-> words[i]] \in Seq(A)
      BY <2>3, <2>4
    <3>2. QED BY <3>1, <2>4
  <2>6. QED BY <2>5 DEF A
<1>6. AddedCommand(words, UsedOf(Word16(BytesOf(read, 2)))) \in Seq(Job)
  BY <1>4, <1>5, Word16In, AddedCommandIn
<1>7. Reaches(deaf) => faults' \in 0 .. MaxFaults
  BY FaultIn DEF IInv
<1>8. QED BY <1>1, <1>3, <1>4, <1>6, <1>7 DEF IInv

(* The chip as a start finds it, once it has been asked.                   *)
LEMMA IdleBusy ==
  ASSUME NEW b \in Rest(Addr), NEW c, c = [b EXCEPT !.busy = FALSE]
  PROVE  /\ c \in Rest(Addr) /\ Quiet(c) \in Ready /\ Quiet(c).mode = b.mode /\ Quiet(c).busy = FALSE
         /\ b.mode # "idle" => Quiet(c).n = b.n
<1>1. b \in Lines(Addr) /\ b \in Chip(Addr)
  BY DEF Rest, Chip, Bus
<1>2. c \in Lines(Addr) /\ Alike(b, c) /\ c.busy = FALSE
  BY <1>1 DEF Lines, Alike
<1>3. c \in Rest(Addr)
  BY <1>1, <1>2, ChipAlike
<1>4. Quiet(c) \in Ready /\ Quiet(c).mode = c.mode /\ Quiet(c).busy = FALSE /\ (c.mode # "idle" => Quiet(c).n = c.n)
  BY <1>2, <1>3, QuietReady
<1>5. QED BY <1>2, <1>3, <1>4 DEF Alike

(* The next byte of a call.                                                *)
LEMMA HeadIn ==
  ASSUME IInv, todo # << >>
  PROVE  Head(todo)[1] \in Nat /\ Head(todo)[2] \in Nat /\ Tail(todo) \in Seq(Job)
<1>1. Head(todo) \in Job /\ Tail(todo) \in Seq(Job)
  <2> DEFINE A == Job
  <2>1. todo \in Seq(A)
    BY DEF IInv
  <2> HIDE DEF A
  <2>2. Head(todo) \in A /\ Tail(todo) \in Seq(A)
    BY <2>1
  <2>3. QED BY <2>2 DEF A
<1>2. QED BY <1>1, Sizes DEF Job

(* A byte of a call, with the wait for the chip.                           *)
LEMMA WriteByteKeeps == ASSUME IInv, NEW deaf, deaf \in BOOLEAN, WriteByte(deaf) PROVE IInv'
<1> DEFINE a == [bus EXCEPT !.deaf = deaf]
           b == After(a, eeprom_write(Head(todo)[1], Head(todo)[2]))
           c == [b EXCEPT !.deaf = FALSE]
<1>1. todo # << >> /\ bus' = Quiet(Waited(c)) /\ todo' = Tail(todo) /\ Reaches(deaf) /\ has_eeprom' = has_eeprom
  BY DEF WriteByte
<1>2. lost' \subseteq {"db", "script"}
  <2>1. lost' \subseteq lost \cup Spoilt
    BY DEF WriteByte
  <2>2. Spoilt \subseteq {"db", "script"}
    BY DEF Spoilt
  <2>3. QED BY <2>1, <2>2 DEF IInv
<1>3. a \in Rest(Addr)
  <2>1. bus \in Rest(Addr) /\ bus \in Chip(Addr) /\ bus \in Lines(Addr)
    BY DEF IInv, Ready, Rest, Chip, Bus
  <2>2. a \in Lines(Addr) /\ Alike(bus, a)
    BY <2>1 DEF Lines, Alike
  <2> HIDE DEF a
  <2>3. QED BY <2>1, <2>2, ChipAlike
<1> HIDE DEF a
<1>4. b \in Rest(Addr)
  BY <1>1, <1>3, HeadIn, WriteRest
<1> HIDE DEF b
<1>5. c \in Chip(Addr)
  <2>1. b \in Chip(Addr) /\ b \in Lines(Addr)
    BY <1>4 DEF Rest, Chip, Bus
  <2>2. c \in Lines(Addr) /\ Alike(b, c)
    BY <2>1 DEF Lines, Alike
  <2> HIDE DEF c
  <2>3. QED BY <2>1, <2>2, ChipAlike
<1> HIDE DEF c
<1>6. Quiet(Waited(c)) \in Ready
  BY <1>5, WaitedIn, QuietReady
<1>7. Tail(todo) \in Seq(Job)
  BY <1>1, HeadIn
<1>8. faults' \in 0 .. MaxFaults
  BY <1>1, FaultIn DEF IInv
<1>9. QED BY <1>1, <1>2, <1>6, <1>7, <1>8 DEF IInv

(* A start.                                                                *)
LEMMA StartsIn ==
  ASSUME IInv, Fault, NEW b \in Rest(Addr), NEW found, found \in BOOLEAN, Starts(b, found), lost' \subseteq {"db", "script"}
  PROVE  IInv'
<1>1. bus' \in Ready /\ has_eeprom' \in BOOLEAN /\ todo' = << >>
  BY QuietReady DEF Starts
<1>2. faults' \in 0 .. MaxFaults
  BY FaultIn DEF IInv
<1>3. << >> \in Seq(Job)
  OBVIOUS
<1>4. QED BY <1>1, <1>2, <1>3 DEF IInv

(* A power failure.                                                        *)
LEMMA PowerFailsKeeps == ASSUME IInv, PowerFails PROVE IInv'
<1> DEFINE c == After(bus, eeprom_write(Head(todo)[1], Head(todo)[2]))
<1>1. PICK stored \in {mem, c.mem} : Starts(Released(stored), TRUE)
  BY DEF PowerFails
<1>2. Fault /\ todo # << >> /\ lost' = lost
  BY DEF PowerFails
<1>3. bus \in Rest(Addr)
  BY DEF IInv, Ready
<1>4. c \in Rest(Addr)
  BY <1>2, <1>3, HeadIn, WriteRest
<1> HIDE DEF c
<1>5. stored \in [Addr -> 0 .. Blank]
  <2>1. \A b \in Rest(Addr) : b.mem \in [Addr -> 0 .. Blank]
    BY DEF Rest, Chip, Bus, Lines
  <2>2. QED BY <1>1, <1>3, <1>4, <2>1 DEF mem
<1>6. Released(stored) \in Rest(Addr)
  BY <1>5, ReleasedReady DEF Ready
<1>7. lost' \subseteq {"db", "script"}
  BY <1>2 DEF IInv
<1> DEFINE r == Released(stored)
<1>8. r \in Rest(Addr) /\ Starts(r, TRUE)
  BY <1>1, <1>6
<1> HIDE DEF r
<1>9. QED BY <1>2, <1>7, <1>8, StartsIn

(* A reset.                                                                *)
LEMMA ResetKeeps == ASSUME IInv, Reset PROVE IInv'
<1>1. PICK events \in UnderWay : \E b \in Along(bus, events) : \E done \in 1 .. 3 :
        LET found == eeprom_present(b, done) IN
        Starts([found EXCEPT !.busy = FALSE], Acknowledged(found)) /\ lost' = lost \cup Hit(found)
  <2>1. PICK events \in UnderWay : \E b \in Along(bus, events) : \E done \in IF b.busy THEN 1 .. 3 ELSE {1} :
          \E found \in {eeprom_present(b, done)} :
            Starts([found EXCEPT !.busy = FALSE], Acknowledged(found)) /\ lost' = lost \cup Hit(found)
    BY DEF Reset
  <2>2. PICK b \in Along(bus, events) : \E done \in IF b.busy THEN 1 .. 3 ELSE {1} :
          \E found \in {eeprom_present(b, done)} :
            Starts([found EXCEPT !.busy = FALSE], Acknowledged(found)) /\ lost' = lost \cup Hit(found)
    BY <2>1
  <2>3. PICK done \in IF b.busy THEN 1 .. 3 ELSE {1} :
          \E found \in {eeprom_present(b, done)} :
            Starts([found EXCEPT !.busy = FALSE], Acknowledged(found)) /\ lost' = lost \cup Hit(found)
    BY <2>2
  <2>4. done \in 1 .. 3
    BY <2>3
  <2>5. QED BY <2>3, <2>4
<1>2. PICK b \in Along(bus, events), done \in 1 .. 3 :
        LET found == eeprom_present(b, done) IN
        Starts([found EXCEPT !.busy = FALSE], Acknowledged(found)) /\ lost' = lost \cup Hit(found)
  BY <1>1
<1> DEFINE found == eeprom_present(b, done)
           c == [found EXCEPT !.busy = FALSE]
           x == Acknowledged(found)
<1>3. bus \in Chip(Addr)
  BY DEF IInv, Ready, Rest
<1>4. events \in Seq(Seq(Event))
  <2>1. CASE todo # << >>
    <3>1. events = eeprom_write(Head(todo)[1], Head(todo)[2])
      BY <2>1 DEF UnderWay
    <3>2. QED BY <2>1, <3>1, HeadIn, WriteSeq
  <2>2. CASE todo = << >>
    <3>1. events \in {eeprom_read(EE_BASE_SFP, 1), eeprom_read(EE_BASE_INIT, 2)}
      BY <2>2 DEF UnderWay
    <3>2. QED BY <3>1, Bases, ReadSeq
  <2>3. QED BY <2>1, <2>2
<1>5. b \in Chip(Addr)
  BY <1>3, <1>4, AddrInt, ChipAlong
<1>6. found \in Rest(Addr)
  BY <1>5, PresentIn
<1>7. Starts(c, x) /\ lost' = lost \cup Hit(found) /\ x \in BOOLEAN
  BY <1>2 DEF Acknowledged
<1>8. Fault
  BY DEF Reset
<1> HIDE DEF found, x
<1>9. Hit(found) \subseteq {"db", "script"}
  BY DEF Hit
<1>10. c \in Rest(Addr)
  BY <1>6, IdleBusy
<1> HIDE DEF c
<1>11. lost' \subseteq {"db", "script"}
  BY <1>7, <1>9 DEF IInv
<1>12. QED BY <1>7, <1>8, <1>10, <1>11, StartsIn

(* The first start.                                                        *)
LEMMA InitKeeps == Init => IInv
<1> SUFFICES ASSUME Init PROVE IInv
  OBVIOUS
<1>1. [a \in Addr |-> Blank] \in [Addr -> 0 .. Blank]
  BY Sizes
<1>2. bus \in Ready
  BY <1>1, ReleasedReady DEF Init
<1>3. << >> \in Seq(Job) /\ 0 \in 0 .. MaxFaults
  BY LayoutAssumption
<1>4. QED BY <1>2, <1>3 DEF Init, IInv

(* All of them.                                                            *)
LEMMA NextKeeps == IInv /\ [Next]_vars => IInv'
<1> SUFFICES ASSUME IInv, [Next]_vars PROVE IInv'
  OBVIOUS
<1>1. CASE SfpErase
  BY <1>1, SfpEraseKeeps
<1>2. CASE InitErase
  BY <1>2, InitEraseKeeps
<1>3. CASE PhTrans
  BY <1>3, PhTransKeeps
<1>4. CASE PowerFails
  BY <1>4, PowerFailsKeeps
<1>5. CASE Reset
  BY <1>5, ResetKeeps
<1>6. ASSUME NEW deaf \in BOOLEAN, SfpAdd(deaf) PROVE IInv'
  BY <1>6, SfpAddKeeps
<1>7. ASSUME NEW deaf \in BOOLEAN, InitPurge(deaf) PROVE IInv'
  BY <1>7, InitPurgeKeeps
<1>8. ASSUME NEW deaf \in BOOLEAN, InitAdd(deaf) PROVE IInv'
  BY <1>8, InitAddKeeps
<1>9. ASSUME NEW deaf \in BOOLEAN, WriteByte(deaf) PROVE IInv'
  BY <1>9, WriteByteKeeps
<1>10. CASE UNCHANGED vars
  BY <1>10 DEF vars, IInv
<1>11. QED BY <1>1, <1>2, <1>3, <1>4, <1>5, <1>6, <1>7, <1>8, <1>9, <1>10 DEF Next

(* What the invariant says of the types.                                   *)
LEMMA TypeIn == IInv => TypeOK
<1> SUFFICES ASSUME IInv PROVE TypeOK
  OBVIOUS
<1>1. mem \in [Addr -> 0 .. Blank] /\ bus.scl = 1 /\ bus.sda = 1 /\ (bus.mode = "idle" \/ bus.out = 0)
  <2>1. bus \in Ready
    BY DEF IInv
  <2>2. QED BY <2>1 DEF Ready, Rest, Chip, Bus, Lines, mem
<1>2. \A w \in ToSet(todo) : w \in Nat \X (0 .. Blank)
  <2> DEFINE A == Job
  <2>1. todo \in Seq(A)
    BY DEF IInv
  <2> HIDE DEF A
  <2>2. \A i \in DOMAIN todo : todo[i] \in A
    BY <2>1
  <2>3. QED BY <2>2 DEF ToSet, A, Job
<1>3. QED BY <1>1, <1>2 DEF IInv, TypeOK

(* Whatever call, fault or reset comes when: between transfers both lines  *)
(* are let go by the processor, a chip that holds SDA down is in a         *)
(* transfer, and what a call (dev/eeprom.c) has left to write are bytes.   *)
THEOREM Typed == Spec => []TypeOK
<1>1. QED BY InitKeeps, NextKeeps, TypeIn, PTL DEF Spec

-----------------------------------------------------------------------------
(* The lines are freed.                                                    *)

(* The starts it takes at most to free the lines.                          *)
Turns(b) == IF b.mode = "idle" THEN 0 ELSE IF b.mode = "send" THEN Width + 1 - b.n ELSE 1

(* A byte has no more bits than that.                                      *)
LEMMA TurnsIn == ASSUME NEW b \in Rest(Addr) PROVE Turns(b) \in 0 .. Width
<1>1. Width \in Nat /\ Width > 0
  BY Powers
<1>2. CASE b.mode = "idle"
  BY <1>1, <1>2 DEF Turns
<1>3. CASE b.mode = "send"
  <2>1. b.n \in 1 .. Width
    BY <1>3, RestPhase
  <2>2. Turns(b) = Width + 1 - b.n
    BY <1>3 DEF Turns
  <2>3. QED BY <1>1, <2>1, <2>2
<1>4. CASE b.mode # "idle" /\ b.mode # "send"
  BY <1>1, <1>4 DEF Turns
<1>5. QED BY <1>2, <1>3, <1>4

(* One probe of a chip that is done.                                       *)
LEMMA ProbeLess ==
  ASSUME NEW b \in Rest(Addr), b.deaf = FALSE
  PROVE  /\ Probe(b, TRUE) \in Rest(Addr) /\ Probe(b, TRUE).deaf = FALSE
         /\ b.mode = "idle" => Probe(b, TRUE).mode = "idle" /\ Acknowledged(Probe(b, TRUE))
         /\ Turns(Probe(b, TRUE)) = 0 \/ Turns(Probe(b, TRUE)) < Turns(b)
<1> DEFINE y == b.busy /\ ~TRUE
           c == After([b EXCEPT !.got = << >>, !.busy = y], mi2c_devprobe(Device))
<1>1. Probe(b, TRUE) = c
  BY DEF Probe
<1>2. y = FALSE /\ y \in BOOLEAN /\ b \in Chip(Addr)
  BY DEF Rest
<1> HIDE DEF y
<1>3. /\ c \in Rest(Addr) /\ c.deaf = b.deaf
      /\ b.mode = "idle" => c.mode = "idle"
      /\ c.mode = "idle" \/ (b.mode = "send" /\ c.mode = "send" /\ c.n = b.n + 1)
      /\ b.mode = "idle" /\ y = FALSE /\ b.deaf = FALSE => Acknowledged(c)
  BY <1>2, Probed
<1> HIDE DEF c
<1>4. CASE c.mode = "idle"
  <2>1. Turns(c) = 0
    BY <1>4 DEF Turns
  <2>2. QED BY <1>1, <1>2, <1>3, <2>1
<1>5. CASE c.mode # "idle"
  <2>1. b.mode = "send" /\ c.mode = "send" /\ c.n = b.n + 1
    BY <1>3, <1>5
  <2>2. Turns(c) = Width + 1 - c.n /\ Turns(b) = Width + 1 - b.n
    BY <2>1 DEF Turns
  <2>3. b.n \in 1 .. Width /\ Width \in Nat
    BY <2>1, RestPhase, Powers
  <2>4. Turns(c) < Turns(b)
    BY <2>1, <2>2, <2>3
  <2>5. QED BY <1>1, <1>2, <1>3, <2>1, <2>4
<1>6. QED BY <1>4, <1>5

(* Two of them, as a start makes, with a chip that is done with the last.  *)
LEMMA PresentLess ==
  ASSUME NEW b \in Rest(Addr), b.deaf = FALSE
  PROVE  /\ eeprom_present(b, 1) \in Rest(Addr)
         /\ b.mode = "idle" => Acknowledged(eeprom_present(b, 1))
         /\ Turns(eeprom_present(b, 1)) = 0 \/ Turns(eeprom_present(b, 1)) < Turns(b)
<1> DEFINE f == Probe(b, TRUE)
           g == Probe(f, TRUE)
<1>1. eeprom_present(b, 1) = IF Acknowledged(f) THEN f ELSE g
  <2>1. (1 <= 1) = TRUE /\ (1 <= 2) = TRUE
    OBVIOUS
  <2>2. QED BY <2>1, PresentIs
<1>2. /\ f \in Rest(Addr) /\ f.deaf = FALSE /\ (b.mode = "idle" => Acknowledged(f))
      /\ Turns(f) = 0 \/ Turns(f) < Turns(b)
  BY ProbeLess
<1> HIDE DEF f
<1>3. g \in Rest(Addr) /\ (Turns(g) = 0 \/ Turns(g) < Turns(f))
  BY <1>2, ProbeLess
<1> HIDE DEF g
<1>4. Turns(b) \in 0 .. Width /\ Turns(f) \in 0 .. Width /\ Turns(g) \in 0 .. Width /\ Width \in Nat
  BY <1>2, <1>3, TurnsIn, Powers
<1>5. CASE Acknowledged(f)
  BY <1>1, <1>2, <1>5
<1>6. CASE ~Acknowledged(f)
  <2>1. Turns(g) = 0 \/ Turns(g) < Turns(b)
    BY <1>2, <1>3, <1>4
  <2>2. QED BY <1>1, <1>2, <1>3, <1>6, <2>1
<1>7. QED BY <1>5, <1>6

(* A start leaves the lines free, or nearer to it.                         *)
LEMMA RestartedLess ==
  ASSUME NEW b \in Ready
  PROVE  /\ Restarted(b) \in Ready /\ Restarted(b).busy = FALSE
         /\ Turns(Restarted(b)) = 0 \/ Turns(Restarted(b)) < Turns(b)
<1> DEFINE q == eeprom_present(b, 1)
           r == [q EXCEPT !.busy = FALSE]
<1>1. Restarted(b) = Quiet(r)
  <2>1. { Quiet([found EXCEPT !.busy = FALSE]) : found \in {q} } = {Quiet(r)}
    OBVIOUS
  <2>2. Restarted(b) = The({ Quiet([found EXCEPT !.busy = FALSE]) : found \in {q} })
    BY DEF Restarted
  <2> HIDE DEF q, r
  <2>3. QED BY <2>1, <2>2, OnlyOne
<1>2. q \in Rest(Addr) /\ (Turns(q) = 0 \/ Turns(q) < Turns(b))
  BY PresentLess DEF Ready
<1> HIDE DEF q
<1>3. r \in Rest(Addr)
  BY <1>2, IdleBusy
<1>4. r.mode = q.mode /\ r.n = q.n /\ r.busy = FALSE
  <2>1. q \in Lines(Addr)
    BY <1>2 DEF Rest, Chip, Bus
  <2>2. QED BY <2>1 DEF Lines
<1> HIDE DEF r
<1>5. Quiet(r) \in Ready /\ Quiet(r).mode = r.mode /\ Quiet(r).busy = FALSE /\ (r.mode # "idle" => Quiet(r).n = r.n)
  BY <1>3, <1>4, QuietReady
<1> DEFINE c == Quiet(r)
<1> HIDE DEF c
<1>6. c.mode = q.mode /\ (q.mode # "idle" => c.n = q.n)
  BY <1>4, <1>5 DEF c
<1>7. Turns(c) = Turns(q)
  BY <1>6 DEF Turns
<1>8. QED BY <1>1, <1>2, <1>5, <1>7 DEF c

(* The lines free, and the chip found.                                     *)
LEMMA NoTurns ==
  ASSUME NEW b \in Ready, b.busy = FALSE, Turns(b) = 0
  PROVE  Free(b) /\ Acknowledged(eeprom_present(b, 1))
<1>1. b \in Rest(Addr) /\ b.deaf = FALSE /\ Width \in Nat
  BY Powers DEF Ready
<1>2. b.mode = "idle"
  <2>1. CASE b.mode = "send"
    <3>1. b.n \in 1 .. Width /\ Turns(b) = Width + 1 - b.n
      BY <1>1, <2>1, RestPhase DEF Turns
    <3>2. QED BY <1>1, <3>1
  <2>2. CASE b.mode # "send"
    BY <2>2 DEF Turns
  <2>3. QED BY <2>1, <2>2
<1>3. QED BY <1>1, <1>2, ReadyFree, PresentLess

(* One start after the other.                                              *)
LEMMA FoundIn == IInv => FoundSoon
<1> SUFFICES ASSUME IInv PROVE FoundSoon
  OBVIOUS
<1> DEFINE n == Width
           Upto(k) == \E r : /\ r = [i \in 0 .. k |-> r[i]] /\ r[0] = bus
                             /\ \A i \in 1 .. k : r[i] = Restarted(r[i - 1])
           T == { k \in 0 .. n : Upto(k) }
           Def(f) == f = [i \in 0 .. n |-> IF i = 0 THEN bus ELSE The({ Restarted(b) : b \in {f[i - 1]} })]
           f == CHOOSE g : Def(g)
<1>0. n \in Nat /\ n > 0
  BY Powers
<1>a. ASSUME NEW x PROVE The({ Restarted(b) : b \in {x} }) = Restarted(x)
  <2> DEFINE y == Restarted(x)
  <2>1. { Restarted(b) : b \in {x} } = {y}
    OBVIOUS
  <2> HIDE DEF y
  <2>2. QED BY <2>1, OnlyOne DEF y
<1>1. 0 \in T
  <2> DEFINE r == [i \in 0 .. 0 |-> bus]
  <2>1. r = [i \in 0 .. 0 |-> r[i]] /\ r[0] = bus /\ \A i \in 1 .. 0 : r[i] = Restarted(r[i - 1])
    OBVIOUS
  <2> HIDE DEF r
  <2>2. QED BY <1>0, <2>1
<1>2. ASSUME NEW j \in 0 .. n - 1, j \in T PROVE j + 1 \in T
  <2>0. j \in Nat /\ j + 1 \in 0 .. n
    BY <1>0
  <2> HIDE DEF n
  <2>1. PICK r : r = [i \in 0 .. j |-> r[i]] /\ r[0] = bus /\ \A i \in 1 .. j : r[i] = Restarted(r[i - 1])
    BY <1>2
  <2> DEFINE q == [i \in 0 .. j + 1 |-> IF i = j + 1 THEN Restarted(r[j]) ELSE r[i]]
  <2>2. q = [i \in 0 .. j + 1 |-> q[i]] /\ q[0] = bus
    BY <2>0, <2>1
  <2>3. ASSUME NEW i \in 1 .. j + 1 PROVE q[i] = Restarted(q[i - 1])
    <3>1. i - 1 \in 0 .. j /\ i - 1 # j + 1 /\ q[i - 1] = r[i - 1]
      BY <2>0
    <3>2. CASE i = j + 1
      <4>1. q[i] = Restarted(r[j]) /\ i - 1 = j
        BY <2>0, <3>2
      <4> HIDE DEF q
      <4>2. QED BY <3>1, <3>2, <4>1
    <3>3. CASE i # j + 1
      <4>1. i \in 1 .. j /\ q[i] = r[i]
        BY <2>0, <3>3
      <4> HIDE DEF q
      <4>2. QED BY <2>1, <3>1, <4>1
    <3>4. QED BY <3>2, <3>3
  <2> HIDE DEF q
  <2>4. Upto(j + 1)
    BY <2>2, <2>3
  <2> HIDE DEF Upto
  <2>5. QED BY <2>0, <2>4
<1>3. n \in T
  <2> HIDE DEF T, n
  <2>2. 0 .. n \subseteq T
    BY <1>0, <1>1, <1>2, CountUp
  <2>3. QED BY <1>0, <2>2
<1>4. PICK r : /\ r = [i \in 0 .. n |-> r[i]] /\ r[0] = bus
               /\ \A i \in 1 .. n : r[i] = Restarted(r[i - 1])
  BY <1>3 DEF T
<1>5. Def(r)
  <2>1. \A i \in 0 .. n : r[i] = IF i = 0 THEN bus ELSE The({ Restarted(b) : b \in {r[i - 1]} })
    <3> TAKE i \in 0 .. n
    <3>1. i = 0 \/ i \in 1 .. n
      BY <1>0
    <3>2. ~(i \in 1 .. n /\ i = 0)
      OBVIOUS
    <3>3. The({ Restarted(b) : b \in {r[i - 1]} }) = Restarted(r[i - 1])
      BY <1>a
    <3> HIDE DEF n
    <3>4. QED BY <1>4, <3>1, <3>2, <3>3
  <2> HIDE DEF n
  <2>2. QED BY <1>4, <2>1
<1>6. Def(f)
  BY <1>5
<1>7. f[0] = bus /\ \A i \in 1 .. n : f[i] = Restarted(f[i - 1])
  <2> HIDE DEF f
  <2>1. \A i \in 0 .. n : f[i] = IF i = 0 THEN bus ELSE The({ Restarted(b) : b \in {f[i - 1]} })
    BY <1>6
  <2>2. 0 \in 0 .. n /\ \A i \in 1 .. n : i \in 0 .. n /\ i # 0
    BY <1>0
  <2> HIDE DEF Def
  <2>3. f[0] = bus
    BY <2>1, <2>2
  <2>4. QED BY <1>a, <2>1, <2>2, <2>3
<1>8. \E k \in 0 .. n : Free(f[k]) /\ Acknowledged(eeprom_present(f[k], 1))
  <2> DEFINE S == { k \in 0 .. n : /\ f[k] \in Ready /\ Turns(f[k]) <= n - k
                                   /\ k = 0 \/ f[k].busy = FALSE }
  <2> HIDE DEF f, Def
  <2>1. 0 \in S
    <3>1. bus \in Ready /\ bus \in Rest(Addr)
      BY DEF IInv, Ready
    <3>2. Turns(bus) \in 0 .. n
      BY <3>1, TurnsIn
    <3> HIDE DEF n
    <3>3. Turns(f[0]) <= n - 0 /\ 0 \in 0 .. n
      BY <1>0, <1>7, <3>2
    <3>4. QED BY <1>7, <3>1, <3>3
  <2>2. ASSUME NEW j \in 0 .. n - 1, j \in S PROVE j + 1 \in S
    <3>1. j + 1 \in 1 .. n /\ j + 1 \in 0 .. n /\ (j + 1) - 1 = j
      BY <1>0
    <3>2. f[j + 1] = Restarted(f[j])
      BY <1>7, <3>1
    <3>3. f[j] \in Ready /\ Turns(f[j]) <= n - j
      BY <2>2
    <3>4. /\ f[j + 1] \in Ready /\ f[j + 1].busy = FALSE
          /\ Turns(f[j + 1]) = 0 \/ Turns(f[j + 1]) < Turns(f[j])
      BY <3>2, <3>3, RestartedLess
    <3>5. Turns(f[j]) \in 0 .. n /\ Turns(f[j + 1]) \in 0 .. n
      BY <3>3, <3>4, TurnsIn DEF Ready
    <3> DEFINE t == Turns(f[j])
               u == Turns(f[j + 1])
    <3>6. t \in 0 .. n /\ u \in 0 .. n /\ t <= n - j /\ (u = 0 \/ u < t)
      BY <3>3, <3>4, <3>5
    <3> HIDE DEF t, u, n
    <3>7. u <= n - (j + 1)
      BY <1>0, <3>1, <3>6
    <3>8. QED BY <3>1, <3>4, <3>7 DEF u
  <2>3. n \in S
    <3> HIDE DEF S, n
    <3>1. 0 .. n \subseteq S
      BY <1>0, <2>1, <2>2, CountUp
    <3>2. QED BY <1>0, <3>1
  <2>4. f[n] \in Ready /\ Turns(f[n]) <= n - n /\ f[n].busy = FALSE
    BY <1>0, <2>3
  <2>5. Turns(f[n]) \in 0 .. n
    BY <2>4, TurnsIn DEF Ready
  <2>6. Turns(f[n]) = 0
    <3> HIDE DEF n
    <3>1. QED BY <1>0, <2>4, <2>5
  <2>7. Free(f[n]) /\ Acknowledged(eeprom_present(f[n], 1))
    BY <2>4, <2>6, NoTurns
  <2>8. n \in 0 .. n
    BY <1>0
  <2>9. QED BY <2>7, <2>8
<1>9. FoundSoon <=> \E k \in 0 .. Width : \E b \in {f[k]} : Free(b) /\ Acknowledged(eeprom_present(b, 1))
  BY Zenon DEF FoundSoon, f
<1>10. QED
  <2> HIDE DEF f
  <2>1. QED BY <1>8, <1>9

(* Whatever a reset leaves in the middle of a transfer (dev/i2c.c has no   *)
(* recovery), the probes of at most as many starts as a byte has bits free *)
(* the lines, and the next start finds the chip.                           *)
THEOREM Found == Spec => []FoundSoon
<1>1. Init => IInv
  BY InitKeeps
<1>2. IInv /\ [Next]_vars => IInv'
  BY NextKeeps
<1>3. IInv => FoundSoon
  BY FoundIn
<1>4. QED BY <1>1, <1>2, <1>3, PTL DEF Spec
=============================================================================
