------------------------------ MODULE OneWire ------------------------------
(***************************************************************************)
(* The 1-Wire bus and the search over it (sockitowm/).  An identifier is   *)
(* its sequence of bits, family code first; the check byte at its end is   *)
(* left out: a search in which a bit is lost ends early instead.           *)
(***************************************************************************)
EXTENDS Integers, Sequences, FiniteSets

CONSTANTS
  RomBits,           (* bits of an identifier                               *)
  Pool,              (* the identifiers of the devices there may be         *)
  MAX_DEV1WIRE       (* places in the list of devices                       *)

FamilyBits == 8

Code(n) == [i \in 1 .. FamilyBits |-> (n \div 2 ^ (i - 1)) % 2]

Family(id) == SubSeq(id, 1, FamilyBits)

(* The highest bit of a family code is not compared.                       *)
Kind(code) == SubSeq(code, 1, FamilyBits - 1)

TEMP28   == Code(40)     (* 0x28                                            *)
TEMP42   == Code(66)     (* 0x42                                            *)
EEPROM43 == Code(67)     (* 0x43                                            *)

Rom == [1 .. RomBits -> {0, 1}]

ASSUME OneWireAssumption ==
  /\ RomBits \in Nat /\ RomBits > FamilyBits
  /\ MAX_DEV1WIRE \in Nat \ {0, 1}
  /\ Pool \subseteq Rom
  /\ \A d \in Pool : Family(d) # Code(0)
  /\ \A c, d \in Pool : c # d => \E n \in 1 .. RomBits - 1 : c[n] # d[n]

VARIABLES
  bus,               (* the devices in contact                              *)
  SerialNum,         (* the identifier last found, or to be addressed       *)
  LastDiscrepancy,   (* ... the last place where it took the 0 of two paths *)
  LastDevice         (* ... or it was the last one                          *)

searchVars == << SerialNum, LastDiscrepancy, LastDevice >>

SearchInit ==
  /\ SerialNum = [i \in 1 .. RomBits |-> 0]
  /\ LastDiscrepancy = 0
  /\ LastDevice = FALSE

(* owFamilySearchSetup; 64 stands behind every place but the last.         *)
Setup(code) ==
  /\ SerialNum' = code \o [i \in 1 .. RomBits - FamilyBits |-> 0]
  /\ LastDiscrepancy' = RomBits
  /\ LastDevice' = FALSE

(* A reset is answered if a device is there at all.                        *)
owTouchReset == bus # {}

(* One slot for the devices that have answered like d before bit n, which  *)
(* send the bit or its complement: who sends a 0 pulls the line down.      *)
owTouchBit(d, n, zero) == IF \E e \in bus : e[n] = zero /\ \A m \in 1 .. n - 1 : e[m] = d[m] THEN 0 ELSE 1

(* With 0 in both slots the search takes one of two paths.                 *)
Splits(d, n) == owTouchBit(d, n, 0) = 0 /\ owTouchBit(d, n, 1) = 0

Taken_Again(n) == IF n <= LastDiscrepancy THEN SerialNum[n] ELSE 0

Taken(n) ==
  IF n < LastDiscrepancy THEN SerialNum[n] ELSE IF n = LastDiscrepancy THEN 1 ELSE 0

Followed == CHOOSE d \in bus : \A n \in 1 .. RomBits : Splits(d, n) => d[n] = Taken(n)

(* last_zero.                                                              *)
LastZero(d) ==
  LET zeros == { n \in 1 .. RomBits : d[n] = 0 /\ Splits(d, n) }
  IN  IF zeros = {} THEN 0 ELSE CHOOSE n \in zeros : \A m \in zeros : m <= n

(* owNext, with contact up to the bit `held': a whole search, or the end   *)
(* of the list, or a search that stops where nobody answers; after the     *)
(* latter two the next search starts from the beginning.                   *)
Found(held) == ~LastDevice /\ owTouchReset /\ held = RomBits

owNext_NeverLast(held) ==
  /\ SerialNum' = IF LastDevice \/ ~owTouchReset THEN SerialNum
                  ELSE SubSeq(Followed, 1, held) \o SubSeq(SerialNum, held + 1, RomBits)
  /\ LastDiscrepancy' = IF Found(held) THEN LastZero(Followed) ELSE 0
  /\ LastDevice' = FALSE

owNext(held) ==
  /\ SerialNum' = IF LastDevice \/ ~owTouchReset THEN SerialNum
                  ELSE SubSeq(Followed, 1, held) \o SubSeq(SerialNum, held + 1, RomBits)
  /\ LastDiscrepancy' = IF Found(held) THEN LastZero(Followed) ELSE 0
  /\ LastDevice' = (Found(held) /\ LastDiscrepancy' = 0)

(* owSerialNum with do_read FALSE.                                         *)
Address(id) == SerialNum' = id /\ UNCHANGED << LastDiscrepancy, LastDevice >>

(* owAccess, unless it is disturbed: only the device that is addressed     *)
(* listens on.  The echo of the program's own bits is all it verifies, so  *)
(* that it takes any device on the bus for the one it wants.               *)
Echoes == owTouchReset

(***************************************************************************)
(* The order in which a search from its beginning finds devices of one     *)
(* family: that of their numbers, read from the first bit.                 *)
(***************************************************************************)
Before(c, d) ==
  \E n \in 1 .. RomBits : c[n] < d[n] /\ \A m \in 1 .. n - 1 : c[m] = d[m]

Members(S, code) == { d \in S : Kind(d) = Kind(code) }

(* The place of a device among those of a set, or where it would be.       *)
Place(S, d) == Cardinality({ c \in S : c = d \/ Before(c, d) })

InOrder(S) == [k \in 1 .. Cardinality(S) |-> CHOOSE d \in S : Place(S, d) = k]
=============================================================================
