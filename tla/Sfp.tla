-------------------------------- MODULE Sfp --------------------------------
(***************************************************************************)
(* The transceiver (dev/sfp.c and "sfp detect", "sfp match" of             *)
(* shell/cmd_sfp.c): its part number is read over an I2C bus of its own,   *)
(* and its calibration parameters are taken from the list in the           *)
(* configuration EEPROM, which module Eeprom writes and which is only read *)
(* here.  Any transfer can fail unnoticed, and the processor be reset in   *)
(* the middle of one.                                                      *)
(***************************************************************************)
EXTENDS I2c, SequencesExt

CONSTANTS
  Modules,          (* the memories of the transceivers there are           *)
  IdLen,            (* bytes of an identification, with the checksum: 64    *)
  PnFirst, PnLast,  (* where the part number is in it: 40 and 55            *)
  SFPS_MAX,         (* entries of the list: 4                               *)
  Lists,            (* contents of the list: a count, and entries as far as *)
                    (* behind its end                                       *)
  NoModule, NoPn,
  Defaults,         (* the parameters before a match                        *)
  Garbled,          (* those of an entry that is not read                   *)
  MaxFaults         (* bound: transfers that fail, and resets               *)

ASSUME SfpAssumption ==
  /\ AddrBytes = 1 /\ PnFirst \in 1 .. PnLast /\ PnLast < IdLen - 1 /\ IdLen <= Byte
  /\ Modules \subseteq [0 .. Byte - 1 -> 0 .. Blank] /\ SFPS_MAX \in 1 .. Byte \div 2
  /\ \A l \in Lists : l.count \in 0 .. Blank /\ 0 .. SFPS_MAX - 1 \subseteq DOMAIN l.entry

VARIABLES
  cage,    (* the transceiver that is plugged in                            *)
  sfpbus,  (* the lines to it, and its chip                                 *)
  pn,      (* the part number last read                                     *)
  delta,   (* sfp_deltaTx, sfp_deltaRx and sfp_alpha                        *)
  list,
  match,   (* eeprom_match_sfp: whether it is running, i, and sfpcount      *)
  upsets

sfpVars == << cage, sfpbus, pn, delta, list, match, upsets >>

-----------------------------------------------------------------------------
(* sfp_read_part_id.                                                       *)

(* The first byte, by its address; the chip goes on counting from there.   *)
FirstByte ==
  << mi2c_start, mi2c_put_byte(2 * Device), mi2c_put_byte(0), mi2c_repeat_start,
     mi2c_put_byte(2 * Device + 1), mi2c_get_byte(TRUE), mi2c_stop >>

OtherBytes ==
  << mi2c_start, mi2c_put_byte(2 * Device + 1) >>
  \o [i \in 1 .. IdLen - 1 |-> mi2c_get_byte(i = IdLen - 1)] \o << mi2c_stop >>

(* Between transfers, where the chip keeps its address.                    *)
Rest(b) ==
  LET c == [b EXCEPT !.got = << >>, !.deaf = FALSE] IN
  IF b.mode = "idle" THEN [c EXCEPT !.n = 0, !.byte = 0] ELSE c

(* As in module Minic, <Operator>_<Fault> names a seeded fault.            *)
Ready_AsLeft(b) == b

Ready(b) == Performed(b, mi2c_init)

(* Each of the two transfers may fail to reach the chip.                   *)
First(b, deaf) == After([Ready(b) EXCEPT !.deaf = deaf], FirstByte)
Others(first, deaf) == After([Rest(first) EXCEPT !.deaf = deaf], OtherBytes)

PartId(b, deaf1, deaf2) ==
  The({ [bus   |-> Rest(others),
         bytes |-> << ByteFrom(first.got, 4) >>
                   \o [i \in 1 .. IdLen - 1 |-> ByteFrom(others.got, 2 + (i - 1) * Width)]] :
          << first, others >> \in
            UNION { { << f, o >> : o \in {Others(f, deaf2)} } : f \in {First(b, deaf1)} } })

PnOf(bytes) == SubSeq(bytes, PnFirst + 1, PnLast + 1)

OwnPn == PnOf([i \in 1 .. IdLen |-> cage[i - 1]])

-----------------------------------------------------------------------------
Faulty(deaf) == upsets' = upsets + (IF deaf THEN 1 ELSE 0) /\ upsets' <= MaxFaults

(* cmd_sfp does not look at the result; without a transceiver, the number  *)
(* last read stays and is printed again.                                   *)
Detect(deaf1, deaf2) ==
  /\ ~match.on /\ ~(deaf1 /\ deaf2)
  /\ Faulty(deaf1 \/ deaf2)
  /\ IF cage = NoModule THEN UNCHANGED << sfpbus, pn >>
     ELSE \E read \in {PartId(sfpbus, deaf1, deaf2)} :
            sfpbus' = read.bus /\ pn' = PnOf(read.bytes)
  /\ UNCHANGED << cage, delta, list, match >>

(* strncmp stops at the end of either name.                                *)
Upto0(name) == SubSeq(name, 1, SelectInSeq(name \o << 0 >>, LAMBDA c : c = 0) - 1)
SameName(a, b) == Upto0(a) = Upto0(b)

NoMatch == [on |-> FALSE, i |-> 0, count |-> 1]

MatchStart ==
  /\ ~match.on /\ pn # NoPn /\ Head(pn) # 0
  /\ match' = [NoMatch EXCEPT !.on = TRUE]
  /\ UNCHANGED << cage, sfpbus, pn, delta, list, upsets >>

Signed(i) == IF i >= Byte \div 2 THEN i - Byte ELSE i

InList_NoBound(pos) == pos \in DOMAIN list.entry

(* Positions behind the list are refused.                                  *)
InList(pos) == pos < SFPS_MAX

NextIndex_Waits(i) == IF i >= SFPS_MAX THEN i ELSE i + 1

(* i is a signed byte.                                                     *)
NextIndex(i) == Signed((i + 1) % Byte)

Ends(d) == match' = NoMatch /\ delta' = d

(* A turn of the loop of eeprom_match_sfp, with eeprom_get_sfp: the count   *)
(* is read with the first entry; a refused position leaves the entry of    *)
(* the turn before, which did not match.                                   *)
MatchTurn(deafCount, deafEntry) ==
  LET pos   == match.i % Byte
      count == IF pos # 0 THEN match.count ELSE IF deafCount THEN Blank ELSE list.count
  IN
  /\ match.on /\ match.i < match.count
  /\ Faulty(deafCount \/ deafEntry)
  /\ IF count = 0 \/ (pos = 0 /\ count = Blank) THEN Ends(delta)
     ELSE IF InList(pos) /\ ~deafEntry /\ SameName(list.entry[pos].pn, pn) THEN Ends(list.entry[pos].par)
     ELSE IF InList(pos) /\ deafEntry /\ SameName([k \in DOMAIN pn |-> Blank], pn) THEN Ends(Garbled)
     ELSE match' = [match EXCEPT !.i = NextIndex(match.i), !.count = count] /\ UNCHANGED delta
  /\ UNCHANGED << cage, sfpbus, pn, list >>

MatchFails ==
  /\ match.on /\ match.i >= match.count
  /\ Ends(delta)
  /\ UNCHANGED << cage, sfpbus, pn, list, upsets >>

(* The user pulls the transceiver out, or puts another in.                 *)
Swap ==
  /\ cage' \in (Modules \cup {NoModule}) \ {cage}
  /\ sfpbus' = [Released(IF cage' = NoModule THEN << >> ELSE cage')
                  EXCEPT !.scl = sfpbus.scl, !.sda = sfpbus.sda]
  /\ UNCHANGED << pn, delta, list, match, upsets >>

(* All the bus goes through in a reading.                                  *)
MidRead ==
  UNION { Along(ready, FirstByte) \cup
          UNION { Along(Rest(first), OtherBytes) : first \in {After(ready, FirstByte)} } :
            ready \in {Ready(sfpbus)} }

(* The lines and the chip stay as they are; all variables start again.     *)
SfpReset ==
  /\ Faulty(TRUE)
  /\ sfpbus' \in {sfpbus} \cup (IF cage = NoModule \/ match.on THEN {} ELSE { Rest(b) : b \in MidRead })
  /\ pn' = NoPn /\ delta' = Defaults /\ match' = NoMatch
  /\ UNCHANGED << cage, list >>

SfpIdle(module) ==
  /\ cage = module
  /\ sfpbus = Released(IF module = NoModule THEN << >> ELSE module)
  /\ pn = NoPn /\ delta = Defaults /\ match = NoMatch /\ upsets = 0

SfpInit == (\E module \in Modules \cup {NoModule} : SfpIdle(module)) /\ list \in Lists

MatchRuns == (\E deafCount, deafEntry \in BOOLEAN : MatchTurn(deafCount, deafEntry)) \/ MatchFails

SfpNext ==
  \/ \E deaf1, deaf2 \in BOOLEAN : Detect(deaf1, deaf2)
  \/ MatchStart \/ MatchRuns \/ Swap \/ SfpReset

-----------------------------------------------------------------------------
(* Whatever a reset has left of a reading, and whichever transceiver was   *)
(* read before: the detection after the next shows the one plugged in.     *)
DetectsAgain ==
  cage # NoModule =>
    \E next \in {PartId(sfpbus, FALSE, FALSE)} :
    \E again \in {PartId(next.bus, FALSE, FALSE)} : PnOf(again.bytes) = OwnPn

(* With one transfer at most that fails, the parameters in use are the     *)
(* defaults or become those of a counted entry for the part number shown.  *)
TakesMatching ==
  [][delta' \in {delta, Defaults}
     \/ \E k \in 0 .. SFPS_MAX - 1 :
          k < list.count /\ SameName(list.entry[k].pn, pn) /\ delta' = list.entry[k].par]_sfpVars

(* The search of the list ends, with a count that is positive as a signed  *)
(* byte; behind that, i never reaches it.                                  *)
MatchEnds == match.on /\ list.count < Byte \div 2 ~> ~match.on
=============================================================================
