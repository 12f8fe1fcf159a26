---------------------------- MODULE MacAddrProofs ----------------------------
(***************************************************************************)
(* Proofs about storing an address in an EEPROM on the 1-Wire bus and      *)
(* about finding it there at start-up, for any devices, any addresses and  *)
(* any number of disturbances, and about the packet filter, for any        *)
(* address and any frames.                                                 *)
(***************************************************************************)
EXTENDS MacAddr, Induction, SequenceTheorems

(* A device in contact that is of the kind of the EEPROM is one.           *)
LEMMA InContact ==
  ASSUME StoreHolds, NEW e \in bus, Kind(e) = Kind(EEPROM43)
  PROVE  e \in Eeproms
BY DEF StoreHolds, Eeproms, Members

(* Nothing is stored at start-up.                                          *)
LEMMA InitStore == Init => StoreInv
<1> SUFFICES ASSUME Init PROVE StoreInv
  OBVIOUS
<1>1. /\ bus = fitted /\ fitted \in Boards /\ prog = {} /\ op = "boot" /\ pc = "find"
      /\ page \in [Eeproms -> Programmed \cup {ZEROS}]
      /\ scratch = [e \in Eeproms |-> NoMac]
  BY DEF Init, Statics
<1>2. fitted \subseteq Pool
  BY <1>1, MacAssumption
<1>3. StoreHolds
  <2>1. DOMAIN page = Eeproms /\ page = [e \in Eeproms |-> page[e]]
    BY <1>1
  <2>2. scratch = [e \in Eeproms |-> scratch[e]]
    BY <1>1
  <2>3. QED BY <1>1, <1>2, <2>1, <2>2 DEF StoreHolds, SetpAt
<1>4. ProgramsTarget /\ PageWhole
  BY <1>1 DEF ProgramsTarget, PageWhole
<1>5. QED BY <1>3, <1>4 DEF StoreInv

(* A step that neither is part of "mac setp" nor begins one, and leaves    *)
(* the pages alone.                                                        *)
LEMMA ElsewhereStep ==
  ASSUME StoreInv, op' # "setp", pc' \notin {"write", "copy", "answer"}, prog' = {},
         UNCHANGED << fitted, bus, page, scratch >>
  PROVE  StoreInv'
<1>1. StoreHolds'
  BY DEF StoreInv, StoreHolds, SetpAt
<1>2. (ProgramsTarget /\ PageWhole)'
  BY DEF ProgramsTarget, PageWhole
<1>3. QED BY <1>1, <1>2 DEF StoreInv

(* An EEPROM programs only while the command waits for it.                 *)
LEMMA Quiet ==
  ASSUME StoreInv, pc # "answer"
  PROVE  prog = {}
BY DEF StoreInv, ProgramsTarget, SetpAt

(* Start-up, the endpoint, the filter and the thermometer.                 *)
LEMMA OtherStep ==
  ASSUME StoreInv,
         \/ Device \/ DevicesDone \/ EpInit \/ EpEnable \/ FilterOff \/ FilterLoad \/ Temp
         \/ op # "setp" /\ (FindDevices \/ \E held \in Held : Search(held))
  PROVE  StoreInv'
<1>1. /\ pc \notin {"find", "search", "write", "copy", "answer", "run"} \/ op # "setp"
      /\ pc # "answer"
  BY DEF Device, DevicesDone, EpInit, EpEnable, FilterOff, FilterLoad, Temp, TempWait, TempConvert,
    FindDevices, Search
<1>2. op # "setp"
  BY <1>1 DEF StoreInv, StoreHolds
<1>3. /\ op' = op /\ UNCHANGED << fitted, bus, page, scratch, prog >>
      /\ pc' \notin {"write", "copy", "answer"}
  BY <1>2 DEF Device, DevicesDone, EpInit, EpEnable, FilterOff, FilterLoad, Temp, TempWait,
    TempConvert, FindDevices, Search, deviceVars, Ends, ScanGoesOn
<1>4. prog' = {}
  BY <1>1, <1>3, Quiet
<1>5. QED BY <1>2, <1>3, <1>4, ElsewhereStep

(* The commands begin with the pages as they are.                          *)
LEMMA CommandStep == ASSUME StoreInv, Command PROVE StoreInv'
<1>1. /\ pc = "run" /\ UNCHANGED << fitted, bus, page, scratch, prog >> /\ before' = page
  BY DEF Command, MacSet, GetPersistent, SetPersistent, TempStart, Starts, deviceVars
<1>2. prog' = {}
  BY <1>1, Quiet
<1>3. CASE \E m \in Entered : SetPersistent(m)
  <2>1. op' = "setp" /\ pc' = "find" /\ fam' = Len(Families)
    BY <1>3 DEF SetPersistent, Starts
  <2>2. StoreHolds'
    BY <1>1, <1>2, <2>1 DEF StoreInv, StoreHolds, SetpAt
  <2>3. (ProgramsTarget /\ PageWhole)'
    BY <1>1, <1>2, <2>1 DEF ProgramsTarget, PageWhole
  <2>4. QED BY <2>2, <2>3 DEF StoreInv
<1>4. CASE (\E m \in Entered : MacSet(m)) \/ GetPersistent \/ \E answer \in {0, 255} : TempStart(answer)
  <2>1. op' # "setp" /\ pc' \notin {"write", "copy", "answer"}
    BY <1>4 DEF MacSet, GetPersistent, TempStart, Starts
  <2>2. QED BY <1>1, <1>2, <2>1, ElsewhereStep
<1>5. QED BY <1>3, <1>4 DEF Command

(* Looking for the EEPROM: the one that is found is the one of that family. *)
LEMMA FindStep ==
  ASSUME StoreInv, op = "setp", FindDevices \/ \E held \in Held : Search(held)
  PROVE  StoreInv'
<1>1. /\ pc \in {"find", "search"} /\ op' = op
      /\ UNCHANGED << fitted, bus, page, scratch, prog, mac, before >>
  BY DEF FindDevices, Search, deviceVars, storeVars, Ends, SetpGoesOn
<1>2. prog = {} /\ prog' = {} /\ page = before /\ fam = Len(Families)
  BY <1>1, Quiet DEF StoreInv, StoreHolds, SetpAt
<1>3. CASE FindDevices
  <2>1. pc' = "search" /\ num' = 0 /\ UNCHANGED << fam, target >>
    BY <1>3 DEF FindDevices
  <2>2. StoreHolds'
    BY <1>1, <1>2, <2>1 DEF StoreInv, StoreHolds, SetpAt
  <2>3. (ProgramsTarget /\ PageWhole)'
    BY <1>1, <1>2, <2>1 DEF ProgramsTarget, PageWhole
  <2>4. QED BY <2>2, <2>3 DEF StoreInv
<1>4. ASSUME NEW held \in Held, Search(held) PROVE StoreInv'
  <2>1. pc = "search" /\ num = 0
    BY <1>4 DEF Search, StoreInv, StoreHolds, SetpAt
  <2>2. Kind(Families[fam]) = Kind(EEPROM43)
    BY <1>2 DEF Families
  <2>3. \/ pc' = "write" /\ Kind(target') = Kind(EEPROM43)
        \/ pc' = "run" /\ rv' = -1
    <3>1. CASE Found(held)
      <4> DEFINE n == IF Kind(SerialNum') = Kind(Families[fam]) THEN num + 1 ELSE num
      <4>1. target' = SerialNum' /\ ~(n < MAXDEVICES - 1) /\ SetpGoesOn(n)
        BY <1>4, <2>1, <3>1 DEF Search, MAXDEVICES, Ends
      <4>2. QED BY <4>1, <2>1, <2>2 DEF SetpGoesOn
    <3>2. CASE ~Found(held)
      BY <1>4, <2>1, <3>2 DEF Search, Ends, SetpGoesOn
    <3>3. QED BY <3>1, <3>2
  <2>4. StoreHolds'
    BY <1>1, <1>2, <2>3 DEF StoreInv, StoreHolds, SetpAt
  <2>5. (ProgramsTarget /\ PageWhole)'
    BY <1>1, <1>2, <2>3 DEF ProgramsTarget, PageWhole
  <2>6. QED BY <2>4, <2>5 DEF StoreInv
<1>5. QED BY <1>3, <1>4

(* Writing and copying the scratchpad, and the answer of the EEPROM.       *)
LEMMA WriteStep == ASSUME StoreInv, NEW ok \in BOOLEAN, WriteScratch(ok) PROVE StoreInv'
<1>1. /\ pc = "write" /\ UNCHANGED << fitted, bus, page, prog, op, target, mac, before >>
      /\ scratch' = IF target \in bus THEN [scratch EXCEPT ![target] = IF ok THEN mac ELSE NoMac]
                    ELSE scratch
      /\ (pc' = "copy" /\ ok /\ target \in bus) \/ (pc' = "run" /\ rv' = -1)
  BY DEF WriteScratch, Fails, listVars, storeVars
<1>2. /\ op = "setp" /\ Kind(target) = Kind(EEPROM43) /\ prog = {} /\ prog' = {} /\ page = before
  BY <1>1, Quiet DEF StoreInv, StoreHolds, SetpAt
<1>3. scratch' = [e \in Eeproms |-> scratch'[e]]
  BY <1>1 DEF StoreInv, StoreHolds
<1>4. pc' = "copy" /\ target \in Eeproms => scratch'[target] \in {mac, NoMac}
  BY <1>1 DEF StoreInv, StoreHolds
<1>5. StoreHolds'
  BY <1>1, <1>2, <1>3, <1>4 DEF StoreInv, StoreHolds, SetpAt
<1>6. (ProgramsTarget /\ PageWhole)'
  BY <1>1, <1>2 DEF ProgramsTarget, PageWhole
<1>7. QED BY <1>5, <1>6 DEF StoreInv

LEMMA CopyStep == ASSUME StoreInv, NEW ok \in BOOLEAN, CopyScratch(ok) PROVE StoreInv'
<1>1. /\ pc = "copy" /\ UNCHANGED << fitted, bus, page, scratch, op, target, mac, before >>
      /\ acked' = {}
      /\ \/ /\ pc' = "answer" /\ S_PWR' = TRUE
            /\ prog' = IF ok /\ target \in bus /\ scratch[target] # NoMac THEN {target} ELSE {}
         \/ pc' = "run" /\ rv' = -1 /\ prog' = prog
  BY DEF CopyScratch, Fails, owWriteBytePower, owLevel, listVars, storeVars
<1>2. op = "setp" /\ Kind(target) = Kind(EEPROM43) /\ prog = {} /\ page = before
  BY <1>1, Quiet DEF StoreInv, StoreHolds, SetpAt
<1>3. target \in bus => target \in Eeproms
  BY <1>2, InContact DEF StoreInv
<1>4. prog' # {} => /\ pc' = "answer" /\ prog' = {target} /\ target \in Eeproms
                    /\ scratch[target] = mac /\ S_PWR'
  BY <1>1, <1>2, <1>3 DEF StoreInv, StoreHolds
<1>5. StoreHolds'
  BY <1>1, <1>2, <1>4 DEF StoreInv, StoreHolds, SetpAt
<1>6. ProgramsTarget'
  BY <1>1, <1>2, <1>4 DEF ProgramsTarget, SetpAt
<1>7. PageWhole'
  BY <1>1, <1>2 DEF PageWhole
<1>8. QED BY <1>5, <1>6, <1>7 DEF StoreInv

LEMMA AnswerStep == ASSUME StoreInv, NEW ok \in BOOLEAN, Answer(ok) PROVE StoreInv'
<1>1. /\ pc = "answer" /\ pc' = "run" /\ prog = {}
      /\ UNCHANGED << fitted, bus, page, scratch, prog, op, target, mac, before >>
      /\ rv' = 0 => target \in acked
      /\ calm' \in {calm, FALSE}
  <2>1. /\ pc = "answer" /\ pc' = "run" /\ prog = {}
        /\ UNCHANGED << fitted, bus, page, scratch, prog, op, target, mac, before >>
    BY DEF Answer, listVars
  <2>2. (ok /\ target \in acked) \/ rv' = -1
    BY DEF Answer
  <2>3. rv' = 0 => target \in acked
    BY <2>2
  <2>4. calm' = calm \/ calm' = FALSE
    BY DEF Answer, Undisturbed, Disturbed
  <2>5. QED BY <2>1, <2>3, <2>4
<1>2. op = "setp" /\ StoreHolds /\ PageWhole
  BY <1>1 DEF StoreInv, StoreHolds
<1>3. StoreHolds'
  BY <1>1, <1>2 DEF StoreHolds, SetpAt
<1>4. \A e \in Eeproms : page[e] = before[e] \/ (e = target /\ (page[e] = mac \/ ~calm'))
  BY <1>1, <1>2 DEF PageWhole
<1>5. rv' = 0 => page = [before EXCEPT ![target] = mac]
  <2> SUFFICES ASSUME rv' = 0 PROVE page = [before EXCEPT ![target] = mac]
    OBVIOUS
  <2>1. target \in Eeproms /\ page[target] = mac
    BY <1>1, <1>2 DEF StoreHolds
  <2>2. \A e \in Eeproms : page[e] = IF e = target THEN mac ELSE before[e]
    BY <1>4, <2>1
  <2>3. /\ page = [e \in Eeproms |-> page[e]]
        /\ [before EXCEPT ![target] = mac] = [e \in Eeproms |-> IF e = target THEN mac ELSE before[e]]
    BY <1>2, <2>1 DEF StoreHolds
  <2>4. QED BY <2>2, <2>3
<1>6. PageWhole'
  BY <1>1, <1>4, <1>5 DEF PageWhole
<1>7. ProgramsTarget'
  BY <1>1 DEF ProgramsTarget
<1>8. QED BY <1>3, <1>6, <1>7 DEF StoreInv

(* The EEPROM copies its scratchpad while the command waits.               *)
LEMMA ProgramStep == ASSUME StoreInv, NEW d \in Pool, Programs(d) PROVE StoreInv'
<1>1. /\ d \in prog /\ StoreHolds /\ PageWhole
      /\ op = "setp" /\ pc = "answer" /\ d = target /\ prog = {d} /\ scratch[d] = mac /\ S_PWR
      /\ d \in Eeproms
  BY DEF Programs, StoreInv, ProgramsTarget, SetpAt, StoreHolds
<1>2. /\ prog' = {} /\ acked' = {d} /\ page' = [page EXCEPT ![d] = mac]
      /\ scratch' = [scratch EXCEPT ![d] = NoMac]
      /\ UNCHANGED << fitted, bus, pc, op, target, mac, before, calm >>
  BY <1>1 DEF Programs, listVars, storeVars, Undisturbed
<1>3. /\ DOMAIN page' = Eeproms /\ page' = [e \in Eeproms |-> page'[e]] /\ page'[d] = mac
      /\ \A e \in Eeproms : e # d => page'[e] = page[e]
      /\ scratch' = [e \in Eeproms |-> scratch'[e]]
  BY <1>1, <1>2 DEF StoreHolds
<1>4. StoreHolds'
  BY <1>1, <1>2, <1>3 DEF StoreHolds, SetpAt
<1>5. PageWhole'
  BY <1>1, <1>2, <1>3 DEF PageWhole
<1>6. ProgramsTarget'
  BY <1>2 DEF ProgramsTarget
<1>7. QED BY <1>4, <1>5, <1>6 DEF StoreInv

(* An EEPROM that is cut off has its own page damaged and no other.        *)
LEMMA CutPages ==
  ASSUME StoreInv, NEW lost, Cut(lost)
  PROVE  /\ prog' = prog \ lost
         /\ DOMAIN page' = Eeproms /\ page' = [e \in Eeproms |-> page'[e]]
         /\ \A e \in Eeproms : e \notin prog \cap lost => page'[e] = page[e]
         /\ prog \cap lost = {} => page' = page
<1>1. PICK outcome \in [prog \cap lost -> {"old", "torn", "new"}] :
        page' = [e \in Eeproms |->
                   IF e \notin DOMAIN outcome \/ outcome[e] = "old" THEN page[e]
                   ELSE IF outcome[e] = "torn" THEN Torn(scratch[e], page[e])
                   ELSE scratch[e]]
  BY DEF Cut
<1>2. DOMAIN outcome = prog \cap lost /\ prog' = prog \ lost
  BY DEF Cut
<1>3. DOMAIN page' = Eeproms /\ page' = [e \in Eeproms |-> page'[e]]
  BY <1>1
<1>4. \A e \in Eeproms : e \notin prog \cap lost => page'[e] = page[e]
  BY <1>1, <1>2
<1>5. prog \cap lost = {} => page' = page
  BY <1>3, <1>4 DEF StoreInv, StoreHolds
<1>6. QED BY <1>2, <1>3, <1>4, <1>5

LEMMA LossStep == ASSUME StoreInv, NEW d \in Pool, LoseContact(d) PROVE StoreInv'
<1>1. /\ bus' = bus \ {d} /\ Cut({d}) /\ acked' = acked \ {d} /\ calm' = FALSE
      /\ scratch' = [e \in Eeproms |-> IF e = d THEN NoMac ELSE scratch[e]]
      /\ UNCHANGED << fitted, pc, op, target, mac, before, rv, fam, num, S_PWR >>
  BY DEF LoseContact, Disturbed, listVars, storeVars
<1>2. /\ prog' = prog \ {d} /\ DOMAIN page' = Eeproms /\ page' = [e \in Eeproms |-> page'[e]]
      /\ \A e \in Eeproms : e \notin prog \cap {d} => page'[e] = page[e]
      /\ prog \cap {d} = {} => page' = page
  BY <1>1, CutPages
<1>3. StoreHolds /\ ProgramsTarget /\ PageWhole
  BY DEF StoreInv
<1>4. pc # "answer" => prog = {} /\ page' = page
  BY <1>2, Quiet
<1>5. StoreHolds'
  <2>1. scratch' = [e \in Eeproms |-> scratch'[e]]
    BY <1>1
  <2>2. SetpAt({"find", "search", "write", "copy"})' => page' = before'
    BY <1>1, <1>3, <1>4 DEF StoreHolds, SetpAt
  <2>3. pc' = "copy" /\ target' \in Eeproms => scratch'[target'] \in {mac', NoMac}
    BY <1>1, <1>3 DEF StoreHolds
  <2>4. pc' = "answer" => /\ acked' \subseteq {target'} \cap Eeproms
                          /\ \A e \in acked' : page'[e] = mac'
    BY <1>1, <1>2, <1>3 DEF StoreHolds
  <2>5. bus' \subseteq fitted' /\ fitted' \subseteq Pool /\ prog' \subseteq Eeproms
    BY <1>1, <1>2, <1>3 DEF StoreHolds
  <2>6. QED BY <1>1, <1>2, <1>3, <2>1, <2>2, <2>3, <2>4, <2>5 DEF StoreHolds, SetpAt
<1>6. ProgramsTarget'
  BY <1>1, <1>2, <1>3 DEF ProgramsTarget, SetpAt, StoreHolds
<1>7. PageWhole'
  <2> SUFFICES ASSUME op = "setp"
               PROVE  /\ \A e \in Eeproms : page'[e] = before[e] \/ e = target
                      /\ pc = "run" /\ rv = 0 => page' = [before EXCEPT ![target] = mac]
    BY <1>1 DEF PageWhole
  <2>1. ASSUME NEW e \in Eeproms, e # target PROVE page'[e] = before[e]
    <3>1. e \notin prog
      BY <1>3, <2>1 DEF ProgramsTarget
    <3>2. page'[e] = page[e]
      BY <1>2, <3>1
    <3>3. QED BY <1>3, <2>1, <3>2 DEF PageWhole
  <2>2. pc = "run" /\ rv = 0 => page' = [before EXCEPT ![target] = mac]
    BY <1>3, <1>4 DEF PageWhole
  <2>3. QED BY <2>1, <2>2
<1>8. QED BY <1>5, <1>6, <1>7 DEF StoreInv

LEMMA ResetStep == ASSUME StoreInv, Reset PROVE StoreInv'
<1>1. /\ Cut(prog) /\ op' = "boot" /\ pc' = "find" /\ UNCHANGED << fitted, bus, scratch >>
  BY DEF Reset
<1>2. prog' = {} /\ DOMAIN page' = Eeproms /\ page' = [e \in Eeproms |-> page'[e]]
  BY <1>1, CutPages
<1>3. StoreHolds'
  BY <1>1, <1>2 DEF StoreInv, StoreHolds, SetpAt
<1>4. (ProgramsTarget /\ PageWhole)'
  BY <1>1, <1>2 DEF ProgramsTarget, PageWhole
<1>5. QED BY <1>3, <1>4 DEF StoreInv

(* A device that comes back, and a sensor that has finished.               *)
LEMMA HarmlessStep ==
  ASSUME StoreInv,
         (\E d \in Pool : RegainContact(d) \/ Converted(d)) \/ UNCHANGED vars
  PROVE  StoreInv'
<1>1. /\ bus' \subseteq fitted
      /\ UNCHANGED << fitted, page, scratch, prog, acked, pc, op, target, mac, before, rv, fam, num,
                      S_PWR, calm >>
  BY DEF RegainContact, Converted, vars, deviceVars, listVars, storeVars, Undisturbed, StoreInv,
    StoreHolds
<1>2. StoreHolds'
  BY <1>1 DEF StoreInv, StoreHolds, SetpAt
<1>3. (ProgramsTarget /\ PageWhole)'
  BY <1>1 DEF StoreInv, ProgramsTarget, PageWhole, SetpAt
<1>4. QED BY <1>2, <1>3 DEF StoreInv

(* StoreInv is inductive.                                                  *)
LEMMA NextStore == StoreInv /\ [Next]_vars => StoreInv'
<1> SUFFICES ASSUME StoreInv, [Next]_vars PROVE StoreInv'
  OBVIOUS
<1>1. CASE Step
  <2>1. CASE Boot
    BY <2>1, OtherStep, FindStep DEF Boot
  <2>2. CASE Store
    BY <2>2, WriteStep, CopyStep, AnswerStep DEF Store
  <2>3. CASE FilterOff \/ FilterLoad \/ Temp
    BY <2>3, OtherStep
  <2>4. QED BY <1>1, <2>1, <2>2, <2>3 DEF Step
<1>2. CASE Command
  BY <1>2, CommandStep
<1>3. CASE Devices
  BY <1>3, ProgramStep, HarmlessStep DEF Devices
<1>4. CASE Faults
  BY <1>4, LossStep, ResetStep, HarmlessStep DEF Faults
<1>5. CASE UNCHANGED vars
  BY <1>5, HarmlessStep
<1>6. QED BY <1>1, <1>2, <1>3, <1>4, <1>5 DEF Next

(* "mac setp" never damages a page undisturbed, never touches more than    *)
(* one EEPROM, and stored what it says it has (set_persistent_mac,         *)
(* Write43, Copy2Mem43).                                                   *)
THEOREM PagesWhole == Spec => []PageWhole
<1>1. StoreInv => PageWhole
  BY DEF StoreInv
<1>2. QED BY <1>1, InitStore, NextStore, PTL DEF Spec

(***************************************************************************)
(* The search.                                                             *)
(***************************************************************************)
(* Two devices that agree so far split, or do not, at the same places.     *)
LEMMA SplitsAlike ==
  ASSUME NEW d, NEW e, NEW n \in Nat, \A m \in 1 .. n - 1 : e[m] = d[m]
  PROVE  Splits(d, n) <=> Splits(e, n)
BY DEF Splits, owTouchBit

LEMMA SplitsFor ==
  ASSUME NEW d, NEW e, NEW n \in 1 .. RomBits, bus \subseteq Rom, d \in bus, e \in bus,
         \A m \in 1 .. n - 1 : e[m] = d[m], e[n] # d[n]
  PROVE  Splits(d, n)
<1>1. d[n] \in {0, 1} /\ e[n] \in {0, 1}
  BY DEF Rom
<1>2. QED BY <1>1 DEF Splits, owTouchBit

LEMMA SplitsAt ==
  ASSUME NEW d, NEW n, Splits(d, n), NEW z \in {0, 1}
  PROVE  \E e \in bus : e[n] = z /\ \A m \in 1 .. n - 1 : e[m] = d[m]
BY DEF Splits, owTouchBit

(* Whatever paths it takes, a search ends at a device that is there.       *)
LEMMA SomeFollowed ==
  ASSUME bus \subseteq Rom, bus # {}, RomBits \in Nat, \A n \in 1 .. RomBits : Taken(n) \in {0, 1}
  PROVE  Followed \in bus /\ \A n \in 1 .. RomBits : Splits(Followed, n) => Followed[n] = Taken(n)
<1> DEFINE Upto(d, k) == \A n \in 1 .. k : Splits(d, n) => d[n] = Taken(n)
           T == { k \in 0 .. RomBits : ~\E d \in bus : Upto(d, k) }
<1>1. ASSUME NEW k \in 0 .. RomBits - 1, NEW d \in bus, Upto(d, k)
      PROVE  \E e \in bus : Upto(e, k + 1)
  <2>0. k + 1 \in 1 .. RomBits /\ k + 1 - 1 = k
    OBVIOUS
  <2>1. CASE Splits(d, k + 1) /\ d[k + 1] # Taken(k + 1)
    <3>1. Taken(k + 1) \in {0, 1}
      BY <2>0
    <3>2. PICK e \in bus : e[k + 1] = Taken(k + 1) /\ \A m \in 1 .. k + 1 - 1 : e[m] = d[m]
      BY <2>1, <3>1, SplitsAt
    <3>3. ASSUME NEW n \in 1 .. k, Splits(e, n) PROVE e[n] = Taken(n)
      <4>1. n \in Nat /\ \A m \in 1 .. n - 1 : e[m] = d[m]
        BY <3>2
      <4>2. Splits(d, n)
        BY <3>3, <4>1, SplitsAlike
      <4>3. QED BY <1>1, <3>2, <4>2
    <3>4. ASSUME NEW n \in 1 .. k + 1, Splits(e, n) PROVE e[n] = Taken(n)
      <4>1. n = k + 1 \/ n \in 1 .. k
        OBVIOUS
      <4>2. QED BY <3>2, <3>3, <3>4, <4>1
    <3>5. QED BY <3>4
  <2>2. CASE ~(Splits(d, k + 1) /\ d[k + 1] # Taken(k + 1))
    <3>1. ASSUME NEW n \in 1 .. k + 1, Splits(d, n) PROVE d[n] = Taken(n)
      <4>1. n = k + 1 \/ n \in 1 .. k
        OBVIOUS
      <4>2. QED BY <1>1, <2>2, <3>1, <4>1
    <3>2. QED BY <3>1
  <2>3. QED BY <2>1, <2>2
<1>2. T = {}
  <2> SUFFICES ASSUME T # {} PROVE FALSE
    OBVIOUS
  <2>1. PICK k \in T : \A j \in T : k <= j
    <3>1. T \subseteq Nat
      OBVIOUS
    <3> HIDE DEF T
    <3>2. QED BY <3>1, LeastMember
  <2>2. \E d \in bus : Upto(d, 0)
    OBVIOUS
  <2> HIDE DEF Upto
  <2>3. k \in 1 .. RomBits
    BY <2>1, <2>2
  <2>4. k - 1 \in 0 .. RomBits - 1 /\ k - 1 \notin T /\ k - 1 + 1 = k
    BY <2>1, <2>3
  <2>5. PICK d \in bus : Upto(d, k - 1)
    BY <2>4
  <2>6. \E e \in bus : Upto(e, k)
    BY <1>1, <2>4, <2>5
  <2>7. QED BY <2>1, <2>6
<1>3. \E d \in bus : Upto(d, RomBits)
  <2>1. RomBits \notin T
    BY <1>2
  <2> HIDE DEF Upto
  <2>2. QED BY <2>1
<1>4. QED BY <1>3 DEF Followed

(* The kind of a code is its first seven bits.                             *)
LEMMA SameKind ==
  ASSUME NEW c, NEW d
  PROVE  Kind(c) = Kind(d) <=> \A n \in 1 .. FamilyBits - 1 : c[n] = d[n]
BY DEF Kind, FamilyBits

(* A search for one family finds a device of it first, if there is one.    *)
LEMMA FamilyFirst ==
  ASSUME NEW code, \A n \in 1 .. FamilyBits : code[n] \in {0, 1} /\ SerialNum[n] = code[n],
         LastDiscrepancy = RomBits, \A n \in 1 .. RomBits : SerialNum[n] \in {0, 1},
         bus \subseteq Rom, NEW e \in bus, Kind(e) = Kind(code)
  PROVE  Followed \in bus /\ Kind(Followed) = Kind(code)
<1>0. RomBits \in Nat /\ RomBits > FamilyBits /\ FamilyBits = 8
  BY OneWireAssumption DEF FamilyBits
<1>1. \A n \in 1 .. RomBits : Taken(n) \in {0, 1}
  BY <1>0 DEF Taken
<1>2. Followed \in bus /\ \A n \in 1 .. RomBits : Splits(Followed, n) => Followed[n] = Taken(n)
  BY <1>0, <1>1, SomeFollowed
<1> DEFINE T == { n \in 1 .. FamilyBits - 1 : Followed[n] # code[n] }
<1>3. T = {}
  <2> SUFFICES ASSUME T # {} PROVE FALSE
    OBVIOUS
  <2>1. PICK n \in T : \A m \in T : n <= m
    <3>1. T \subseteq Nat
      OBVIOUS
    <3> HIDE DEF T
    <3>2. QED BY <3>1, LeastMember
  <2>2. n \in 1 .. RomBits /\ n \in 1 .. FamilyBits - 1 /\ Followed[n] # code[n]
    BY <1>0, <2>1
  <2>3. \A m \in 1 .. FamilyBits - 1 : e[m] = code[m]
    BY SameKind
  <2>4. \A m \in 1 .. n - 1 : e[m] = Followed[m]
    <3> SUFFICES ASSUME NEW m \in 1 .. n - 1 PROVE e[m] = Followed[m]
      OBVIOUS
    <3>1. m \in 1 .. FamilyBits - 1 /\ m \notin T
      BY <2>1, <2>2, <1>0
    <3>2. QED BY <2>3, <3>1
  <2>5. Splits(Followed, n)
    BY <1>2, <2>2, <2>3, <2>4, SplitsFor
  <2>6. Followed[n] = SerialNum[n]
    BY <1>0, <1>2, <2>2, <2>5 DEF Taken
  <2>7. QED BY <2>2, <2>6, <1>0
<1>4. QED BY <1>2, <1>3, SameKind

(***************************************************************************)
(* "mac setp" undisturbed.                                                 *)
(***************************************************************************)
LEMMA StoredMac == NoMac \notin Entered
<1>1. ASSUME NEW m \in Entered PROVE m \in Mac
  <2>1. m \in [1 .. 6 -> 0 .. 255]
    BY MacAssumption
  <2>2. Oui(m) \o Low(m) = m
    BY <2>1 DEF Oui, Low
  <2>3. QED BY <2>2 DEF Mac
<1>2. QED BY <1>1, MacAssumption

LEMMA Appended ==
  ASSUME NEW a \in Nat, NEW b \in Nat, NEW f \in [1 .. a -> {0, 1}], NEW g \in [1 .. b -> {0, 1}]
  PROVE  f \o g \in [1 .. a + b -> {0, 1}] /\ \A n \in 1 .. a : (f \o g)[n] = f[n]
<1>1. f \in Seq({0, 1}) /\ Len(f) = a /\ g \in Seq({0, 1}) /\ Len(g) = b
  OBVIOUS
<1>2. f \o g \in Seq({0, 1}) /\ Len(f \o g) = a + b
  BY <1>1
<1>3. f \o g \in [1 .. a + b -> {0, 1}]
  BY <1>2, LenProperties
<1>4. \A n \in 1 .. a : (f \o g)[n] = f[n]
  BY <1>1
<1>5. QED BY <1>3, <1>4

LEMMA SetupBits ==
  LET s == EEPROM43 \o [i \in 1 .. RomBits - FamilyBits |-> 0] IN
         /\ \A n \in 1 .. RomBits : s[n] \in {0, 1}
         /\ \A n \in 1 .. FamilyBits : EEPROM43[n] \in {0, 1} /\ s[n] = EEPROM43[n]
<1> DEFINE zeros == [i \in 1 .. RomBits - FamilyBits |-> 0]
<1>1. /\ FamilyBits \in Nat /\ RomBits - FamilyBits \in Nat
      /\ FamilyBits + (RomBits - FamilyBits) = RomBits
  BY OneWireAssumption DEF FamilyBits
<1>2. EEPROM43 \in [1 .. FamilyBits -> {0, 1}]
  BY DEF EEPROM43, Code, FamilyBits
<1>3. zeros \in [1 .. RomBits - FamilyBits -> {0, 1}]
  OBVIOUS
<1> HIDE DEF zeros
<1>4. EEPROM43 \o zeros \in [1 .. RomBits -> {0, 1}] /\ \A n \in 1 .. FamilyBits : (EEPROM43 \o zeros)[n] = EEPROM43[n]
  <2> DEFINE a == FamilyBits
             b == RomBits - FamilyBits
  <2>1. a \in Nat /\ b \in Nat /\ a + b = RomBits
    BY <1>1
  <2>2. EEPROM43 \in [1 .. a -> {0, 1}] /\ zeros \in [1 .. b -> {0, 1}]
    BY <1>2, <1>3
  <2> HIDE DEF a, b
  <2>3. /\ EEPROM43 \o zeros \in [1 .. a + b -> {0, 1}]
        /\ \A n \in 1 .. a : (EEPROM43 \o zeros)[n] = EEPROM43[n]
    BY <2>1, <2>2, Appended
  <2>4. QED BY <2>1, <2>3 DEF a
<1>5. /\ \A n \in 1 .. RomBits : (EEPROM43 \o zeros)[n] \in {0, 1}
      /\ \A n \in 1 .. FamilyBits : EEPROM43[n] \in {0, 1} /\ (EEPROM43 \o zeros)[n] = EEPROM43[n]
  <2> DEFINE s == EEPROM43 \o zeros
  <2>1. s \in [1 .. RomBits -> {0, 1}] /\ \A n \in 1 .. FamilyBits : s[n] = EEPROM43[n]
    BY <1>4
  <2> HIDE DEF s
  <2>2. QED BY <1>2, <2>1 DEF s
<1>6. QED BY <1>5 DEF zeros

(* With every bit read, it is the device.                                  *)
LEMMA AllRead ==
  ASSUME NEW d \in Rom, NEW s
  PROVE  SubSeq(d, 1, RomBits) \o SubSeq(s, RomBits + 1, RomBits) = d
BY OneWireAssumption DEF Rom

LEMMA CalmBus == ASSUME CalmHolds, [Next]_vars PROVE calm' => bus' = fitted'
<1> USE DEF CalmHolds, Undisturbed, Disturbed, deviceVars
<1>1. CASE Step
  BY <1>1 DEF Step, Boot, Store, Temp, FindDevices, Search, Device, TakeSerial, TakePage, PassOver, DevicesDone,
    EpInit, EpEnable, FilterOff, FilterLoad, WriteScratch, CopyScratch, Answer, TempWait, TempConvert
<1>2. CASE Command
  BY <1>2 DEF Command, MacSet, SetPersistent, GetPersistent, TempStart, Starts
<1>3. CASE Devices
  BY <1>3 DEF Devices, Programs, Converted
<1>4. CASE Faults
  BY <1>4 DEF Faults, LoseContact, RegainContact, Reset
<1>5. CASE UNCHANGED vars
  BY <1>5 DEF vars
<1>6. QED BY <1>1, <1>2, <1>3, <1>4, <1>5 DEF Next

(* Elsewhere nothing is asked of a step but to keep in contact.            *)
LEMMA ElsewhereCalm ==
  ASSUME CalmInv, [Next]_vars, op' # "setp"
  PROVE  (CalmHolds /\ FailsForWant)'
<1>1. calm' => bus' = fitted'
  BY CalmBus DEF CalmInv
<1>2. QED BY <1>1 DEF CalmHolds, FailsForWant, SetpAt

(* A step that has no part in "mac setp".                                  *)
LEMMA AsideCalm ==
  ASSUME CalmInv, [Next]_vars,
         \/ Device \/ DevicesDone \/ EpInit \/ EpEnable \/ FilterOff \/ FilterLoad \/ Temp
         \/ Reset
         \/ op # "setp" /\ (FindDevices \/ (\E held \in Held : Search(held)))
         \/ (\E m \in Entered : MacSet(m)) \/ GetPersistent \/ \E answer \in {0, 255} : TempStart(answer)
  PROVE  (CalmHolds /\ FailsForWant)'
<1>1. op' # "setp"
  <2>1. CASE (\E m \in Entered : MacSet(m)) \/ GetPersistent \/ (\E answer \in {0, 255} : TempStart(answer)) \/ Reset
    BY <2>1 DEF MacSet, GetPersistent, TempStart, Starts, Reset
  <2>2. CASE Device \/ DevicesDone \/ EpInit \/ EpEnable \/ FilterOff \/ FilterLoad \/ Temp
    BY <2>2 DEF CalmInv, StoreInv, StoreHolds, Device, DevicesDone, EpInit, EpEnable, FilterOff,
      FilterLoad,
      Temp, TempWait, TempConvert
  <2>3. CASE op # "setp" /\ (FindDevices \/ (\E held \in Held : Search(held)))
    BY <2>3 DEF FindDevices, Search, Ends, ScanGoesOn
  <2>4. QED BY <2>1, <2>2, <2>3
<1>2. QED BY <1>1, ElsewhereCalm

LEMMA BeginCalm ==
  ASSUME CalmInv, [Next]_vars, NEW m \in Entered, SetPersistent(m)
  PROVE  (CalmHolds /\ FailsForWant)'
<1>1. calm' => bus' = fitted'
  BY CalmBus DEF CalmInv
<1>2. op' = "setp" /\ pc' = "find" /\ mac' = m
  BY DEF SetPersistent, Starts
<1>3. QED BY <1>1, <1>2 DEF CalmHolds, FailsForWant, SetpAt

LEMMA SetupCalm ==
  ASSUME CalmInv, [Next]_vars, op = "setp", FindDevices
  PROVE  (CalmHolds /\ FailsForWant)'
<1>1. calm' => bus' = fitted'
  BY CalmBus DEF CalmInv
<1>2. pc = "find" /\ op' = op /\ pc' = "search" /\ mac' = mac /\ Setup(Families[fam])
  BY DEF FindDevices
<1>3. fam = Len(Families)
  BY <1>2 DEF CalmInv, StoreInv, StoreHolds, SetpAt
<1>4. Setup(EEPROM43)
  BY <1>2, <1>3 DEF Families
<1>5. QED BY <1>1, <1>2, <1>4 DEF CalmInv, CalmHolds, FailsForWant, SetpAt, Setup

(* The search finds an EEPROM if there is one.                             *)
LEMMA SearchCalm ==
  ASSUME CalmInv, [Next]_vars, op = "setp", NEW held \in Held, Search(held)
  PROVE  (CalmHolds /\ FailsForWant)'
<1>1. calm' => bus' = fitted'
  BY CalmBus DEF CalmInv
<1>2. /\ pc = "search" /\ fam = Len(Families) /\ num = 0 /\ page = before /\ mac \in Entered
      /\ LastDiscrepancy = RomBits /\ LastDevice = FALSE
      /\ SerialNum = EEPROM43 \o [i \in 1 .. RomBits - FamilyBits |-> 0]
  BY DEF Search, CalmInv, StoreInv, StoreHolds, CalmHolds, SetpAt
<1>3. op' = op /\ UNCHANGED << fitted, bus, page, before, mac, scratch, prog >>
  BY <1>2 DEF Search, Ends, SetpGoesOn
<1>4. bus \subseteq Rom /\ fitted \subseteq Pool
  BY OneWireAssumption DEF CalmInv, StoreInv, StoreHolds
<1>5. calm' => calm /\ held = RomBits /\ bus = fitted
  BY <1>1, <1>3 DEF Search, Undisturbed, Disturbed
<1>6. CASE Found(held)
  <2>1. LET n == IF Kind(SerialNum') = Kind(EEPROM43) THEN 1 ELSE 0
        IN  target' = SerialNum' /\ SetpGoesOn(n)
    <3>1. Kind(Families[fam]) = Kind(EEPROM43)
      BY <1>2 DEF Families
    <3>2. QED BY <1>2, <1>6, <3>1 DEF Search, MAXDEVICES, Ends
  <2>2. pc' \in {"write", "run"} /\ (pc' = "run" => Kind(SerialNum') # Kind(EEPROM43))
    BY <1>2, <2>1 DEF SetpGoesOn
  <2>3. bus # {} /\ held = RomBits
    BY <1>6 DEF Found, owTouchReset
  <2>4. \A n \in 1 .. RomBits : Taken(n) \in {0, 1}
    BY <1>2, SetupBits DEF Taken
  <2>5. Followed \in bus
    BY <1>4, <2>3, <2>4, SomeFollowed, OneWireAssumption
  <2>6. SerialNum' = Followed
    <3>1. SerialNum' = SubSeq(Followed, 1, RomBits) \o SubSeq(SerialNum, RomBits + 1, RomBits)
      BY <1>2, <2>3 DEF Search, owNext, owTouchReset
    <3>2. QED BY <1>4, <2>5, <3>1, AllRead
  <2>7. pc' = "run" => Members(bus, EEPROM43) = {}
    <3>1. ASSUME NEW e \in bus, Kind(e) = Kind(EEPROM43) PROVE Kind(Followed) = Kind(EEPROM43)
      BY <1>2, <1>4, <3>1, SetupBits, FamilyFirst
    <3>2. QED BY <2>2, <2>6, <3>1 DEF Members
  <2>8. CalmHolds'
    BY <1>1, <1>2, <1>3, <2>1, <2>2, <2>5, <2>6 DEF CalmHolds, SetpAt
  <2>9. FailsForWant'
    BY <1>2, <1>3, <1>5, <2>7 DEF FailsForWant
  <2>10. QED BY <2>8, <2>9
<1>7. CASE ~Found(held)
  <2>1. pc' = "run"
    BY <1>2, <1>7 DEF Search, Ends, SetpGoesOn
  <2>2. calm' => fitted = {}
    BY <1>2, <1>5, <1>7 DEF Found, owTouchReset
  <2>3. CalmHolds'
    BY <1>1, <1>2, <1>3, <2>1 DEF CalmHolds, SetpAt
  <2>4. FailsForWant'
    BY <1>2, <1>3, <2>2 DEF FailsForWant, Members
  <2>5. QED BY <2>3, <2>4
<1>8. QED BY <1>6, <1>7

LEMMA WriteCalm ==
  ASSUME CalmInv, [Next]_vars, NEW ok \in BOOLEAN, WriteScratch(ok)
  PROVE  (CalmHolds /\ FailsForWant)'
<1>1. calm' => bus' = fitted'
  BY CalmBus DEF CalmInv
<1>2. /\ pc = "write" /\ UNCHANGED << fitted, bus, page, prog, op, target, mac, before >>
      /\ scratch' = IF target \in bus THEN [scratch EXCEPT ![target] = IF ok THEN mac ELSE NoMac]
                    ELSE scratch
      /\ \/ pc' = "copy"
         \/ pc' = "run" /\ ~(owTouchReset /\ ok /\ target \in bus)
      /\ calm' => calm /\ ok
  BY DEF WriteScratch, Fails, Echoes, listVars, storeVars, Undisturbed, Disturbed
<1>3. op = "setp" /\ Kind(target) = Kind(EEPROM43) /\ mac \in Entered
  BY <1>2 DEF CalmInv, StoreInv, StoreHolds, CalmHolds
<1>4. calm' => target \in bus /\ target \in Eeproms /\ pc' = "copy"
  <2>1. calm => target \in bus
    BY <1>2, <1>3 DEF CalmInv, CalmHolds, SetpAt
  <2>2. target \in bus => target \in Eeproms
    BY <1>3, InContact DEF CalmInv, StoreInv
  <2>3. QED BY <1>2, <2>1, <2>2 DEF owTouchReset
<1>5. calm' => scratch'[target] = mac
  <2>1. scratch = [e \in Eeproms |-> scratch[e]]
    BY DEF CalmInv, StoreInv, StoreHolds
  <2>2. QED BY <1>2, <1>4, <2>1
<1>6. CalmHolds'
  BY <1>1, <1>2, <1>3, <1>4, <1>5 DEF CalmHolds, SetpAt
<1>7. FailsForWant'
  BY <1>4 DEF FailsForWant
<1>8. QED BY <1>6, <1>7

LEMMA CopyCalm ==
  ASSUME CalmInv, [Next]_vars, NEW ok \in BOOLEAN, CopyScratch(ok)
  PROVE  (CalmHolds /\ FailsForWant)'
<1>1. calm' => bus' = fitted'
  BY CalmBus DEF CalmInv
<1>2. /\ pc = "copy" /\ UNCHANGED << fitted, bus, page, scratch, op, target, mac, before >>
      /\ \/ /\ pc' = "answer"
            /\ prog' = IF ok /\ target \in bus /\ scratch[target] # NoMac THEN {target} ELSE {}
         \/ pc' = "run" /\ ~owTouchReset
      /\ calm' => calm /\ ok
  BY DEF CopyScratch, Fails, Echoes, listVars, storeVars, Undisturbed, Disturbed
<1>3. op = "setp" /\ mac \in Entered
  BY <1>2 DEF CalmInv, StoreInv, StoreHolds, CalmHolds
<1>4. calm' => target \in bus /\ scratch[target] = mac
  BY <1>2, <1>3 DEF CalmInv, CalmHolds, SetpAt
<1>5. calm' => pc' = "answer" /\ prog' = {target}
  BY <1>2, <1>3, <1>4, StoredMac DEF owTouchReset
<1>6. CalmHolds'
  BY <1>1, <1>2, <1>3, <1>4, <1>5 DEF CalmHolds, SetpAt
<1>7. FailsForWant'
  BY <1>5 DEF FailsForWant
<1>8. QED BY <1>6, <1>7

LEMMA AnswerCalm ==
  ASSUME CalmInv, [Next]_vars, NEW ok \in BOOLEAN, Answer(ok)
  PROVE  (CalmHolds /\ FailsForWant)'
<1>1. calm' => bus' = fitted'
  BY CalmBus DEF CalmInv
<1>2. /\ pc = "answer" /\ pc' = "run" /\ prog = {} /\ op' = op /\ mac' = mac
      /\ calm' => calm /\ ok
      /\ ok /\ target \in acked => rv' = 0
  BY DEF Answer, listVars, Undisturbed, Disturbed
<1>3. op = "setp" /\ mac \in Entered
  BY <1>2 DEF CalmInv, StoreInv, StoreHolds, CalmHolds
<1>4. calm' => rv' = 0
  BY <1>2, <1>3 DEF CalmInv, CalmHolds, SetpAt
<1>5. CalmHolds'
  BY <1>1, <1>2, <1>3 DEF CalmHolds, SetpAt
<1>6. FailsForWant'
  BY <1>4 DEF FailsForWant
<1>7. QED BY <1>5, <1>6

LEMMA ProgramCalm ==
  ASSUME CalmInv, [Next]_vars, NEW d \in Pool, Programs(d)
  PROVE  (CalmHolds /\ FailsForWant)'
<1>1. calm' => bus' = fitted'
  BY CalmBus DEF CalmInv
<1>2. d \in prog /\ op = "setp" /\ pc = "answer" /\ d = target /\ S_PWR /\ mac \in Entered
  BY DEF Programs, CalmInv, CalmHolds, StoreInv, ProgramsTarget, SetpAt
<1>3. acked' = {d} /\ UNCHANGED << bus, pc, op, target, mac, calm >>
  BY <1>2 DEF Programs, listVars, Undisturbed
<1>4. calm => target \in bus
  BY <1>2 DEF CalmInv, CalmHolds, SetpAt
<1>5. CalmHolds'
  BY <1>1, <1>2, <1>3, <1>4 DEF CalmHolds, SetpAt
<1>6. FailsForWant'
  BY <1>2, <1>3 DEF FailsForWant
<1>7. QED BY <1>5, <1>6

(* Whoever loses contact disturbs; a sensor that has finished does not.    *)
LEMMA OutsideCalm ==
  ASSUME CalmInv, [Next]_vars,
         (\E d \in Pool : LoseContact(d) \/ RegainContact(d) \/ Converted(d)) \/ UNCHANGED vars
  PROVE  (CalmHolds /\ FailsForWant)'
<1>1. UNCHANGED << fitted, pc, op, mac, searchVars, target, rv, before >>
  BY DEF LoseContact, RegainContact, Converted, vars, listVars, storeVars
<1>2. calm' => calm /\ UNCHANGED << bus, page, scratch, prog, acked >>
  <2>1. CASE \E d \in Pool : LoseContact(d)
    BY <2>1 DEF LoseContact, Disturbed
  <2>2. CASE \E d \in Pool : RegainContact(d)
    <3>1. calm => fitted \ bus = {}
      BY DEF CalmInv, CalmHolds
    <3>2. QED BY <2>2, <3>1 DEF RegainContact, Undisturbed
  <2>3. CASE (\E d \in Pool : Converted(d)) \/ UNCHANGED vars
    BY <2>3 DEF Converted, Undisturbed, vars, deviceVars
  <2>4. QED BY <2>1, <2>2, <2>3
<1>3. CalmHolds'
  BY <1>1, <1>2 DEF CalmInv, CalmHolds, SetpAt, searchVars
<1>4. FailsForWant'
  BY <1>1, <1>2 DEF CalmInv, FailsForWant
<1>5. QED BY <1>3, <1>4

LEMMA InitCalm == Init => CalmInv
<1> SUFFICES ASSUME Init PROVE CalmInv
  OBVIOUS
<1>1. bus = fitted /\ op = "boot"
  BY DEF Init, Statics
<1>2. QED BY <1>1, InitStore DEF CalmInv, CalmHolds, FailsForWant, SetpAt

(* CalmInv is inductive.                                                   *)
LEMMA NextCalm == CalmInv /\ [Next]_vars => CalmInv'
<1> SUFFICES ASSUME CalmInv, [Next]_vars PROVE CalmInv'
  OBVIOUS
<1>1. StoreInv'
  BY NextStore DEF CalmInv
<1>2. (CalmHolds /\ FailsForWant)'
  <2>1. CASE Step
    <3>1. CASE Boot
      BY <3>1, AsideCalm, SetupCalm, SearchCalm DEF Boot
    <3>2. CASE Store
      BY <3>2, WriteCalm, CopyCalm, AnswerCalm DEF Store
    <3>3. CASE FilterOff \/ FilterLoad \/ Temp
      BY <3>3, AsideCalm
    <3>4. QED BY <2>1, <3>1, <3>2, <3>3 DEF Step
  <2>2. CASE Command
    BY <2>2, AsideCalm, BeginCalm DEF Command
  <2>3. CASE Devices
    BY <2>3, ProgramCalm, OutsideCalm DEF Devices
  <2>4. CASE Faults
    BY <2>4, AsideCalm, OutsideCalm DEF Faults
  <2>5. CASE UNCHANGED vars
    BY <2>5, OutsideCalm
  <2>6. QED BY <2>1, <2>2, <2>3, <2>4, <2>5 DEF Next
<1>3. QED BY <1>1, <1>2 DEF CalmInv

(* "mac setp" undisturbed fails for want of an EEPROM only, whatever       *)
(* devices are on the bus (set_persistent_mac, FindDevices, owNext,        *)
(* Write43).                                                               *)
THEOREM StoresUndisturbed == Spec => []StoresWhole
<1>1. CalmInv => StoresWhole
  BY DEF CalmInv, StoreInv, StoresWhole
<1>2. QED BY <1>1, InitCalm, NextCalm, PTL DEF Spec

(***************************************************************************)
(* The order of the devices.                                               *)
(***************************************************************************)
LEMMA FirstDifference ==
  ASSUME NEW c \in Rom, NEW d \in Rom, c # d
  PROVE  \E n \in 1 .. RomBits : c[n] # d[n] /\ \A m \in 1 .. n - 1 : c[m] = d[m]
<1> DEFINE T == { n \in 1 .. RomBits : c[n] # d[n] }
<1>0. RomBits \in Nat
  BY OneWireAssumption
<1>1. T \subseteq Nat /\ T # {}
  BY <1>0 DEF Rom
<1>2. PICK n \in T : \A m \in T : n <= m
  <2> HIDE DEF T
  <2>1. QED BY <1>1, LeastMember
<1>3. ASSUME NEW m \in 1 .. n - 1 PROVE c[m] = d[m]
  BY <1>0, <1>2
<1>4. QED BY <1>2, <1>3

LEMMA Ordered ==
  ASSUME NEW c \in Rom, NEW d \in Rom
  PROVE  (c = d \/ Before(c, d) \/ Before(d, c)) /\ ~(Before(c, d) /\ Before(d, c)) /\ ~Before(c, c)
<1>0. RomBits \in Nat
  BY OneWireAssumption
<1>1. c = d \/ Before(c, d) \/ Before(d, c)
  <2> SUFFICES ASSUME c # d PROVE Before(c, d) \/ Before(d, c)
    OBVIOUS
  <2>1. PICK n \in 1 .. RomBits : c[n] # d[n] /\ \A m \in 1 .. n - 1 : c[m] = d[m]
    BY FirstDifference
  <2>2. c[n] \in {0, 1} /\ d[n] \in {0, 1}
    BY DEF Rom
  <2>3. c[n] < d[n] \/ d[n] < c[n]
    BY <2>1, <2>2
  <2>4. QED BY <2>1, <2>3 DEF Before
<1>2. ASSUME Before(c, d), Before(d, c) PROVE FALSE
  <2>1. PICK n \in 1 .. RomBits : c[n] < d[n] /\ \A m \in 1 .. n - 1 : c[m] = d[m]
    BY <1>2 DEF Before
  <2>2. PICK k \in 1 .. RomBits : d[k] < c[k] /\ \A m \in 1 .. k - 1 : c[m] = d[m]
    BY <1>2 DEF Before
  <2>3. \A m \in 1 .. RomBits : c[m] \in Int /\ d[m] \in Int
    BY DEF Rom
  <2>4. n = k
    BY <1>0, <2>1, <2>2, <2>3
  <2>5. QED BY <2>1, <2>2, <2>3, <2>4
<1>3. ~Before(c, c)
  <2>1. \A m \in 1 .. RomBits : c[m] \in Int
    BY DEF Rom
  <2>2. QED BY <2>1 DEF Before
<1>4. QED BY <1>1, <1>2, <1>3

LEMMA BeforeThat ==
  ASSUME NEW c \in Rom, NEW d \in Rom, NEW e \in Rom, Before(c, d), Before(d, e)
  PROVE  Before(c, e)
<1>0. RomBits \in Nat
  BY OneWireAssumption
<1>1. PICK n \in 1 .. RomBits : c[n] < d[n] /\ \A m \in 1 .. n - 1 : c[m] = d[m]
  BY DEF Before
<1>2. PICK k \in 1 .. RomBits : d[k] < e[k] /\ \A m \in 1 .. k - 1 : d[m] = e[m]
  BY DEF Before
<1>3. \A m \in 1 .. RomBits : c[m] \in Int /\ d[m] \in Int /\ e[m] \in Int
  BY DEF Rom
<1> DEFINE l == IF n <= k THEN n ELSE k
<1>4. l \in 1 .. RomBits /\ c[l] < e[l]
  <2>1. CASE n < k
    BY <1>0, <1>1, <1>2, <1>3, <2>1
  <2>2. CASE n = k
    BY <1>0, <1>1, <1>2, <1>3, <2>2
  <2>3. CASE n > k
    BY <1>0, <1>1, <1>2, <1>3, <2>3
  <2>4. QED BY <1>0, <2>1, <2>2, <2>3
<1>5. \A m \in 1 .. l - 1 : c[m] = e[m]
  BY <1>0, <1>1, <1>2
<1>6. QED BY <1>4, <1>5 DEF Before

(***************************************************************************)
(* Places.                                                                 *)
(***************************************************************************)
LEMMA PlaceType ==
  ASSUME NEW S, IsFiniteSet(S), NEW d
  PROVE  /\ IsFiniteSet({ c \in S : c = d \/ Before(c, d) })
         /\ Place(S, d) \in 0 .. Cardinality(S) /\ Cardinality(S) \in Nat
<1> DEFINE U == { c \in S : c = d \/ Before(c, d) }
<1>1. U \in SUBSET S
  OBVIOUS
<1>2. IsFiniteSet(U) /\ Cardinality(U) <= Cardinality(S)
  BY <1>1, FS_Subset
<1>3. Cardinality(U) \in Nat /\ Cardinality(S) \in Nat
  BY <1>2, FS_CardinalityType
<1>4. QED BY <1>2, <1>3 DEF Place

LEMMA PlaceLess ==
  ASSUME NEW S, IsFiniteSet(S), S \subseteq Rom, NEW c \in Rom, NEW d \in S, Before(c, d)
  PROVE  Place(S, c) < Place(S, d)
<1> DEFINE U == { e \in S : e = c \/ Before(e, c) }
           V == { e \in S : e = d \/ Before(e, d) }
<1>1. U \in SUBSET V /\ d \in V /\ d \notin U
  <2>1. \A e \in S : Before(e, c) => Before(e, d)
    BY BeforeThat
  <2>2. d # c /\ ~Before(d, c)
    BY Ordered
  <2>3. QED BY <2>1, <2>2
<1>2. IsFiniteSet(V) /\ IsFiniteSet(U) /\ Cardinality(U) \in Nat /\ Cardinality(V) \in Nat
  BY PlaceType DEF Place
<1>3. Cardinality(U) <= Cardinality(V) /\ (Cardinality(U) = Cardinality(V) => U = V)
  <2> HIDE DEF U, V
  <2>1. QED BY <1>1, <1>2, FS_Subset
<1>4. Cardinality(U) < Cardinality(V)
  BY <1>1, <1>2, <1>3
<1>5. QED BY <1>4 DEF Place

LEMMA InPlace ==
  ASSUME NEW S, IsFiniteSet(S), S \subseteq Rom, NEW d \in S
  PROVE  Place(S, d) \in 1 .. Cardinality(S) /\ InOrder(S)[Place(S, d)] = d
<1> DEFINE U == { c \in S : c = d \/ Before(c, d) }
<1>1. Place(S, d) \in 0 .. Cardinality(S) /\ IsFiniteSet(U) /\ Cardinality(S) \in Nat
  BY PlaceType
<1>2. Place(S, d) # 0
  <2>1. d \in U
    OBVIOUS
  <2>2. Cardinality(U) # 0
    <3> HIDE DEF U
    <3>1. QED BY <1>1, <2>1, FS_EmptySet
  <2>3. QED BY <2>2 DEF Place
<1>3. \A c \in S : Place(S, c) = Place(S, d) => c = d
  <2> SUFFICES ASSUME NEW c \in S, c # d PROVE Place(S, c) # Place(S, d)
    OBVIOUS
  <2>1. Before(c, d) \/ Before(d, c)
    BY Ordered
  <2>2. Place(S, c) < Place(S, d) \/ Place(S, d) < Place(S, c)
    BY <2>1, PlaceLess
  <2>3. Place(S, c) \in 0 .. Cardinality(S)
    BY PlaceType
  <2>4. QED BY <1>1, <2>2, <2>3
<1>4. Place(S, d) \in 1 .. Cardinality(S)
  BY <1>1, <1>2
<1>5. InOrder(S)[Place(S, d)] = CHOOSE c \in S : Place(S, c) = Place(S, d)
  BY <1>4 DEF InOrder
<1>6. (CHOOSE c \in S : Place(S, c) = Place(S, d)) = d
  BY <1>3
<1>7. QED BY <1>4, <1>5, <1>6

LEMMA PlaceFirst ==
  ASSUME NEW S, IsFiniteSet(S), S \subseteq Rom, NEW d \in S, \A c \in S : c = d \/ Before(d, c)
  PROVE  Place(S, d) = 1
<1>1. \A c \in S : ~Before(c, d)
  BY Ordered
<1>2. { c \in S : c = d \/ Before(c, d) } = {d}
  BY <1>1
<1>3. QED BY <1>2, FS_Singleton DEF Place

LEMMA PlaceLast ==
  ASSUME NEW S, S \subseteq Rom, NEW d \in Rom, \A c \in S : ~Before(d, c)
  PROVE  Place(S, d) = Cardinality(S)
<1>1. \A c \in S : c = d \/ Before(c, d)
  BY Ordered
<1>2. { c \in S : c = d \/ Before(c, d) } = S
  BY <1>1
<1>3. QED BY <1>2 DEF Place

LEMMA PlaceNone ==
  ASSUME NEW d
  PROVE  Place({}, d) = 0
<1>1. { c \in {} : c = d \/ Before(c, d) } = {}
  OBVIOUS
<1>2. QED BY <1>1, FS_EmptySet DEF Place

(* The next one of all of them.                                            *)
LEMMA PlaceNext ==
  ASSUME NEW S, IsFiniteSet(S), S \subseteq Rom, NEW d \in Rom, NEW e \in Rom, Before(d, e),
         \A c \in S : Before(d, c) => c = e \/ Before(e, c)
  PROVE  Place(S, e) = IF e \in S THEN Place(S, d) + 1 ELSE Place(S, d)
<1> DEFINE U == { c \in S : c = d \/ Before(c, d) }
           V == { c \in S : c = e \/ Before(c, e) }
<1>1. \A c \in S : c = e \/ (Before(c, e) <=> c = d \/ Before(c, d))
  <2> SUFFICES ASSUME NEW c \in S, c # e PROVE Before(c, e) <=> c = d \/ Before(c, d)
    OBVIOUS
  <2>1. Before(c, d) => Before(c, e)
    BY BeforeThat
  <2>2. ASSUME Before(c, e), c # d PROVE Before(c, d)
    <3>1. ~Before(e, c)
      BY <2>2, Ordered
    <3>2. ~Before(d, c)
      BY <3>1
    <3>3. QED BY <2>2, <3>2, Ordered
  <2>3. QED BY <2>1, <2>2
<1>2. e \notin U
  BY Ordered
<1>3. IsFiniteSet(U)
  BY PlaceType
<1>4. CASE e \in S
  <2>1. V = U \cup {e}
    BY <1>1, <1>4
  <2>2. Cardinality(U \cup {e}) = Cardinality(U) + 1
    <3> HIDE DEF U
    <3>1. QED BY <1>2, <1>3, FS_AddElement
  <2>3. QED BY <1>4, <2>1, <2>2 DEF Place
<1>5. CASE e \notin S
  <2>1. V = U
    BY <1>1, <1>5
  <2>2. QED BY <1>5, <2>1 DEF Place
<1>6. QED BY <1>4, <1>5

(* A search goes on behind the device it has found, and skips none.        *)
LEMMA SearchGoesOn ==
  ASSUME bus \subseteq Rom, SerialNum \in bus, LastDiscrepancy = LastZero(SerialNum), LastDiscrepancy # 0
  PROVE  /\ Followed \in bus /\ Before(SerialNum, Followed)
         /\ \A e \in bus : Before(SerialNum, e) => e = Followed \/ Before(Followed, e)
<1> DEFINE d == SerialNum
           p == LastDiscrepancy
           zeros == { n \in 1 .. RomBits : d[n] = 0 /\ Splits(d, n) }
<1>0. RomBits \in Nat
  BY OneWireAssumption
<1>1. p \in zeros /\ \A n \in zeros : n <= p
  <2>1. zeros # {}
    BY DEF LastZero
  <2>2. PICK k \in zeros : \A n \in zeros : n <= k
    <3>1. zeros \subseteq 0 .. RomBits
      BY <1>0
    <3> HIDE DEF zeros
    <3>2. QED BY <1>0, <2>1, <3>1, GreatestMember
  <2>3. p = CHOOSE i \in zeros : \A n \in zeros : n <= i
    BY <2>1 DEF LastZero
  <2> HIDE DEF zeros, p
  <2>4. QED BY <2>2, <2>3
<1>2. p \in 1 .. RomBits /\ d[p] = 0 /\ Splits(d, p)
  BY <1>1
<1>3. \A n \in 1 .. RomBits : d[n] \in {0, 1} /\ Taken(n) \in {0, 1}
  BY <1>0, <1>2 DEF Rom, Taken
<1>4. Followed \in bus /\ \A n \in 1 .. RomBits : Splits(Followed, n) => Followed[n] = Taken(n)
  BY <1>0, <1>3, SomeFollowed
<1> DEFINE f == Followed
<1> HIDE DEF zeros, f
<1>5. f \in bus /\ f \in Rom /\ d \in Rom /\ \A n \in 1 .. RomBits : Splits(f, n) => f[n] = Taken(n)
  BY <1>4 DEF f
<1>6. \A n \in 1 .. p - 1 : f[n] = d[n]
  <2> SUFFICES ASSUME f # d, NEW i \in 1 .. p - 1, f[i] # d[i] PROVE FALSE
    OBVIOUS
  <2>1. PICK n \in 1 .. RomBits : f[n] # d[n] /\ \A m \in 1 .. n - 1 : f[m] = d[m]
    BY <1>5, FirstDifference
  <2>2. n < p
    BY <1>0, <1>2, <2>1
  <2>3. Splits(f, n)
    BY <1>5, <2>1, SplitsFor
  <2>4. f[n] = SerialNum[n]
    BY <1>5, <2>2, <2>3 DEF Taken
  <2>5. QED BY <2>1, <2>4
<1>7. f[p] = 1
  <2>1. Splits(f, p)
    BY <1>2, <1>6, SplitsAlike, <1>0
  <2>2. QED BY <1>2, <1>5, <2>1 DEF Taken
<1>8. Before(d, f)
  BY <1>2, <1>6, <1>7 DEF Before
<1>9. ASSUME NEW e \in bus, Before(d, e), e # f PROVE Before(f, e)
  <2>0. e \in Rom
    OBVIOUS
  <2>1. PICK n \in 1 .. RomBits : d[n] < e[n] /\ \A m \in 1 .. n - 1 : d[m] = e[m]
    BY <1>9 DEF Before
  <2>2. d[n] = 0 /\ e[n] = 1
    BY <1>3, <2>0, <2>1 DEF Rom
  <2>3. Splits(d, n)
    BY <2>1, <2>2, SplitsFor
  <2>4. n <= p
    BY <1>1, <2>2, <2>3 DEF zeros
  <2>5. CASE n < p
    <3>1. f[n] = 0 /\ \A m \in 1 .. n - 1 : f[m] = e[m]
      BY <1>0, <1>2, <1>6, <2>1, <2>2, <2>5
    <3>2. QED BY <2>2, <3>1 DEF Before
  <2>6. CASE n = p
    <3>1. PICK q \in 1 .. RomBits : f[q] # e[q] /\ \A m \in 1 .. q - 1 : f[m] = e[m]
      BY <1>5, <1>9, <2>0, FirstDifference
    <3>2. q > p
      <4>1. \A m \in 1 .. p : f[m] = e[m]
        BY <1>0, <1>2, <1>6, <1>7, <2>1, <2>2, <2>6
      <4>2. QED BY <1>0, <1>2, <3>1, <4>1
    <3>3. Splits(f, q)
      BY <1>5, <3>1, SplitsFor
    <3>4. f[q] = 0
      BY <1>2, <1>5, <3>2, <3>3 DEF Taken
    <3>5. e[q] \in {0, 1}
      BY <2>0 DEF Rom
    <3>6. f[q] < e[q]
      BY <3>1, <3>4, <3>5
    <3>7. QED BY <3>1, <3>6 DEF Before
  <2>7. QED BY <1>0, <1>2, <2>4, <2>5, <2>6
<1>10. QED BY <1>5, <1>8, <1>9 DEF f

(* Where it took no 0 of two paths, nothing is left.                       *)
LEMMA SearchIsOver ==
  ASSUME bus \subseteq Rom, NEW d \in bus, LastZero(d) = 0, NEW e \in bus
  PROVE  ~Before(d, e)
<1> SUFFICES ASSUME Before(d, e) PROVE FALSE
  OBVIOUS
<1> DEFINE zeros == { n \in 1 .. RomBits : d[n] = 0 /\ Splits(d, n) }
<1>0. RomBits \in Nat
  BY OneWireAssumption
<1>1. PICK n \in 1 .. RomBits : d[n] < e[n] /\ \A m \in 1 .. n - 1 : d[m] = e[m]
  BY DEF Before
<1>2. d[n] = 0 /\ e[n] = 1
  <2>1. d \in Rom /\ e \in Rom
    OBVIOUS
  <2>2. d[n] \in {0, 1} /\ e[n] \in {0, 1}
    BY <2>1 DEF Rom
  <2>3. QED BY <1>1, <2>2
<1>3. Splits(d, n)
  BY <1>1, <1>2, SplitsFor
<1>4. n \in zeros
  BY <1>2, <1>3
<1>5. PICK k \in zeros : \A m \in zeros : m <= k
  <2>1. zeros \subseteq 0 .. RomBits
    BY <1>0
  <2> HIDE DEF zeros
  <2>2. QED BY <1>0, <1>4, <2>1, GreatestMember
<1>6. LastZero(d) = CHOOSE i \in zeros : \A m \in zeros : m <= i
  BY <1>4 DEF LastZero
<1>7. LastZero(d) \in zeros
  <2> HIDE DEF zeros
  <2>1. QED BY <1>5, <1>6
<1>8. QED BY <1>7, <1>0

LEMMA AppendedBehind ==
  ASSUME NEW a \in Nat, NEW b \in Nat, NEW f \in [1 .. a -> {0, 1}], NEW g \in [1 .. b -> {0, 1}],
         NEW n \in a + 1 .. a + b
  PROVE  (f \o g)[n] = g[n - a]
<1>1. f \in Seq({0, 1}) /\ Len(f) = a /\ g \in Seq({0, 1}) /\ Len(g) = b
  OBVIOUS
<1>2. QED BY <1>1

(* The bits that a search for a family begins with.                        *)
LEMMA SetupFor ==
  ASSUME NEW code \in [1 .. FamilyBits -> {0, 1}], code[8] = 0
  PROVE  LET s == code \o [i \in 1 .. RomBits - FamilyBits |-> 0] IN
         /\ s \in Rom
         /\ \A n \in 1 .. FamilyBits : s[n] = code[n]
         /\ \A n \in FamilyBits .. RomBits : s[n] = 0
<1> DEFINE zeros == [i \in 1 .. RomBits - FamilyBits |-> 0]
           b == RomBits - FamilyBits
           s == code \o zeros
<1>1. FamilyBits \in Nat /\ b \in Nat /\ FamilyBits + b = RomBits /\ FamilyBits = 8
  BY OneWireAssumption DEF FamilyBits
<1>2. zeros \in [1 .. b -> {0, 1}] /\ \A n \in 1 .. b : zeros[n] = 0
  OBVIOUS
<1> HIDE DEF b, zeros
<1>3. s \in [1 .. FamilyBits + b -> {0, 1}] /\ \A n \in 1 .. FamilyBits : s[n] = code[n]
  BY <1>1, <1>2, Appended
<1>4. ASSUME NEW n \in FamilyBits + 1 .. FamilyBits + b PROVE s[n] = zeros[n - FamilyBits]
  <2>1. FamilyBits \in Nat /\ b \in Nat /\ zeros \in [1 .. b -> {0, 1}]
    BY <1>1, <1>2
  <2>2. QED BY <2>1, AppendedBehind
<1> HIDE DEF s
<1>5. s \in Rom
  BY <1>1, <1>3 DEF Rom
<1>6. ASSUME NEW n \in FamilyBits .. RomBits PROVE s[n] = 0
  <2>1. CASE n = 8
    BY <1>1, <1>3, <2>1
  <2>2. CASE n # 8
    <3>1. n \in FamilyBits + 1 .. FamilyBits + b /\ n - FamilyBits \in 1 .. b
      BY <1>1, <2>2
    <3>2. QED BY <1>2, <1>4, <3>1
  <2>3. QED BY <2>1, <2>2
<1>7. QED BY <1>3, <1>5, <1>6 DEF s, zeros

(* It finds the first device of the family.                                *)
LEMMA SearchFirst ==
  ASSUME bus \subseteq Pool, NEW code \in [1 .. FamilyBits -> {0, 1}], code[8] = 0,
         SerialNum = code \o [i \in 1 .. RomBits - FamilyBits |-> 0], LastDiscrepancy = RomBits,
         bus # {}
  PROVE  /\ Followed \in bus
         /\ \A e \in Members(bus, code) : /\ Followed \in Members(bus, code)
                                          /\ e = Followed \/ Before(Followed, e)
<1>0. RomBits \in Nat /\ RomBits > FamilyBits /\ FamilyBits = 8 /\ bus \subseteq Rom
  BY OneWireAssumption DEF FamilyBits
<1>1. /\ SerialNum \in Rom
      /\ \A n \in 1 .. FamilyBits : SerialNum[n] = code[n]
      /\ \A n \in FamilyBits .. RomBits : SerialNum[n] = 0
  BY SetupFor
<1>2. \A n \in 1 .. RomBits : SerialNum[n] \in {0, 1} /\ Taken(n) \in {0, 1}
  BY <1>0, <1>1 DEF Taken, Rom
<1>3. Followed \in bus /\ \A n \in 1 .. RomBits : Splits(Followed, n) => Followed[n] = Taken(n)
  BY <1>0, <1>2, SomeFollowed
<1> DEFINE f == Followed
<1> HIDE DEF f
<1>4. f \in bus /\ f \in Rom /\ f \in Pool /\ \A n \in 1 .. RomBits : Splits(f, n) => f[n] = Taken(n)
  BY <1>0, <1>3 DEF f
<1>5. ASSUME NEW e \in Members(bus, code) PROVE f \in Members(bus, code) /\ (e = f \/ Before(f, e))
  <2>1. e \in bus /\ Kind(e) = Kind(code) /\ e \in Rom /\ e \in Pool
    BY <1>0 DEF Members
  <2>2. Kind(f) = Kind(code)
    <3>1. \A n \in 1 .. FamilyBits : code[n] \in {0, 1} /\ SerialNum[n] = code[n]
      BY <1>1
    <3>2. QED BY <1>0, <1>2, <2>1, <3>1, FamilyFirst DEF f
  <2>3. ASSUME e # f PROVE Before(f, e)
    <3>1. PICK q \in 1 .. RomBits : f[q] # e[q] /\ \A m \in 1 .. q - 1 : f[m] = e[m]
      BY <1>4, <2>1, <2>3, FirstDifference
    <3>2. PICK n \in 1 .. RomBits - 1 : f[n] # e[n]
      BY <1>4, <2>1, <2>3, OneWireAssumption
    <3>3. q \in FamilyBits .. RomBits - 1
      <4>1. \A m \in 1 .. FamilyBits - 1 : f[m] = e[m]
        <5>1. Kind(f) = Kind(e)
          BY <2>1, <2>2
        <5>2. QED BY <5>1, SameKind
      <4>2. q > FamilyBits - 1
        BY <1>0, <3>1, <4>1
      <4>3. q <= n
        BY <1>0, <3>1, <3>2
      <4>4. QED BY <1>0, <4>2, <4>3
    <3>4. Splits(f, q)
      BY <1>0, <1>4, <2>1, <3>1, SplitsFor
    <3>5. f[q] = 0
      <4>1. f[q] = Taken(q)
        BY <1>4, <3>4
      <4>2. q < LastDiscrepancy /\ SerialNum[q] = 0
        <5>1. SerialNum[q] = 0
          <6>1. q \in FamilyBits .. RomBits
            BY <1>0, <3>3
          <6>2. QED BY <1>1, <6>1
        <5>2. q < RomBits
          BY <1>0, <3>3
        <5>3. QED BY <5>1, <5>2
      <4>3. QED BY <4>1, <4>2 DEF Taken
    <3>6. e[q] \in {0, 1}
      BY <2>1 DEF Rom
    <3>7. f[q] < e[q]
      BY <3>1, <3>5, <3>6
    <3>8. QED BY <3>1, <3>7 DEF Before
  <2>4. QED BY <1>4, <2>1, <2>2, <2>3 DEF Members
<1>6. QED BY <1>3, <1>5 DEF f

(***************************************************************************)
(* The three families, and the list.                                       *)
(***************************************************************************)
LEMMA FamilyCodes ==
  /\ Len(Families) = 3
  /\ Families[1] = TEMP28 /\ Families[2] = TEMP42 /\ Families[3] = EEPROM43
  /\ \A f \in 1 .. 3 : Families[f] \in [1 .. FamilyBits -> {0, 1}] /\ Families[f][8] = 0
  /\ Kind(TEMP28) # Kind(TEMP42) /\ Kind(TEMP28) # Kind(EEPROM43) /\ Kind(TEMP42) # Kind(EEPROM43)
<1>1. /\ Len(Families) = 3
      /\ Families[1] = TEMP28 /\ Families[2] = TEMP42 /\ Families[3] = EEPROM43
  BY DEF Families
<1>2. /\ TEMP28 \in [1 .. FamilyBits -> {0, 1}] /\ TEMP42 \in [1 .. FamilyBits -> {0, 1}]
      /\ EEPROM43 \in [1 .. FamilyBits -> {0, 1}]
  BY DEF TEMP28, TEMP42, EEPROM43, Code, FamilyBits
<1>3. TEMP28[8] = 0 /\ TEMP42[8] = 0 /\ EEPROM43[8] = 0
  BY DEF TEMP28, TEMP42, EEPROM43, Code, FamilyBits
<1>4. TEMP28[1] = 0 /\ TEMP42[1] = 0 /\ EEPROM43[1] = 1 /\ TEMP28[2] = 0 /\ TEMP42[2] = 1
  BY DEF TEMP28, TEMP42, EEPROM43, Code, FamilyBits
<1>5. \A c, d : Kind(c) = Kind(d) => c[1] = d[1] /\ c[2] = d[2]
  BY SameKind DEF FamilyBits
<1>6. Kind(TEMP28) # Kind(TEMP42) /\ Kind(TEMP28) # Kind(EEPROM43) /\ Kind(TEMP42) # Kind(EEPROM43)
  BY <1>4, <1>5
<1>7. \A f \in 1 .. 3 : f = 1 \/ f = 2 \/ f = 3
  OBVIOUS
<1>8. \A f \in 1 .. 3 : Families[f] \in [1 .. FamilyBits -> {0, 1}] /\ Families[f][8] = 0
  BY <1>1, <1>2, <1>3, <1>7
<1>9. QED BY <1>1, <1>6, <1>8

LEMMA BoardFacts ==
  ASSUME fitted \in Boards
  PROVE  /\ fitted \subseteq Pool /\ fitted \subseteq Rom /\ IsFiniteSet(fitted)
         /\ Cardinality(fitted) \in Nat /\ Cardinality(fitted) < MAX_DEV1WIRE /\ MAX_DEV1WIRE \in Nat
<1>1. /\ fitted \subseteq Pool /\ IsFiniteSet(fitted)
      /\ Cardinality(fitted) * (MaxEvents + 1) < MAX_DEV1WIRE /\ MaxEvents \in Nat
  BY MacAssumption
<1>2. Cardinality(fitted) \in Nat /\ MAX_DEV1WIRE \in Nat
  BY <1>1, FS_CardinalityType, OneWireAssumption
<1>3. \A c, e \in Nat : c <= c * (e + 1)
  <2> SUFFICES ASSUME NEW c \in Nat, NEW e \in Nat PROVE c <= c * (e + 1)
    OBVIOUS
  <2>1. c * (e + 1) = c * e + c /\ c * e \in Nat
    OBVIOUS
  <2>2. QED BY <2>1
<1>4. Cardinality(fitted) * (MaxEvents + 1) \in Int
  BY <1>1, <1>2
<1>5. Cardinality(fitted) < MAX_DEV1WIRE
  BY <1>1, <1>2, <1>3, <1>4
<1>6. QED BY <1>1, <1>2, <1>5, OneWireAssumption

Size(f) == Cardinality(Members(fitted, Families[f]))

(* No device is of two families.                                           *)
LEMMA Sizes ==
  ASSUME fitted \in Boards
  PROVE  /\ \A f \in 1 .. 3 : /\ IsFiniteSet(Members(fitted, Families[f])) /\ Size(f) \in Nat
                              /\ Members(fitted, Families[f]) \subseteq Rom
         /\ Size(1) + Size(2) + Size(3) <= Cardinality(fitted)
<1> DEFINE A == Members(fitted, TEMP28)   B == Members(fitted, TEMP42)   C == Members(fitted, EEPROM43)
<1>1. IsFiniteSet(A) /\ IsFiniteSet(B) /\ IsFiniteSet(C) /\ A \subseteq fitted /\ B \subseteq fitted /\ C \subseteq fitted
  <2>1. A \in SUBSET fitted /\ B \in SUBSET fitted /\ C \in SUBSET fitted
    BY DEF Members
  <2> HIDE DEF A, B, C
  <2>2. QED BY <2>1, BoardFacts, FS_Subset
<1>2. A \cap B = {} /\ (A \cup B) \cap C = {}
  BY FamilyCodes DEF Members
<1> HIDE DEF A, B, C
<1>3. IsFiniteSet(A \cup B) /\ Cardinality(A \cup B) = Cardinality(A) + Cardinality(B) - 0
  BY <1>1, <1>2, FS_Union, FS_EmptySet
<1>4. IsFiniteSet((A \cup B) \cup C) /\ Cardinality((A \cup B) \cup C) = Cardinality(A \cup B) + Cardinality(C) - 0
  BY <1>1, <1>2, <1>3, FS_Union, FS_EmptySet
<1>5. Cardinality((A \cup B) \cup C) <= Cardinality(fitted)
  <2>1. (A \cup B) \cup C \in SUBSET fitted
    BY <1>1
  <2>2. QED BY <2>1, BoardFacts, FS_Subset
<1>6. Cardinality(A) \in Nat /\ Cardinality(B) \in Nat /\ Cardinality(C) \in Nat /\ Cardinality((A \cup B) \cup C) \in Nat
  BY <1>1, <1>4, FS_CardinalityType
<1>7. Size(1) = Cardinality(A) /\ Size(2) = Cardinality(B) /\ Size(3) = Cardinality(C)
  BY FamilyCodes DEF Size, A, B, C
<1>8. Size(1) + Size(2) + Size(3) <= Cardinality(fitted)
  BY <1>3, <1>4, <1>5, <1>6, <1>7
<1>9. ASSUME NEW f \in 1 .. 3
      PROVE  /\ IsFiniteSet(Members(fitted, Families[f])) /\ Size(f) \in Nat
             /\ Members(fitted, Families[f]) \subseteq Rom
  <2>1. Members(fitted, Families[f]) \in {A, B, C}
    <3>1. f = 1 \/ f = 2 \/ f = 3
      OBVIOUS
    <3>2. QED BY <3>1, FamilyCodes DEF A, B, C
  <2>2. IsFiniteSet(Members(fitted, Families[f])) /\ Members(fitted, Families[f]) \subseteq fitted
    BY <1>1, <2>1
  <2>3. QED BY <2>2, BoardFacts, FS_CardinalityType DEF Size
<1>10. QED BY <1>8, <1>9

LEMMA OrderLength ==
  ASSUME NEW S, IsFiniteSet(S)
  PROVE  \E T : InOrder(S) \in Seq(T) /\ Len(InOrder(S)) = Cardinality(S)
<1> DEFINE n == Cardinality(S)
           T == { InOrder(S)[k] : k \in 1 .. n }
<1>1. n \in Nat
  BY FS_CardinalityType
<1> HIDE DEF n
<1>2. InOrder(S) \in [1 .. n -> T]
  BY DEF InOrder, n
<1>3. InOrder(S) \in Seq(T) /\ Len(InOrder(S)) = n
  <2> HIDE DEF T
  <2>1. QED BY <1>1, <1>2
<1>4. QED BY <1>3 DEF n

LEMMA Joined ==
  ASSUME NEW s, NEW t, NEW S, NEW T, s \in Seq(S), t \in Seq(T)
  PROVE  /\ s \o t \in Seq(S \cup T) /\ Len(s \o t) = Len(s) + Len(t)
         /\ Len(s) \in Nat /\ Len(t) \in Nat
         /\ \A k \in 1 .. Len(s) : (s \o t)[k] = s[k]
         /\ \A k \in 1 .. Len(t) : (s \o t)[Len(s) + k] = t[k]
<1>1. s \in Seq(S \cup T) /\ t \in Seq(S \cup T)
  OBVIOUS
<1>2. s \o t \in Seq(S \cup T) /\ Len(s \o t) = Len(s) + Len(t) /\ Len(s) \in Nat /\ Len(t) \in Nat
  BY <1>1
<1>3. \A k \in 1 .. Len(s) : (s \o t)[k] = s[k]
  BY <1>1, <1>2
<1>4. \A k \in 1 .. Len(t) : (s \o t)[Len(s) + k] = t[k]
  BY <1>1, <1>2
<1>5. QED BY <1>2, <1>3, <1>4

(* One family after the other.                                             *)
LEMMA ListGrows ==
  ASSUME fitted \in Boards, NEW f \in 1 .. 3
  PROVE  /\ \E T : ListUpto(f) \in Seq(T)
         /\ ListUpto(f + 1) = ListUpto(f) \o InOrder(Members(fitted, Families[f]))
         /\ Len(ListUpto(f + 1)) = Len(ListUpto(f)) + Size(f) /\ Len(ListUpto(f)) \in Nat
         /\ Len(ListUpto(f)) + Size(f) <= Cardinality(fitted) /\ Cardinality(fitted) < MAX_DEV1WIRE
<1> DEFINE a == InOrder(Members(fitted, TEMP28))
           b == InOrder(Members(fitted, TEMP42))
           c == InOrder(Members(fitted, EEPROM43))
           o(g) == InOrder(Members(fitted, Families[g]))
<1>1. PICK A : a \in Seq(A) /\ Len(a) = Size(1)
  BY FamilyCodes, Sizes, OrderLength DEF Size
<1>2. PICK B : b \in Seq(B) /\ Len(b) = Size(2)
  BY FamilyCodes, Sizes, OrderLength DEF Size
<1>3. PICK C : c \in Seq(C) /\ Len(c) = Size(3)
  BY FamilyCodes, Sizes, OrderLength DEF Size
<1>4. /\ ListUpto(1) = << >> /\ ListUpto(2) = a /\ ListUpto(3) = a \o b /\ ListUpto(4) = (a \o b) \o c
      /\ o(1) = a /\ o(2) = b /\ o(3) = c
  <2>1. ListUpto(1) = << >> /\ ListUpto(2) = a
    BY DEF ListUpto
  <2>2. ListUpto(3) = a \o b
    BY DEF ListUpto
  <2>3. ListUpto(4) = ListOf(fitted)
    BY DEF ListUpto
  <2>4. ListOf(fitted) = (a \o b) \o c
    <3>1. ListOf(fitted) = a \o b \o c
      BY DEF ListOf
    <3> HIDE DEF a, b, c
    <3>2. a \o b \o c = (a \o b) \o c
      OBVIOUS
    <3>3. QED BY <3>1, <3>2
  <2>5. o(1) = a /\ o(2) = b /\ o(3) = c
    BY FamilyCodes
  <2>6. QED BY <2>1, <2>2, <2>3, <2>4, <2>5
<1> HIDE DEF a, b, c, o
<1>5. << >> \o a = a /\ << >> \in Seq(A) /\ Len(<< >>) = 0
  BY <1>1, ConcatEmptySeq
<1>6. a \o b \in Seq(A \cup B) /\ Len(a \o b) = Size(1) + Size(2)
  BY <1>1, <1>2, Joined
<1>7. Len((a \o b) \o c) = Size(1) + Size(2) + Size(3)
  <2> DEFINE s == a \o b   S == A \cup B
  <2>1. s \in Seq(S) /\ c \in Seq(C)
    BY <1>3, <1>6
  <2>2. Len(s) = Size(1) + Size(2) /\ Len(c) = Size(3)
    BY <1>3, <1>6
  <2> HIDE DEF s, S
  <2>3. Len(s \o c) = Len(s) + Len(c)
    BY <2>1, Joined
  <2>4. QED BY <2>2, <2>3 DEF s
<1>8. /\ Size(1) \in Nat /\ Size(2) \in Nat /\ Size(3) \in Nat /\ Size(1) + Size(2) + Size(3) <= Cardinality(fitted)
      /\ Cardinality(fitted) \in Nat /\ Cardinality(fitted) < MAX_DEV1WIRE /\ MAX_DEV1WIRE \in Nat
  BY Sizes, BoardFacts
<1> DEFINE Grows(g, h) ==
      /\ \E T : ListUpto(g) \in Seq(T)
      /\ ListUpto(h) = ListUpto(g) \o o(g)
      /\ Len(ListUpto(h)) = Len(ListUpto(g)) + Size(g) /\ Len(ListUpto(g)) \in Nat
      /\ Len(ListUpto(g)) + Size(g) <= Cardinality(fitted) /\ Cardinality(fitted) < MAX_DEV1WIRE
<1>10. Grows(1, 2)
  <2>1. \E T : ListUpto(1) \in Seq(T)
    BY <1>4, <1>5
  <2>2. ListUpto(2) = ListUpto(1) \o o(1)
    BY <1>4, <1>5
  <2>3. Len(ListUpto(2)) = Size(1) /\ Len(ListUpto(1)) = 0
    BY <1>1, <1>4, <1>5
  <2>4. QED BY <1>8, <2>1, <2>2, <2>3
<1>11. Grows(2, 3)
  <2>1. \E T : ListUpto(2) \in Seq(T)
    BY <1>1, <1>4
  <2>2. ListUpto(3) = ListUpto(2) \o o(2)
    BY <1>4
  <2>3. Len(ListUpto(3)) = Size(1) + Size(2) /\ Len(ListUpto(2)) = Size(1)
    BY <1>1, <1>4, <1>6
  <2>4. QED BY <1>8, <2>1, <2>2, <2>3
<1>12. Grows(3, 4)
  <2>1. \E T : ListUpto(3) \in Seq(T)
    BY <1>6, <1>4
  <2>2. ListUpto(4) = ListUpto(3) \o o(3)
    BY <1>4
  <2>3. Len(ListUpto(4)) = Size(1) + Size(2) + Size(3) /\ Len(ListUpto(3)) = Size(1) + Size(2)
    BY <1>4, <1>6, <1>7
  <2>4. QED BY <1>8, <2>1, <2>2, <2>3
<1>13. Grows(f, f + 1)
  <2>1. (f = 1 /\ f + 1 = 2) \/ (f = 2 /\ f + 1 = 3) \/ (f = 3 /\ f + 1 = 4)
    OBVIOUS
  <2> HIDE DEF Grows
  <2>2. QED BY <1>10, <1>11, <1>12, <2>1
<1>14. QED BY <1>13 DEF o

(***************************************************************************)
(* The address from the list.                                              *)
(***************************************************************************)
LEMMA KindOfFamily ==
  ASSUME NEW d \in Rom, NEW f \in 1 .. 3, Family(d) = Families[f]
  PROVE  Kind(d) = Kind(Families[f])
<1>0. RomBits \in Nat /\ RomBits > 8
  BY OneWireAssumption DEF FamilyBits
<1>1. \A n \in 1 .. 7 : Families[f][n] = d[n]
  <2>1. d \in Seq({0, 1}) /\ Len(d) = RomBits
    BY <1>0 DEF Rom
  <2>2. \A n \in 1 .. 8 : SubSeq(d, 1, 8)[n] = d[n]
    BY <1>0, <2>1
  <2>3. QED BY <2>2 DEF Family, FamilyBits
<1>2. Kind(d) = [n \in 1 .. 7 |-> d[n]]
  BY DEF Kind, FamilyBits
<1>3. Kind(Families[f]) = [n \in 1 .. 7 |-> Families[f][n]]
  BY DEF Kind, FamilyBits
<1>4. QED BY <1>1, <1>2, <1>3

LEMMA Greatest ==
  ASSUME NEW n \in Nat, NEW T, T \subseteq 1 .. n, T # {}
  PROVE  LET last == CHOOSE k \in T : \A j \in T : j <= k IN last \in T /\ \A j \in T : j <= last
<1>1. T \subseteq 0 .. n
  OBVIOUS
<1>2. \E k \in T : \A j \in T : j <= k
  BY <1>1, GreatestMember
<1>3. QED BY <1>2

LEMMA FamiliesApart == TEMP28 # EEPROM43 /\ TEMP42 # EEPROM43
BY FamilyCodes

Written(n) == { k \in 1 .. n : Family(FamilySN[k - 1]) = EEPROM43 /\ Oui(page[FamilySN[k - 1]]) # Oui(ZEROS) }
Sensors(n) == { k \in 1 .. n : Family(FamilySN[k - 1]) \in {TEMP28, TEMP42} }
Latest(T)  == CHOOSE k \in T : \A j \in T : j <= k

LEMMA GeneratedAt ==
  ASSUME NEW n \in Nat
  PROVE  Generated(Listed(n), page) =
           IF Written(n) # {} THEN page[FamilySN[Latest(Written(n)) - 1]]
           ELSE IF Sensors(n) # {} THEN Oui(FALLBACK) \o LowBytes[FamilySN[Latest(Sensors(n)) - 1]]
           ELSE FALLBACK
<1> DEFINE list == Listed(n)
           w == { k \in DOMAIN list : Family(list[k]) = EEPROM43 /\ Oui(page[list[k]]) # Oui(ZEROS) }
           s == { k \in DOMAIN list : Family(list[k]) \in {TEMP28, TEMP42} }
<1>1. DOMAIN list = 1 .. n /\ \A k \in 1 .. n : list[k] = FamilySN[k - 1]
  BY DEF Listed
<1>2. w = Written(n) /\ s = Sensors(n)
  BY <1>1 DEF Written, Sensors
<1>3. w # {} => Latest(w) \in 1 .. n
  <2>1. w \subseteq 1 .. n
    BY <1>1
  <2> HIDE DEF w
  <2>2. QED BY <2>1, Greatest DEF Latest
<1>4. s # {} => Latest(s) \in 1 .. n
  <2>1. s \subseteq 1 .. n
    BY <1>1
  <2> HIDE DEF s
  <2>2. QED BY <2>1, Greatest DEF Latest
<1>5. Generated(list, page) =
        IF w # {} THEN page[list[Latest(w)]]
        ELSE IF s # {} THEN Oui(FALLBACK) \o LowBytes[list[Latest(s)]] ELSE FALLBACK
  BY DEF Generated, Latest
<1> HIDE DEF w, s, list
<1>6. QED BY <1>1, <1>2, <1>3, <1>4, <1>5 DEF list

LEMMA GeneratedNone ==
  ASSUME NEW l, NEW content, DOMAIN l = {}
  PROVE  Generated(l, content) = FALLBACK
BY DEF Generated

LEMMA LatestIs ==
  ASSUME NEW n \in Nat, NEW T, T \subseteq 1 .. n, n \in T
  PROVE  Latest(T) = n
<1>1. Latest(T) \in T /\ \A j \in T : j <= Latest(T)
  BY Greatest DEF Latest
<1>2. Latest(T) \in 1 .. n /\ n <= Latest(T)
  BY <1>1
<1>3. QED BY <1>2

(* One more device: the page of an EEPROM that has one, nothing of one     *)
(* that has none, and the number of a thermometer before every EEPROM.     *)
LEMMA GeneratedNext ==
  ASSUME NEW n \in Nat
  PROVE  LET d == FamilySN[n] IN
         /\ Family(d) = EEPROM43 /\ Oui(page[d]) # Oui(ZEROS) => Generated(Listed(n + 1), page) = page[d]
         /\ Family(d) = EEPROM43 /\ Oui(page[d]) = Oui(ZEROS) =>
              Generated(Listed(n + 1), page) = Generated(Listed(n), page)
         /\ Family(d) \notin {TEMP28, TEMP42, EEPROM43} =>
              Generated(Listed(n + 1), page) = Generated(Listed(n), page)
         /\ Family(d) \in {TEMP28, TEMP42} /\ Written(n) = {} =>
              Generated(Listed(n + 1), page) = Oui(FALLBACK) \o LowBytes[d]
<1> DEFINE d == FamilySN[n]
<1>1. Written(n + 1) = Written(n) \cup (IF Family(d) = EEPROM43 /\ Oui(page[d]) # Oui(ZEROS) THEN {n + 1} ELSE {})
  <2>1. \A k \in 1 .. n + 1 : k \in 1 .. n \/ k = n + 1
    OBVIOUS
  <2>2. \A k \in 1 .. n : k \in 1 .. n + 1
    OBVIOUS
  <2>3. n + 1 \in 1 .. n + 1 /\ n + 1 - 1 = n
    OBVIOUS
  <2>4. QED BY <2>1, <2>2, <2>3 DEF Written
<1>2. Sensors(n + 1) = Sensors(n) \cup (IF Family(d) \in {TEMP28, TEMP42} THEN {n + 1} ELSE {})
  <2>1. \A k \in 1 .. n + 1 : k \in 1 .. n \/ k = n + 1
    OBVIOUS
  <2>2. \A k \in 1 .. n : k \in 1 .. n + 1
    OBVIOUS
  <2>3. n + 1 \in 1 .. n + 1 /\ n + 1 - 1 = n
    OBVIOUS
  <2>4. QED BY <2>1, <2>2, <2>3 DEF Sensors
<1>3. Written(n + 1) \subseteq 1 .. n + 1 /\ Sensors(n + 1) \subseteq 1 .. n + 1
  BY DEF Written, Sensors
<1>4. n + 1 \in Nat /\ n + 1 - 1 = n
  OBVIOUS
<1>5. Generated(Listed(n + 1), page) =
           IF Written(n + 1) # {} THEN page[FamilySN[Latest(Written(n + 1)) - 1]]
           ELSE IF Sensors(n + 1) # {} THEN Oui(FALLBACK) \o LowBytes[FamilySN[Latest(Sensors(n + 1)) - 1]]
           ELSE FALLBACK
  BY <1>4, GeneratedAt
<1>6. Generated(Listed(n), page) =
           IF Written(n) # {} THEN page[FamilySN[Latest(Written(n)) - 1]]
           ELSE IF Sensors(n) # {} THEN Oui(FALLBACK) \o LowBytes[FamilySN[Latest(Sensors(n)) - 1]]
           ELSE FALLBACK
  BY GeneratedAt
<1>7. CASE Family(d) = EEPROM43 /\ Oui(page[d]) # Oui(ZEROS)
  <2>1. n + 1 \in Written(n + 1)
    BY <1>1, <1>7
  <2>2. Latest(Written(n + 1)) = n + 1
    BY <1>3, <1>4, <2>1, LatestIs
  <2>3. Generated(Listed(n + 1), page) = page[d]
    BY <1>4, <1>5, <2>1, <2>2
  <2>4. QED BY <1>7, <2>3, FamiliesApart
<1>8. CASE Family(d) \notin {TEMP28, TEMP42} /\ ~(Family(d) = EEPROM43 /\ Oui(page[d]) # Oui(ZEROS))
  <2>1. Written(n + 1) = Written(n) /\ Sensors(n + 1) = Sensors(n)
    BY <1>1, <1>2, <1>8
  <2>2. QED BY <1>5, <1>6, <1>8, <2>1
<1>9. CASE Family(d) \in {TEMP28, TEMP42}
  <2>1. n + 1 \in Sensors(n + 1) /\ Written(n + 1) = Written(n)
    BY <1>1, <1>2, <1>9, FamiliesApart
  <2>2. Latest(Sensors(n + 1)) = n + 1
    BY <1>3, <1>4, <2>1, LatestIs
  <2>3. FamilySN[Latest(Sensors(n + 1)) - 1] = d
    BY <1>4, <2>2
  <2>4. ASSUME Written(n) = {} PROVE Generated(Listed(n + 1), page) = Oui(FALLBACK) \o LowBytes[d]
    <3>1. Written(n + 1) = {} /\ Sensors(n + 1) # {}
      BY <2>1, <2>4
    <3>2. Generated(Listed(n + 1), page) = Oui(FALLBACK) \o LowBytes[FamilySN[Latest(Sensors(n + 1)) - 1]]
      BY <1>5, <3>1
    <3>3. QED BY <2>3, <3>2
  <2>5. QED BY <1>9, <2>4, FamiliesApart
<1>10. QED BY <1>7, <1>8, <1>9

LEMMA AsSequence ==
  ASSUME NEW n \in Nat, NEW S, NEW f \in [1 .. n -> S]
  PROVE  f \in Seq(S) /\ Len(f) = n
OBVIOUS

(* Before the first EEPROM the address has the beginning of the fallback.  *)
LEMMA BeginsAlike ==
  ASSUME NEW n \in Nat, Written(n) = {}, \A k \in 0 .. n - 1 : FamilySN[k] \in Pool
  PROVE  Oui(Generated(Listed(n), page)) = Oui(FALLBACK)
<1>1. ASSUME NEW l, l \in [1 .. 3 -> 0 .. 255] PROVE Oui(Oui(FALLBACK) \o l) = Oui(FALLBACK)
  <2> DEFINE a == Oui(FALLBACK)   b == a \o l
  <2>1. \A k \in 1 .. 3 : FALLBACK[k] \in Nat
    BY DEF FALLBACK
  <2>2. a \in Seq(Nat) /\ Len(a) = 3
    BY <2>1, SubSeqProperties DEF Oui
  <2>3. l \in Seq(Nat) /\ Len(l) = 3
    <3>1. l \in [1 .. 3 -> Nat]
      BY <1>1
    <3>2. QED BY <3>1, AsSequence, 3 \in Nat
  <2> HIDE DEF a
  <2>4. b \in Seq(Nat) /\ \A k \in 1 .. 3 : b[k] = a[k] /\ b[k] \in Nat
    <3>1. /\ b \in Seq(Nat) /\ Len(b) = Len(a) + Len(l)
          /\ \A i \in 1 .. Len(a) + Len(l) : b[i] = IF i <= Len(a) THEN a[i] ELSE l[i - Len(a)]
      BY <2>2, <2>3, ConcatProperties
    <3> HIDE DEF b
    <3>2. \A k \in 1 .. 3 : b[k] = a[k]
      BY <2>2, <2>3, <3>1
    <3>3. \A k \in 1 .. 3 : a[k] \in Nat
      BY <2>2, ElementOfSeq
    <3>4. QED BY <3>1, <3>2, <3>3
  <2> HIDE DEF b
  <2>5. SubSeq(b, 1, 3) \in Seq(Nat) /\ Len(SubSeq(b, 1, 3)) = 3 /\ \A k \in 1 .. 3 : SubSeq(b, 1, 3)[k] = b[k]
    BY <2>4, SubSeqProperties
  <2>6. SubSeq(b, 1, 3) = a
    BY <2>2, <2>4, <2>5
  <2>7. QED BY <2>6 DEF b, a, Oui
<1>2. CASE Sensors(n) = {}
  BY <1>2, GeneratedAt
<1>3. CASE Sensors(n) # {}
  <2>1. Sensors(n) \subseteq 1 .. n
    BY DEF Sensors
  <2>2. Latest(Sensors(n)) \in 1 .. n
    BY <1>3, <2>1, Greatest DEF Latest
  <2>3. LowBytes[FamilySN[Latest(Sensors(n)) - 1]] \in [1 .. 3 -> 0 .. 255]
    BY <2>2, MacAssumption
  <2>4. Generated(Listed(n), page) = Oui(FALLBACK) \o LowBytes[FamilySN[Latest(Sensors(n)) - 1]]
    BY <1>3, GeneratedAt
  <2> DEFINE l == LowBytes[FamilySN[Latest(Sensors(n)) - 1]]
  <2> HIDE DEF l
  <2>5. Oui(Oui(FALLBACK) \o l) = Oui(FALLBACK)
    BY <1>1, <2>3 DEF l
  <2>6. QED BY <2>4, <2>5 DEF l
<1>4. QED BY <1>2, <1>3

(* A thermometer has no EEPROM before it.                                  *)
LEMMA NoneWritten ==
  ASSUME NEW n \in Nat, NEW k \in 0 .. n - 1, WellListed(n, 3), fitted \subseteq Rom,
         Family(FamilySN[k]) \in {TEMP28, TEMP42}
  PROVE  Written(k) = {}
<1> SUFFICES ASSUME NEW j \in 1 .. k, Family(FamilySN[j - 1]) = EEPROM43 PROVE FALSE
  BY DEF Written
<1>1. j - 1 \in 0 .. n - 1 /\ j - 1 < k
  OBVIOUS
<1>2. FamilySN[k] \in Rom /\ FamilySN[j - 1] \in Rom
  BY <1>1 DEF WellListed
<1>3. Kind(FamilySN[j - 1]) = Kind(EEPROM43)
  BY <1>2, KindOfFamily, FamilyCodes
<1>4. Kind(FamilySN[k]) \in {Kind(TEMP28), Kind(TEMP42)}
  BY <1>2, KindOfFamily, FamilyCodes
<1>5. Kind(FamilySN[k]) = Kind(EEPROM43)
  BY <1>1, <1>3 DEF WellListed
<1>6. QED BY <1>4, <1>5, FamilyCodes

(***************************************************************************)
(* A turn of the search.                                                   *)
(***************************************************************************)
LEMMA SearchFinds ==
  ASSUME fitted \in Boards, bus = fitted, fam \in 1 .. 3, SearchBegins \/ SearchAt, bus # {}, ~LastDevice
  PROVE  /\ Followed \in bus
         /\ Kind(Followed) = Kind(Families[fam]) => num + 1 = Place(InFamily, Followed)
         /\ Kind(Followed) # Kind(Families[fam]) => num = Place(InFamily, Followed)
<1> DEFINE M == InFamily   f == Followed
<1>1. bus \subseteq Pool /\ bus \subseteq Rom
  BY BoardFacts
<1>2. M = Members(bus, Families[fam]) /\ M \subseteq Rom /\ IsFiniteSet(M)
  BY Sizes DEF InFamily
<1>3. \A d \in bus : d \in M <=> Kind(d) = Kind(Families[fam])
  BY <1>2 DEF Members
<1>4. CASE SearchBegins
  <2>1. Families[fam] \in [1 .. FamilyBits -> {0, 1}] /\ Families[fam][8] = 0
    BY FamilyCodes
  <2>2. /\ f \in bus
        /\ \A e \in M : f \in M /\ (e = f \/ Before(f, e))
    BY <1>1, <1>2, <1>4, <2>1, SearchFirst DEF SearchBegins
  <2> HIDE DEF M, f
  <2>3. f \in M => Place(M, f) = 1
    BY <1>2, <2>2, PlaceFirst
  <2>4. f \notin M => Place(M, f) = 0
    BY <2>2, PlaceNone
  <2>5. num = 0
    BY <1>4 DEF SearchBegins
  <2>6. QED BY <1>3, <2>2, <2>3, <2>4, <2>5 DEF f, M
<1>5. CASE SearchAt
  <2>1. SerialNum \in bus /\ LastDiscrepancy = LastZero(SerialNum) /\ LastDiscrepancy # 0
    BY <1>5 DEF SearchAt
  <2>2. /\ f \in bus /\ Before(SerialNum, f)
        /\ \A e \in bus : Before(SerialNum, e) => e = f \/ Before(f, e)
    BY <1>1, <2>1, SearchGoesOn
  <2>3. \A e \in M : Before(SerialNum, e) => e = f \/ Before(f, e)
    BY <1>2, <2>2 DEF Members
  <2>4. num = Place(M, SerialNum)
    BY <1>5 DEF SearchAt
  <2> HIDE DEF M, f
  <2>5. Place(M, f) = IF f \in M THEN Place(M, SerialNum) + 1 ELSE Place(M, SerialNum)
    BY <1>1, <1>2, <2>1, <2>2, <2>3, PlaceNext
  <2>6. QED BY <1>3, <2>2, <2>4, <2>5 DEF f, M
<1>6. QED BY <1>4, <1>5

LEMMA SearchEnds ==
  ASSUME fitted \in Boards, bus = fitted, fam \in 1 .. 3, SearchBegins \/ SearchAt, bus = {} \/ LastDevice
  PROVE  num = Size(fam)
<1>1. bus \subseteq Rom
  BY BoardFacts
<1>2. CASE SearchBegins
  <2>1. bus = {} /\ num = 0
    BY <1>2 DEF SearchBegins
  <2>2. Members(fitted, Families[fam]) = {}
    BY <2>1 DEF Members
  <2>3. QED BY <2>1, <2>2, FS_EmptySet DEF Size
<1>3. CASE SearchAt
  <2>1. SerialNum \in bus /\ LastZero(SerialNum) = 0 /\ num = Place(InFamily, SerialNum)
    BY <1>3 DEF SearchAt
  <2>2. \A e \in bus : ~Before(SerialNum, e)
    BY <1>1, <2>1, SearchIsOver
  <2>3. InFamily \subseteq bus
    BY DEF InFamily, Members
  <2>4. Place(InFamily, SerialNum) = Cardinality(InFamily)
    BY <1>1, <2>1, <2>2, <2>3, PlaceLast
  <2>5. QED BY <2>1, <2>4 DEF Size, InFamily
<1>4. QED BY <1>2, <1>3

LEMMA SearchCount ==
  ASSUME fitted \in Boards, fam \in 1 .. 3, SearchBegins \/ SearchAt
  PROVE  num \in 0 .. Size(fam) /\ Size(fam) \in Nat
<1>1. IsFiniteSet(InFamily) /\ Size(fam) = Cardinality(InFamily) /\ Size(fam) \in Nat
  BY Sizes DEF InFamily, Size
<1>2. Place(InFamily, SerialNum) \in 0 .. Size(fam)
  BY <1>1, PlaceType
<1>3. QED BY <1>1, <1>2 DEF SearchBegins, SearchAt

(* The end of a family, with its devices behind those of the others.       *)
LEMMA FamilyListed ==
  ASSUME fitted \in Boards, fam \in 1 .. 3, NEW sn,
         devsnum = Len(ListUpto(fam)),
         \A k \in 1 .. devsnum : sn[k - 1] = ListUpto(fam)[k],
         \A k \in 1 .. Size(fam) : sn[devsnum + k - 1] = InOrder(InFamily)[k]
  PROVE  /\ devsnum + Size(fam) = Len(ListUpto(fam + 1))
         /\ [k \in 1 .. devsnum + Size(fam) |-> sn[k - 1]] = ListUpto(fam + 1)
<1> DEFINE l == ListUpto(fam)   o == InOrder(InFamily)   n == Size(fam)   r == ListUpto(fam + 1)
<1>1. r = l \o o /\ Len(r) = Len(l) + n /\ Len(l) \in Nat /\ n \in Nat
  BY ListGrows, Sizes DEF InFamily
<1>2. PICK S : l \in Seq(S)
  BY ListGrows
<1>3. PICK T : o \in Seq(T) /\ Len(o) = n
  BY Sizes, OrderLength DEF InFamily, Size
<1> HIDE DEF l, o, n, r
<1>4. /\ l \o o \in Seq(S \cup T)
      /\ \A k \in 1 .. Len(l) : (l \o o)[k] = l[k]
      /\ \A k \in 1 .. Len(o) : (l \o o)[Len(l) + k] = o[k]
  BY <1>2, <1>3, Joined
<1>5. r \in Seq(S \cup T) /\ r = [k \in 1 .. Len(r) |-> r[k]]
  <2>1. r \in Seq(S \cup T)
    BY <1>1, <1>4
  <2>2. r \in [1 .. Len(r) -> S \cup T]
    BY <2>1, LenProperties
  <2>3. QED BY <2>1, <2>2
<1>6. devsnum = Len(l) /\ devsnum \in Nat
  BY <1>1 DEF l
<1>7. \A k \in 1 .. Len(r) : sn[k - 1] = r[k]
  <2> SUFFICES ASSUME NEW k \in 1 .. devsnum + n PROVE sn[k - 1] = (l \o o)[k]
    BY <1>1, <1>6
  <2>1. CASE k <= devsnum
    <3>1. k \in 1 .. devsnum
      BY <2>1, <1>6, <1>1
    <3>2. QED BY <1>4, <1>6, <3>1 DEF l
  <2>2. CASE k > devsnum
    <3>1. PICK j \in 1 .. n : k = devsnum + j
      <4>1. k - devsnum \in 1 .. n /\ k = devsnum + (k - devsnum)
        BY <2>2, <1>6, <1>1
      <4>2. QED BY <4>1
    <3>2. sn[devsnum + j - 1] = o[j]
      BY <3>1 DEF o, n
    <3>3. (l \o o)[devsnum + j] = o[j]
      BY <1>3, <1>4, <1>6, <3>1
    <3>4. QED BY <3>1, <3>2, <3>3
  <2>3. QED BY <1>1, <1>6, <2>1, <2>2
<1>8. [k \in 1 .. devsnum + n |-> sn[k - 1]] = r
  BY <1>1, <1>5, <1>6, <1>7
<1>9. QED BY <1>1, <1>6, <1>8 DEF n, r

(* WellListed, of any list.                                                *)
WellIn(sn, n, f) ==
  /\ \A k \in 0 .. n - 1 : sn[k] \in fitted /\ \E g \in 1 .. f : Kind(sn[k]) = Kind(Families[g])
  /\ \A j, k \in 0 .. n - 1 : j < k /\ Kind(sn[j]) = Kind(EEPROM43) => Kind(sn[k]) = Kind(EEPROM43)

LEMMA ScanEnds ==
  ASSUME fitted \in Boards, fam \in 1 .. 3, UNCHANGED << fitted, dev, mac, page >>, dev = 0, mac = FALLBACK,
         devsnum = Len(ListUpto(fam)),
         \A k \in 1 .. devsnum : FamilySN'[k - 1] = ListUpto(fam)[k],
         \A k \in 1 .. Size(fam) : FamilySN'[devsnum + k - 1] = InOrder(InFamily)[k],
         WellIn(FamilySN', devsnum + Size(fam), fam),
         fam > 1 => found = (Members(fitted, TEMP28) # {}),
         ScanGoesOn(Size(fam))
  PROVE  \/ pc' = "find" /\ Scanning'
         \/ pc' = "device" /\ Scanned'
<1> DEFINE n == devsnum + Size(fam)
<1>1. devsnum' = n /\ n = Len(ListUpto(fam + 1)) /\ [k \in 1 .. n |-> FamilySN'[k - 1]] = ListUpto(fam + 1)
  BY FamilyListed DEF ScanGoesOn
<1>2. devsnum \in Nat /\ Size(fam) \in Nat /\ n \in Nat
  <2>1. Size(fam) \in Nat
    BY Sizes
  <2>2. Len(ListUpto(fam)) \in Nat
    BY ListGrows
  <2>3. QED BY <2>1, <2>2
<1> HIDE DEF n
<1>3. Listed(devsnum)' = ListUpto(fam + 1)
  BY <1>1 DEF Listed
<1>4. found' = (Members(fitted', TEMP28) # {})
  <2>1. CASE fam = 1
    <3>1. IsFiniteSet(Members(fitted, TEMP28)) /\ Size(1) = Cardinality(Members(fitted, TEMP28))
      BY Sizes, FamilyCodes DEF Size
    <3>2. (Size(1) = 0) <=> (Members(fitted, TEMP28) = {})
      BY <3>1, FS_EmptySet
    <3>3. found' = (Size(1) > 0)
      BY <2>1 DEF ScanGoesOn
    <3>4. Size(1) \in Nat
      BY Sizes
    <3>5. (Size(1) > 0) <=> (Members(fitted, TEMP28) # {})
      BY <3>2, <3>4
    <3>6. QED BY <3>3, <3>5
  <2>2. CASE fam # 1
    <3>1. fam > 1
      BY <2>2
    <3>2. QED BY <2>2, <3>1 DEF ScanGoesOn
  <2>3. QED BY <2>1, <2>2
<1>5. dev' = 0 /\ mac' = FALLBACK
  OBVIOUS
<1>6. CASE fam < 3
  <2>1. fam' = fam + 1 /\ pc' = "find" /\ fam' \in 1 .. Len(Families)
    BY <1>6, FamilyCodes DEF ScanGoesOn
  <2>2. ListUpto(fam)' = ListUpto(fam + 1)
    BY <2>1 DEF ListUpto, ListOf
  <2>3. WellListed(devsnum, fam - 1)'
    <3>1. fam' - 1 = fam
      BY <2>1
    <3>2. QED BY <1>1, <3>1 DEF WellListed, WellIn, n
  <2>4. Scanning'
    BY <1>1, <1>3, <1>4, <1>5, <2>1, <2>2, <2>3 DEF Scanning
  <2>5. QED BY <2>1, <2>4
<1>7. CASE fam = 3
  <2>1. fam' = fam /\ pc' = "device"
    BY <1>7, FamilyCodes DEF ScanGoesOn
  <2>2. ListOf(fitted)' = ListUpto(fam + 1)
    BY <1>7 DEF ListUpto, ListOf
  <2>3. WellListed(devsnum, Len(Families))'
    BY <1>1, <1>7, FamilyCodes DEF WellListed, WellIn, n
  <2>4. (Generated(Listed(dev), page))' = FALLBACK
    <3>1. DOMAIN Listed(dev)' = {}
      BY <1>5 DEF Listed
    <3>2. QED BY <3>1, GeneratedNone
  <2>5. dev' \in 0 .. devsnum'
    BY <1>1, <1>2, <1>5
  <2>6. Scanned'
    BY <1>1, <1>3, <1>4, <1>5, <2>1, <2>2, <2>3, <2>4, <2>5 DEF Scanned
  <2>7. QED BY <2>1, <2>6
<1>8. QED BY <1>6, <1>7

LEMMA WellKept ==
  ASSUME NEW s, NEW t, NEW n \in Nat, NEW f, WellIn(s, n, f), \A k \in 0 .. n - 1 : t[k] = s[k]
  PROVE  WellIn(t, n, f)
<1>1. ASSUME NEW k \in 0 .. n - 1
      PROVE  t[k] \in fitted /\ \E g \in 1 .. f : Kind(t[k]) = Kind(Families[g])
  BY DEF WellIn
<1>2. ASSUME NEW j \in 0 .. n - 1, NEW k \in 0 .. n - 1, j < k, Kind(t[j]) = Kind(EEPROM43)
      PROVE  Kind(t[k]) = Kind(EEPROM43)
  <2>1. t[j] = s[j] /\ t[k] = s[k]
    OBVIOUS
  <2>2. Kind(s[k]) = Kind(EEPROM43)
    BY <1>2, <2>1 DEF WellIn
  <2>3. QED BY <2>1, <2>2
<1>3. QED BY <1>1, <1>2 DEF WellIn

(* EEPROMs come behind the others.                                         *)
LEMMA WellMore ==
  ASSUME NEW s, NEW n \in Nat, NEW f \in 1 .. 3, WellIn(s, n, f), s[n] \in fitted,
         Kind(s[n]) = Kind(Families[f])
  PROVE  WellIn(s, n + 1, f)
<1>1. \A k \in 0 .. n + 1 - 1 : k \in 0 .. n - 1 \/ k = n
  OBVIOUS
<1>2. ASSUME NEW k \in 0 .. n + 1 - 1
      PROVE  s[k] \in fitted /\ \E g \in 1 .. f : Kind(s[k]) = Kind(Families[g])
  <2>1. CASE k \in 0 .. n - 1
    BY <2>1 DEF WellIn
  <2>2. CASE k = n
    BY <2>2
  <2>3. QED BY <1>1, <2>1, <2>2
<1>3. ASSUME NEW j \in 0 .. n + 1 - 1, NEW k \in 0 .. n + 1 - 1, j < k, Kind(s[j]) = Kind(EEPROM43)
      PROVE  Kind(s[k]) = Kind(EEPROM43)
  <2>1. CASE k \in 0 .. n - 1
    <3>1. j \in 0 .. n - 1
      BY <1>3, <2>1
    <3>2. QED BY <1>3, <2>1, <3>1 DEF WellIn
  <2>2. CASE k = n
    <3>1. PICK g \in 1 .. f : Kind(s[j]) = Kind(Families[g])
      BY <1>2
    <3>2. g = 3
      <4>1. g = 1 \/ g = 2 \/ g = 3
        OBVIOUS
      <4>2. QED BY <1>3, <3>1, <4>1, FamilyCodes
    <3>3. f = 3
      BY <3>2
    <3>4. QED BY <2>2, <3>3, FamilyCodes
  <2>3. QED BY <1>1, <2>1, <2>2
<1>4. QED BY <1>2, <1>3 DEF WellIn

(* One turn of an undisturbed scan.                                        *)
LEMMA ScanStep ==
  ASSUME CalmInv, BootHolds, CalmHolds', op = "boot", calm', NEW held \in Held, Search(held)
  PROVE  \/ pc' \in {"find", "search"} /\ Scanning'
         \/ pc' = "device" /\ Scanned'
<1>1. calm /\ held = RomBits /\ pc = "search" /\ UNCHANGED << fitted, bus, dev, mac, page >>
  BY DEF Search, Undisturbed, Disturbed
<1>2. bus = fitted /\ fitted \in Boards /\ DOMAIN FamilySN = 0 .. MAX_DEV1WIRE - 1
  BY <1>1 DEF CalmInv, CalmHolds, BootHolds
<1>3. Scanning /\ fam \in 1 .. 3 /\ (SearchBegins \/ SearchAt)
  BY <1>1, FamilyCodes DEF BootHolds, Scanning
<1>4. /\ dev = 0 /\ mac = FALLBACK
      /\ devsnum = Len(ListUpto(fam)) /\ Listed(devsnum) = ListUpto(fam)
      /\ fam > 1 => found = (Members(fitted, TEMP28) # {})
      /\ WellIn(FamilySN, devsnum + num, fam)
      /\ \A k \in 1 .. num : FamilySN[devsnum + k - 1] = InOrder(InFamily)[k]
  BY <1>1, <1>3 DEF Scanning, WellListed, WellIn
<1>5. \A k \in 1 .. devsnum : FamilySN[k - 1] = ListUpto(fam)[k]
  BY <1>4 DEF Listed
<1>6. /\ num \in 0 .. Size(fam) /\ Size(fam) \in Nat /\ devsnum \in Nat
      /\ devsnum + Size(fam) < MAX_DEV1WIRE /\ MAX_DEV1WIRE \in Nat
  <2>1. num \in 0 .. Size(fam) /\ Size(fam) \in Nat
    BY <1>2, <1>3, SearchCount
  <2>2. /\ Len(ListUpto(fam)) \in Nat /\ Len(ListUpto(fam)) + Size(fam) <= Cardinality(fitted)
        /\ Cardinality(fitted) \in Nat /\ Cardinality(fitted) < MAX_DEV1WIRE
    BY <1>2, <1>3, ListGrows, BoardFacts
  <2>3. QED BY <1>4, <2>1, <2>2, OneWireAssumption
<1>7. CASE ~Found(held)
  <2>1. num = Size(fam)
    BY <1>1, <1>2, <1>3, <1>7, SearchEnds DEF Found, owTouchReset
  <2>2. ScanGoesOn(Size(fam)) /\ FamilySN' = FamilySN
    BY <1>7, <2>1 DEF Search, Ends
  <2>3. QED BY <1>1, <1>2, <1>3, <1>4, <1>5, <2>1, <2>2, ScanEnds
<1>8. CASE Found(held)
  <2> DEFINE f == Followed
             n == IF Kind(f) = Kind(Families[fam]) THEN num + 1 ELSE num
  <2>1. bus # {} /\ ~LastDevice
    BY <1>8 DEF Found, owTouchReset
  <2>2. f \in bus /\ n = Place(InFamily, f)
    BY <1>2, <1>3, <2>1, SearchFinds
  <2>3. f \in Rom
    BY <1>2, <2>2, BoardFacts
  <2>4. SerialNum' = f
    <3>1. SerialNum' = SubSeq(f, 1, RomBits) \o SubSeq(SerialNum, RomBits + 1, RomBits)
      BY <1>1, <2>1 DEF Search, owNext, owTouchReset
    <3>2. QED BY <2>3, <3>1, AllRead
  <2>5. LastDiscrepancy' = LastZero(f) /\ LastDevice' = (LastDiscrepancy' = 0)
    BY <1>8 DEF Search, owNext
  <2> HIDE DEF f, n
  <2>6. /\ FamilySN' = [FamilySN EXCEPT ![devsnum + num] = f]
        /\ num' = n
        /\ IF n < MAX_DEV1WIRE - devsnum - 1
             THEN UNCHANGED << pc, op, rv, devsnum, found, fam >> ELSE ScanGoesOn(n)
    BY <1>8, <2>4 DEF Search, Ends, MAXDEVICES, n
  <2>7. n \in 0 .. Size(fam) /\ (n = num \/ n = num + 1)
    <3>1. Place(InFamily, f) \in 0 .. Size(fam)
      BY <1>2, <1>3, Sizes, PlaceType DEF InFamily, Size
    <3>2. QED BY <2>2, <3>1 DEF n
  <2>8. /\ FamilySN'[devsnum + num] = f
        /\ \A k \in 0 .. devsnum + num - 1 : FamilySN'[k] = FamilySN[k]
    BY <1>2, <1>6, <2>6
  <2>9. \A k \in 1 .. devsnum : FamilySN'[k - 1] = ListUpto(fam)[k]
    BY <1>5, <1>6, <2>8
  <2>10. \A k \in 1 .. n : FamilySN'[devsnum + k - 1] = InOrder(InFamily)[k]
    <3>1. ASSUME NEW k \in 1 .. num PROVE FamilySN'[devsnum + k - 1] = InOrder(InFamily)[k]
      <4>1. devsnum + k - 1 \in 0 .. devsnum + num - 1
        BY <1>6
      <4>2. QED BY <1>4, <2>8, <4>1
    <3>2. CASE n = num
      BY <3>1, <3>2
    <3>3. CASE n = num + 1
      <4>1. Kind(f) = Kind(Families[fam])
        BY <1>6, <3>3 DEF n
      <4>2. f \in InFamily
        BY <1>2, <2>2, <4>1 DEF InFamily, Members
      <4>3. InOrder(InFamily)[n] = f
        BY <1>2, <1>3, <2>2, <4>2, Sizes, InPlace DEF InFamily
      <4>4. FamilySN'[devsnum + n - 1] = f
        BY <1>6, <2>8, <3>3
      <4>5. \A k \in 1 .. n : k \in 1 .. num \/ k = n
        BY <1>6, <3>3
      <4>6. QED BY <3>1, <4>3, <4>4, <4>5
    <3>4. QED BY <2>7, <3>2, <3>3
  <2>11. WellIn(FamilySN', devsnum + n, fam)
    <3>1. WellIn(FamilySN', devsnum + num, fam)
      BY <1>4, <1>6, <2>8, WellKept
    <3>2. CASE n = num
      BY <3>1, <3>2
    <3>3. CASE n = num + 1
      <4>1. FamilySN'[devsnum + num] \in fitted /\ Kind(FamilySN'[devsnum + num]) = Kind(Families[fam])
        BY <1>2, <1>6, <2>2, <2>8, <3>3 DEF n
      <4>2. devsnum + num \in Nat /\ devsnum + n = devsnum + num + 1
        BY <1>6, <3>3
      <4>3. QED BY <1>3, <3>1, <4>1, <4>2, WellMore
    <3>4. QED BY <2>7, <3>2, <3>3
  <2>12. CASE n < MAX_DEV1WIRE - devsnum - 1
    <3>1. UNCHANGED << pc, op, rv, devsnum, found, fam >>
      BY <2>6, <2>12
    <3>2. SearchAt'
      <4>1. SerialNum' \in bus' /\ num' = Place(InFamily, SerialNum)'
        BY <1>1, <2>2, <2>4, <2>6, <3>1 DEF InFamily
      <4>2. LastDiscrepancy' = LastZero(SerialNum)'
        BY <1>1, <2>4, <2>5 DEF LastZero, Splits, owTouchBit
      <4>3. QED BY <2>5, <4>1, <4>2 DEF SearchAt
    <3>3. Listed(devsnum)' = ListUpto(fam)'
      <4>1. Listed(devsnum)' = [k \in 1 .. devsnum |-> FamilySN'[k - 1]]
        BY <3>1 DEF Listed
      <4>2. Listed(devsnum) = [k \in 1 .. devsnum |-> FamilySN[k - 1]]
        BY DEF Listed
      <4>3. Listed(devsnum)' = Listed(devsnum)
        BY <1>6, <2>8, <4>1, <4>2
      <4>4. ListUpto(fam)' = ListUpto(fam)
        BY <1>1, <3>1 DEF ListUpto, ListOf
      <4>5. QED BY <1>4, <4>3, <4>4
    <3>4. (devsnum = Len(ListUpto(fam)))'
      BY <1>1, <1>4, <3>1 DEF ListUpto, ListOf
    <3>5. WellListed(devsnum + num, fam)'
      BY <1>1, <2>6, <2>11, <3>1 DEF WellListed, WellIn
    <3>6. (\A k \in 1 .. num : FamilySN[devsnum + k - 1] = InOrder(InFamily)[k])'
      BY <1>1, <2>6, <2>10, <3>1 DEF InFamily
    <3>7. (fam \in 1 .. Len(Families) /\ dev = 0 /\ mac = FALLBACK)'
      BY <1>1, <1>3, <1>4, <3>1, FamilyCodes
    <3>8. (fam > 1 => found = (Members(fitted, TEMP28) # {}))'
      BY <1>1, <1>4, <3>1
    <3>9. Scanning'
      BY <1>1, <3>1, <3>2, <3>3, <3>4, <3>5, <3>6, <3>7, <3>8 DEF Scanning
    <3>10. QED BY <1>1, <3>1, <3>9
  <2>13. CASE ~(n < MAX_DEV1WIRE - devsnum - 1)
    <3>1. n = Size(fam)
      BY <1>6, <2>7, <2>13
    <3>2. ScanGoesOn(Size(fam))
      BY <2>6, <2>13, <3>1
    <3>3. QED BY <1>1, <1>2, <1>3, <1>4, <2>9, <2>10, <2>11, <3>1, <3>2, ScanEnds
  <2>14. QED BY <2>12, <2>13
<1>9. QED BY <1>7, <1>8

LEMMA NewFamily ==
  ASSUME CalmInv, BootHolds, op = "boot", calm', FindDevices
  PROVE  pc' = "search" /\ Scanning'
<1>1. /\ calm /\ pc = "find" /\ pc' = "search" /\ num' = 0 /\ Setup(Families[fam])
      /\ UNCHANGED << fitted, bus, dev, mac, page, fam, found, devsnum, FamilySN >>
  BY DEF FindDevices, Undisturbed, deviceVars
<1>2. Scanning /\ fitted \in Boards
  BY <1>1 DEF BootHolds
<1>3. /\ fam \in 1 .. 3 /\ dev = 0 /\ mac = FALLBACK
      /\ devsnum = Len(ListUpto(fam)) /\ Listed(devsnum) = ListUpto(fam)
      /\ fam > 1 => found = (Members(fitted, TEMP28) # {})
      /\ WellListed(devsnum, fam - 1)
  BY <1>1, <1>2, FamilyCodes DEF Scanning
<1>4. devsnum \in Nat
  BY <1>2, <1>3, ListGrows
<1>5. SearchBegins'
  BY <1>1 DEF Setup, SearchBegins
<1>6. WellListed(devsnum + num, fam)'
  <2>1. devsnum' + num' = devsnum
    BY <1>1, <1>4
  <2>2. \A g \in 1 .. fam - 1 : g \in 1 .. fam
    BY <1>3
  <2>3. QED BY <1>1, <1>3, <2>1, <2>2 DEF WellListed
<1>7. (Listed(devsnum) = ListUpto(fam) /\ devsnum = Len(ListUpto(fam)))'
  BY <1>1, <1>3 DEF Listed, ListUpto, ListOf
<1>8. (\A k \in 1 .. num : FamilySN[devsnum + k - 1] = InOrder(InFamily)[k])'
  BY <1>1
<1>9. (fam > 1 => found = (Members(fitted, TEMP28) # {}))'
  BY <1>1, <1>3
<1>10. (fam \in 1 .. Len(Families) /\ dev = 0 /\ mac = FALLBACK)'
  BY <1>1, <1>3, FamilyCodes
<1>11. QED BY <1>1, <1>5, <1>6, <1>7, <1>8, <1>9, <1>10 DEF Scanning

(* get_persistent_mac takes the next device.                               *)
LEMMA DeviceStep ==
  ASSUME CalmInv, BootHolds, op = "boot", calm', Device
  PROVE  pc' = "device" /\ Scanned'
<1> DEFINE d == FamilySN[dev]
<1>1. /\ pc = "device" /\ dev < devsnum /\ dev' = dev + 1 /\ pc' = pc
      /\ UNCHANGED << fitted, bus, page, devsnum, found, FamilySN >>
  BY DEF Device
<1>2. calm
  BY DEF Device, TakeSerial, TakePage, PassOver, Undisturbed, Disturbed
<1>3. bus = fitted /\ fitted \in Boards /\ Scanned
  BY <1>1, <1>2 DEF CalmInv, CalmHolds, BootHolds
<1>4. /\ devsnum = Len(ListOf(fitted)) /\ Listed(devsnum) = ListOf(fitted) /\ WellListed(devsnum, 3)
      /\ found = (Members(fitted, TEMP28) # {})
      /\ dev \in 0 .. devsnum /\ mac = Generated(Listed(dev), page)
  BY <1>3, FamilyCodes DEF Scanned
<1>5. devsnum \in Nat
  <2>1. ListUpto(3 + 1) = ListOf(fitted)
    BY DEF ListUpto
  <2>2. /\ Len(ListUpto(3 + 1)) = Len(ListUpto(3)) + Size(3) /\ Len(ListUpto(3)) \in Nat
    BY <1>3, ListGrows
  <2>3. Size(3) \in Nat
    BY <1>3, Sizes
  <2>4. QED BY <1>4, <2>1, <2>2, <2>3
<1>6. dev \in Nat /\ dev \in 0 .. devsnum - 1
  BY <1>1, <1>4, <1>5
<1>7. d \in fitted /\ fitted \subseteq Pool /\ fitted \subseteq Rom
  BY <1>3, <1>4, <1>6, BoardFacts DEF WellListed
<1>8. mac' = Generated(Listed(dev + 1), page)
  <2>1. CASE TakeSerial(d)
    <3>1. Family(d) \in {TEMP28, TEMP42} /\ mac' = Oui(mac) \o LowBytes[d]
      BY <2>1 DEF TakeSerial
    <3>2. Written(dev) = {}
      BY <1>4, <1>5, <1>6, <1>7, <3>1, NoneWritten
    <3>3. \A k \in 0 .. dev - 1 : FamilySN[k] \in Pool
      BY <1>4, <1>5, <1>6, <1>7 DEF WellListed
    <3>4. Oui(mac) = Oui(FALLBACK)
      BY <1>4, <1>6, <3>2, <3>3, BeginsAlike
    <3>5. QED BY <1>6, <3>1, <3>2, <3>4, GeneratedNext
  <2>2. ASSUME NEW ok \in BOOLEAN, TakePage(d, ok) PROVE mac' = Generated(Listed(dev + 1), page)
    <3>1. /\ Family(d) = EEPROM43 /\ ok
          /\ mac' = IF ok /\ d \in bus /\ Oui(page[d]) # Oui(ZEROS) THEN page[d] ELSE mac
      BY <2>2 DEF TakePage, Disturbed, Reads
    <3>2. mac' = IF Oui(page[d]) # Oui(ZEROS) THEN page[d] ELSE mac
      BY <1>3, <1>7, <3>1
    <3>3. QED BY <1>4, <1>6, <3>1, <3>2, GeneratedNext
  <2>3. CASE PassOver(d)
    <3>1. Family(d) \notin {TEMP28, TEMP42, EEPROM43} /\ mac' = mac
      BY <2>3 DEF PassOver
    <3>2. QED BY <1>4, <1>6, <3>1, GeneratedNext
  <2>4. QED BY <2>1, <2>2, <2>3 DEF Device
<1>9. (mac = Generated(Listed(dev), page))'
  <2>1. Listed(dev)' = Listed(dev + 1)
    BY <1>1 DEF Listed
  <2>2. QED BY <1>1, <1>8, <2>1
<1>10. (Listed(devsnum) = ListOf(fitted) /\ devsnum = Len(ListOf(fitted)))'
  BY <1>1, <1>4 DEF Listed, ListOf
<1>11. WellListed(devsnum, Len(Families))'
  BY <1>1, <1>4, FamilyCodes DEF WellListed
<1>12. (found = (Members(fitted, TEMP28) # {}) /\ dev \in 0 .. devsnum)'
  BY <1>1, <1>4, <1>5, <1>6
<1>13. QED BY <1>1, <1>9, <1>10, <1>11, <1>12 DEF Scanned

LEMMA DoneStep ==
  ASSUME CalmInv, BootHolds, op = "boot", calm', DevicesDone
  PROVE  pc' = "ep_init" /\ Scanned'
<1>1. /\ pc = "device" /\ dev = devsnum /\ pc' = "ep_init" /\ calm
      /\ UNCHANGED << fitted, page, devsnum, found, FamilySN, dev, mac >>
  BY DEF DevicesDone, Undisturbed, listVars, deviceVars
<1>2. Scanned
  BY <1>1 DEF BootHolds
<1>3. QED BY <1>1, <1>2 DEF Scanned, Listed, ListOf, WellListed

LEMMA BootBegins ==
  ASSUME fitted \in Boards, fam = 1, dev = 0, num = 0, mac = FALLBACK, devsnum = 0, pc = "find"
  PROVE  Scanning
<1>1. Listed(devsnum) = << >>
  BY DEF Listed
<1>2. ListUpto(fam) = << >>
  BY DEF ListUpto
<1>3. Len(<< >>) = 0
  OBVIOUS
<1>4. WellListed(devsnum, fam - 1)
  BY DEF WellListed
<1>5. fam \in 1 .. Len(Families) /\ ~(fam > 1)
  BY FamilyCodes
<1>6. QED BY <1>1, <1>2, <1>3, <1>4, <1>5 DEF Scanning

LEMMA InitBoot == Init => BootHolds
<1> SUFFICES ASSUME Init PROVE BootHolds
  OBVIOUS
<1>1. /\ fitted \in Boards /\ DOMAIN FamilySN = 0 .. MAX_DEV1WIRE - 1 /\ op = "boot" /\ pc = "find"
      /\ fam = 1 /\ dev = 0 /\ num = 0 /\ mac = FALLBACK /\ devsnum = 0
  BY DEF Init, Statics
<1>2. Scanning
  BY <1>1, BootBegins
<1>3. QED BY <1>1, <1>2 DEF BootHolds

(* Neither the board nor the places of the list change.                    *)
LEMMA BoardStays ==
  ASSUME BootHolds, [Next]_vars
  PROVE  fitted' \in Boards /\ DOMAIN FamilySN' = 0 .. MAX_DEV1WIRE - 1
<1> USE DEF BootHolds, listVars
<1>1. CASE Step
  <2>1. CASE Boot
    BY <2>1 DEF Boot, FindDevices, Search, Device, DevicesDone, EpInit, EpEnable
  <2>2. CASE ~Boot
    BY <1>1, <2>2 DEF Step, Store, Temp, FilterOff, FilterLoad, WriteScratch, CopyScratch, Answer, TempWait, TempConvert
  <2>3. QED BY <2>1, <2>2
<1>2. CASE Command
  BY <1>2 DEF Command, MacSet, SetPersistent, GetPersistent, TempStart, Starts
<1>3. CASE Devices
  BY <1>3 DEF Devices, Programs, Converted
<1>4. CASE Faults
  BY <1>4 DEF Faults, LoseContact, RegainContact, Reset
<1>5. CASE UNCHANGED vars
  BY <1>5 DEF vars
<1>6. QED BY <1>1, <1>2, <1>3, <1>4, <1>5 DEF Next

(* A step that leaves the scan as it is, or is none of an undisturbed one. *)
LEMMA SameScan ==
  ASSUME BootHolds, fitted' \in Boards, DOMAIN FamilySN' = 0 .. MAX_DEV1WIRE - 1,
         \/ op' # "boot" /\ pc' # "ep_init"
         \/ pc' \notin {"find", "search", "device", "ep_init"}
         \/ ~calm' /\ UNCHANGED << op, pc >>
         \/ calm /\ UNCHANGED << fitted, bus, searchVars, page, pc, op, calm, FamilySN, devsnum, found, fam, num, dev, mac >>
  PROVE  BootHolds'
<1>1. CASE op' # "boot" /\ pc' # "ep_init"
  BY <1>1 DEF BootHolds
<1>2. CASE pc' \notin {"find", "search", "device", "ep_init"}
  BY <1>2 DEF BootHolds
<1>3. CASE ~calm' /\ UNCHANGED << op, pc >>
  BY <1>3 DEF BootHolds
<1>4. CASE calm /\ UNCHANGED << fitted, bus, searchVars, page, pc, op, calm, FamilySN, devsnum, found, fam, num, dev, mac >>
  <2>1. Scanning => Scanning'
    <3>1. SearchBegins' <=> SearchBegins
      BY <1>4 DEF SearchBegins, searchVars
    <3>2. LastZero(SerialNum)' = LastZero(SerialNum)
      BY <1>4 DEF LastZero, Splits, owTouchBit, searchVars
    <3>3. InFamily' = InFamily
      BY <1>4 DEF InFamily
    <3>4. SearchAt' <=> SearchAt
      BY <1>4, <3>2, <3>3 DEF SearchAt, searchVars
    <3>5. Listed(devsnum)' = Listed(devsnum) /\ ListUpto(fam)' = ListUpto(fam)
      BY <1>4 DEF Listed, ListUpto, ListOf
    <3>6. /\ WellListed(devsnum, fam - 1)' <=> WellListed(devsnum, fam - 1)
          /\ WellListed(devsnum + num, fam)' <=> WellListed(devsnum + num, fam)
      BY <1>4 DEF WellListed
    <3>7. QED BY <1>4, <3>1, <3>3, <3>4, <3>5, <3>6 DEF Scanning
  <2>2. Scanned => Scanned'
    BY <1>4 DEF Scanned, Listed, ListOf, WellListed
  <2>3. QED BY <1>4, <2>1, <2>2 DEF BootHolds
<1>5. QED BY <1>1, <1>2, <1>3, <1>4

LEMMA NextBootHolds == ASSUME CalmInv, BootHolds, [Next]_vars, CalmInv' PROVE BootHolds'
<1>1. fitted' \in Boards /\ DOMAIN FamilySN' = 0 .. MAX_DEV1WIRE - 1
  BY BoardStays
<1>2. CASE Boot
  <2>1. CASE EpInit \/ EpEnable
    BY <1>1, <2>1, SameScan DEF EpInit, EpEnable
  <2>2. CASE op # "boot" /\ (FindDevices \/ (\E held \in Held : Search(held)) \/ Device \/ DevicesDone)
    <3>1. op' = op /\ pc' # "ep_init"
      BY <2>2 DEF FindDevices, Search, Ends, ScanGoesOn, SetpGoesOn, Device, DevicesDone, BootHolds
    <3>2. QED BY <1>1, <2>2, <3>1, SameScan
  <2>3. CASE op = "boot" /\ (FindDevices \/ (\E held \in Held : Search(held)) \/ Device \/ DevicesDone)
    <3>1. op' = "boot"
      BY <2>3 DEF FindDevices, Search, Ends, ScanGoesOn, Device, DevicesDone
    <3>2. CASE ~calm'
      BY <1>1, <3>1, <3>2 DEF BootHolds
    <3>3. CASE calm'
      <4>1. \/ pc' \in {"find", "search"} /\ Scanning'
            \/ pc' \in {"device", "ep_init"} /\ Scanned'
        BY <2>3, <3>3, NewFamily, ScanStep, DeviceStep, DoneStep DEF CalmInv
      <4>2. QED BY <1>1, <3>1, <4>1 DEF BootHolds
    <3>4. QED BY <3>2, <3>3
  <2>4. QED BY <1>2, <2>1, <2>2, <2>3 DEF Boot
<1>3. CASE Store
  <2>1. op' = "setp" /\ pc' # "ep_init"
    BY <1>3 DEF Store, WriteScratch, CopyScratch, Answer, Fails, CalmInv, StoreInv, StoreHolds, listVars
  <2>2. QED BY <1>1, <2>1, SameScan
<1>4. CASE FilterOff \/ FilterLoad \/ Temp
  <2>1. pc' \notin {"find", "search", "device", "ep_init"}
    BY <1>4 DEF FilterOff, FilterLoad, Temp, TempWait, TempConvert
  <2>2. QED BY <1>1, <2>1, SameScan
<1>5. CASE Command
  <2>1. op' # "boot" /\ pc' # "ep_init"
    BY <1>5 DEF Command, MacSet, SetPersistent, GetPersistent, TempStart, Starts
  <2>2. QED BY <1>1, <2>1, SameScan
<1>6. CASE \E d \in Pool : Programs(d)
  <2>1. op' = "setp" /\ pc' = "answer"
    BY <1>6 DEF Programs, CalmInv, StoreInv, ProgramsTarget, SetpAt
  <2>2. QED BY <1>1, <2>1, SameScan
<1>7. CASE Reset
  <2>1. /\ op' = "boot" /\ pc' = "find" /\ fam' = 1 /\ dev' = 0 /\ num' = 0 /\ mac' = FALLBACK /\ devsnum' = 0
    BY <1>7 DEF Reset
  <2>2. Scanning'
    <3>1. /\ (Listed(devsnum) = << >>)' /\ (ListUpto(fam) = << >>)' /\ Len(<< >>) = 0
      BY <2>1 DEF Listed, ListUpto
    <3>2. WellListed(devsnum, fam - 1)'
      BY <2>1 DEF WellListed
    <3>3. fam' \in 1 .. Len(Families) /\ ~(fam' > 1)
      BY <2>1, FamilyCodes
    <3>4. QED BY <2>1, <3>1, <3>2, <3>3 DEF Scanning
  <2>3. QED BY <1>1, <2>1, <2>2 DEF BootHolds
<1>8. CASE \E d \in Pool : LoseContact(d)
  <2>1. ~calm' /\ UNCHANGED << op, pc >>
    BY <1>8 DEF LoseContact, Disturbed
  <2>2. QED BY <1>1, <2>1, SameScan
<1>9. CASE \E d \in Pool : RegainContact(d)
  <2>1. ~calm' /\ UNCHANGED << op, pc >>
    BY <1>9 DEF RegainContact, Undisturbed, CalmInv, CalmHolds
  <2>2. QED BY <1>1, <2>1, SameScan
<1>10. CASE (\E d \in Pool : Converted(d)) \/ UNCHANGED vars
  <2>1. UNCHANGED << fitted, bus, searchVars, page, pc, op, calm, FamilySN, devsnum, found, fam, num, dev, mac >>
    BY <1>10 DEF Converted, Undisturbed, vars, listVars, deviceVars
  <2>2. CASE calm
    BY <1>1, <2>1, <2>2, SameScan
  <2>3. CASE ~calm
    BY <1>1, <2>1, <2>3, SameScan
  <2>4. QED BY <2>2, <2>3
<1>11. QED BY <1>2, <1>3, <1>4, <1>5, <1>6, <1>7, <1>8, <1>9, <1>10 DEF Next, Step, Devices, Faults

LEMMA InitStored == Init => StoredHolds
BY DEF Init, Statics, StoredHolds, SetpAt

(* While "mac setp" is on its way nothing counts as stored.                *)
LEMMA NothingStored ==
  ASSUME CalmInv, StoredHolds, prog # {}
  PROVE  stored = NoMac
BY DEF CalmInv, StoreInv, ProgramsTarget, StoredHolds, SetpAt

(* A step that leaves what was stored as it is, and the pages.             *)
LEMMA StoredStays ==
  ASSUME StoredHolds, UNCHANGED << fitted, stored >>, page' = page \/ stored = NoMac,
         op' # "setp" \/ pc' = "run"
  PROVE  StoredHolds'
BY DEF StoredHolds, SetpAt

LEMMA NextStoredHolds == ASSUME CalmInv, StoredHolds, [Next]_vars PROVE StoredHolds'
<1>0. StoreHolds /\ ProgramsTarget
  BY DEF CalmInv, StoreInv
<1>1. CASE Boot
  <2>1. CASE EpInit \/ EpEnable \/ Device \/ DevicesDone
    <3>1. UNCHANGED << fitted, stored, page, op >>
      BY <2>1 DEF EpInit, EpEnable, Device, DevicesDone, deviceVars, storeVars
    <3>2. op # "setp"
      BY <1>0, <2>1 DEF StoreHolds, EpInit, EpEnable, Device, DevicesDone
    <3>3. QED BY <3>1, <3>2, StoredStays
  <2>2. CASE FindDevices \/ \E held \in Held : Search(held)
    <3>1. /\ pc \in {"find", "search"} /\ op' = op /\ UNCHANGED << fitted, stored, page >>
          /\ op = "setp" => pc' \in {"search", "write", "run"}
      BY <2>2 DEF FindDevices, Search, Ends, ScanGoesOn, SetpGoesOn, deviceVars, storeVars
    <3>2. op = "setp" => stored = NoMac
      BY <3>1 DEF StoredHolds, SetpAt
    <3>3. QED BY <3>1, <3>2 DEF StoredHolds, SetpAt
  <2>3. QED BY <1>1, <2>1, <2>2 DEF Boot
<1>2. ASSUME NEW ok \in BOOLEAN, WriteScratch(ok) PROVE StoredHolds'
  <2>1. pc = "write" /\ op = "setp" /\ op' = op /\ pc' \in {"copy", "run"} /\ UNCHANGED << fitted, stored, page >>
    BY <1>0, <1>2 DEF StoreHolds, WriteScratch, Fails, listVars, storeVars
  <2>2. stored = NoMac
    BY <2>1 DEF StoredHolds, SetpAt
  <2>3. QED BY <2>1, <2>2 DEF StoredHolds, SetpAt
<1>3. ASSUME NEW ok \in BOOLEAN, CopyScratch(ok) PROVE StoredHolds'
  <2>1. /\ pc = "copy" /\ op = "setp" /\ op' = op /\ pc' \in {"answer", "run"} /\ UNCHANGED << fitted, stored, page >>
        /\ acked' = {} /\ (pc' = "answer" => prog' \subseteq {target} \cap bus)
    BY <1>0, <1>3 DEF StoreHolds, CopyScratch, Fails, listVars, storeVars
  <2>2. stored = NoMac
    BY <2>1 DEF StoredHolds, SetpAt
  <2>3. prog' \cup acked' \subseteq fitted' \/ pc' # "answer"
    BY <1>0, <2>1 DEF StoreHolds
  <2>4. QED BY <2>1, <2>2, <2>3 DEF StoredHolds, SetpAt
<1>4. ASSUME NEW ok \in BOOLEAN, Answer(ok) PROVE StoredHolds'
  <2>1. /\ pc = "answer" /\ op = "setp" /\ pc' = "run" /\ UNCHANGED << fitted, page >>
        /\ stored' = NoMac \/ (stored' = mac /\ target \in acked)
    BY <1>0, <1>4 DEF StoreHolds, Answer, listVars
  <2>2. target \in acked => /\ target \in fitted /\ Kind(target) = Kind(EEPROM43) /\ page[target] = mac
    BY <1>0, <2>1 DEF StoredHolds, SetpAt, StoreHolds
  <2>3. QED BY <2>1, <2>2 DEF StoredHolds, SetpAt, Members
<1>5. CASE FilterOff \/ FilterLoad \/ Temp
  <2>1. UNCHANGED << fitted, stored, page >> /\ (op' # "setp" \/ pc' = "run")
    BY <1>0, <1>5 DEF StoreHolds, FilterOff, FilterLoad, Temp, TempWait, TempConvert, deviceVars, storeVars
  <2>2. QED BY <2>1, StoredStays
<1>6. CASE \E m \in Entered : SetPersistent(m)
  <2>1. UNCHANGED << fitted, page >> /\ op' = "setp" /\ pc' = "find" /\ stored' = NoMac
    BY <1>6 DEF SetPersistent, Starts, deviceVars
  <2>2. QED BY <2>1 DEF StoredHolds, SetpAt
<1>7. CASE (\E m \in Entered : MacSet(m)) \/ GetPersistent \/ \E answer \in {0, 255} : TempStart(answer)
  <2>1. UNCHANGED << fitted, page, stored >> /\ op' # "setp"
    BY <1>7 DEF MacSet, GetPersistent, TempStart, Starts, deviceVars
  <2>2. QED BY <2>1, StoredStays
<1>8. ASSUME NEW d \in Pool, Programs(d) PROVE StoredHolds'
  <2>1. /\ UNCHANGED << fitted, stored, pc, op >> /\ d \in prog /\ prog' = prog \ {d}
        /\ acked' = {d} \/ acked' = acked
    BY <1>8 DEF Programs, storeVars
  <2>2. stored = NoMac /\ SetpAt({"answer"}) /\ prog \cup acked \subseteq fitted
    BY <1>0, <2>1, NothingStored DEF ProgramsTarget, StoredHolds
  <2>3. QED BY <2>1, <2>2 DEF StoredHolds, SetpAt
<1>9. ASSUME NEW d \in Pool, LoseContact(d) PROVE StoredHolds'
  <2>1. Cut({d}) /\ UNCHANGED << fitted, stored, pc, op >> /\ acked' \subseteq acked
    BY <1>9 DEF LoseContact, storeVars
  <2>2. prog' \subseteq prog /\ (prog = {} => page' = page)
    BY <2>1, CutPages DEF CalmInv
  <2>3. stored = NoMac \/ page' = page
    BY <2>2, NothingStored
  <2>4. QED BY <2>1, <2>2, <2>3 DEF StoredHolds, SetpAt
<1>10. CASE Reset
  <2>1. Cut(prog) /\ UNCHANGED << fitted, stored >> /\ op' = "boot"
    BY <1>10 DEF Reset
  <2>2. stored = NoMac \/ page' = page
    BY <2>1, CutPages, NothingStored DEF CalmInv
  <2>3. QED BY <2>1, <2>2, StoredStays
<1>11. CASE (\E d \in Pool : RegainContact(d) \/ Converted(d)) \/ UNCHANGED vars
  <2>1. UNCHANGED << fitted, stored, page, pc, op, prog, acked >>
    BY <1>11 DEF RegainContact, Converted, vars, deviceVars, storeVars
  <2>2. QED BY <2>1 DEF StoredHolds, SetpAt
<1>12. QED BY <1>1, <1>2, <1>3, <1>4, <1>5, <1>6, <1>7, <1>8, <1>9, <1>10, <1>11
          DEF Next, Step, Store, Command, Devices, Faults

(* The one EEPROM of a board is in the list, and nothing else that has a   *)
(* page.                                                                   *)
LEMMA OneEeprom ==
  ASSUME fitted \in Boards, Scanned, NEW e \in fitted, Members(fitted, EEPROM43) = {e}, Family(e) = EEPROM43,
         Oui(page[e]) # Oui(ZEROS)
  PROVE  Generated(Listed(devsnum), page) = page[e]
<1> DEFINE M == Members(fitted, Families[3])   p == Place(M, e)   l == ListUpto(3)   W == Written(devsnum)
<1>1. M = {e} /\ IsFiniteSet(M) /\ M \subseteq Rom /\ Size(3) = Cardinality(M) /\ Size(3) \in Nat
  BY Sizes, FamilyCodes DEF Size
<1>2. /\ ListOf(fitted) = l \o InOrder(M) /\ Len(ListOf(fitted)) = Len(l) + Size(3) /\ Len(l) \in Nat
      /\ \E T : l \in Seq(T)
  <2>1. ListUpto(3 + 1) = ListOf(fitted)
    BY DEF ListUpto
  <2>2. QED BY <2>1, ListGrows
<1>3. p \in 1 .. Size(3) /\ InOrder(M)[p] = e
  BY <1>1, InPlace
<1> HIDE DEF M, p, l
<1>4. (l \o InOrder(M))[Len(l) + p] = e
  <2>1. PICK T : InOrder(M) \in Seq(T) /\ Len(InOrder(M)) = Size(3)
    BY <1>1, OrderLength
  <2>2. PICK S : l \in Seq(S)
    BY <1>2
  <2>3. QED BY <1>3, <2>1, <2>2, Joined
<1>5. /\ devsnum = Len(l) + Size(3) /\ devsnum \in Nat /\ Listed(devsnum) = l \o InOrder(M)
      /\ WellListed(devsnum, 3)
  BY <1>1, <1>2, FamilyCodes DEF Scanned
<1>6. Len(l) + p \in W
  <2>1. Len(l) + p \in 1 .. devsnum
    BY <1>1, <1>2, <1>3, <1>5
  <2> DEFINE k == Len(l) + p
  <2>2. Listed(devsnum)[k] = FamilySN[k - 1]
    <3> HIDE DEF k
    <3>1. k \in 1 .. devsnum
      BY <2>1 DEF k
    <3>2. QED BY <3>1 DEF Listed
  <2>3. FamilySN[k - 1] = e
    BY <1>4, <1>5, <2>2
  <2> HIDE DEF k
  <2>4. k \in 1 .. devsnum /\ Family(FamilySN[k - 1]) = EEPROM43 /\ Oui(page[FamilySN[k - 1]]) # Oui(ZEROS)
    BY <2>1, <2>3 DEF k
  <2>5. k \in Written(devsnum)
    BY <2>4 DEF Written
  <2>6. QED BY <2>5 DEF k
<1>7. Latest(W) \in W
  <2>1. W \subseteq 1 .. devsnum
    BY DEF Written
  <2> HIDE DEF W
  <2>2. QED BY <1>5, <1>6, <2>1, Greatest DEF Latest
<1>8. \A k \in W : FamilySN[k - 1] = e
  <2> SUFFICES ASSUME NEW k \in W PROVE FamilySN[k - 1] = e
    OBVIOUS
  <2>1. k - 1 \in 0 .. devsnum - 1 /\ Family(FamilySN[k - 1]) = EEPROM43
    BY <1>5 DEF Written
  <2>2. FamilySN[k - 1] \in fitted
    BY <2>1, <1>5 DEF WellListed
  <2>3. Kind(FamilySN[k - 1]) = Kind(EEPROM43)
    BY <2>1, <2>2, BoardFacts, KindOfFamily, FamilyCodes
  <2>4. QED BY <2>2, <2>3 DEF Members
<1>9. Generated(Listed(devsnum), page) = page[FamilySN[Latest(W) - 1]]
  BY <1>5, <1>6, GeneratedAt
<1>10. QED BY <1>7, <1>8, <1>9

(* An undisturbed start-up finds every device of the three families, and   *)
(* an address that was stored (wrc_initialize, own_scanbus, FindDevices,   *)
(* owFirst and owNext, get_persistent_mac), for any boards with room in    *)
(* the list, any devices besides, and whatever was disturbed before.       *)
THEOREM StartsUp == Spec => []BootAddress
<1>1. Init => BootInv
  BY InitCalm, InitBoot, InitStored DEF BootInv
<1>2. BootInv /\ [Next]_vars => BootInv'
  BY NextCalm, NextBootHolds, NextStoredHolds DEF BootInv
<1>3. BootInv => BootAddress
  <2> SUFFICES ASSUME BootInv, pc = "ep_init", calm PROVE BootAddress
    BY DEF BootAddress
  <2>1. Scanned /\ dev = devsnum /\ fitted \in Boards
    BY DEF BootInv, BootHolds, Scanned
  <2>2. /\ Listed(devsnum) = ListOf(fitted) /\ found = (Members(fitted, TEMP28) # {})
        /\ mac = Generated(Listed(devsnum), page)
    BY <2>1 DEF Scanned
  <2>3. ASSUME stored # NoMac, Oui(stored) # Oui(ZEROS), NEW e \in fitted,
               Members(fitted, EEPROM43) = {e}, Family(e) = EEPROM43
        PROVE  mac = stored
    <3>1. page[e] = stored
      BY <2>3 DEF BootInv, StoredHolds
    <3>2. QED BY <2>1, <2>2, <2>3, <3>1, OneEeprom
  <2>4. QED BY <2>2, <2>3 DEF BootAddress
<1>4. QED BY <1>1, <1>2, <1>3, PTL DEF Spec

(***************************************************************************)
(* Types.  An address is made of two halves that were given.               *)
(***************************************************************************)
Given == Programmed \cup Entered \cup {ZEROS, FALLBACK}

LEMMA GivenBytes ==
  ASSUME NEW m \in Given
  PROVE  m \in [1 .. 6 -> 0 .. 255]
<1>1. ZEROS \in [1 .. 6 -> 0 .. 255] /\ FALLBACK \in [1 .. 6 -> 0 .. 255]
  BY DEF ZEROS, FALLBACK
<1>2. QED BY <1>1, MacAssumption DEF Given

Lows == { Low(m) : m \in Given } \cup { LowBytes[d] : d \in Pool }

LEMMA HalfType ==
  ASSUME NEW m, m \in [1 .. 6 -> 0 .. 255]
  PROVE  /\ Oui(m) \in [1 .. 3 -> 0 .. 255] /\ \A k \in 1 .. 3 : Oui(m)[k] = m[k]
         /\ Low(m) \in [1 .. 3 -> 0 .. 255] /\ \A k \in 1 .. 3 : Low(m)[k] = m[k + 3]
<1>1. /\ SubSeq(m, 1, 3) \in Seq(0 .. 255) /\ Len(SubSeq(m, 1, 3)) = 3
      /\ \A k \in 1 .. 3 : SubSeq(m, 1, 3)[k] = m[k]
  BY SubSeqProperties
<1>2. /\ SubSeq(m, 4, 6) \in Seq(0 .. 255) /\ Len(SubSeq(m, 4, 6)) = 3
      /\ \A k \in 1 .. 3 : SubSeq(m, 4, 6)[k] = m[k + 3]
  <2>1. \A i \in 4 .. 6 : m[i] \in 0 .. 255
    OBVIOUS
  <2>2. /\ SubSeq(m, 4, 6) \in Seq(0 .. 255)
        /\ Len(SubSeq(m, 4, 6)) = IF 4 <= 6 THEN 6 - 4 + 1 ELSE 0
        /\ \A i \in 1 .. 6 - 4 + 1 : SubSeq(m, 4, 6)[i] = m[4 + i - 1]
    BY <2>1, SubSeqProperties, 4 \in Int, 6 \in Int
  <2>3. \A i \in 1 .. 3 : 4 + i - 1 = i + 3
    OBVIOUS
  <2>4. QED BY <2>2, <2>3
<1>3. \A s : s \in Seq(0 .. 255) /\ Len(s) = 3 => s \in [1 .. 3 -> 0 .. 255]
  <2> SUFFICES ASSUME NEW s \in Seq(0 .. 255), Len(s) = 3 PROVE s \in [1 .. 3 -> 0 .. 255]
    OBVIOUS
  <2>1. s \in [1 .. Len(s) -> 0 .. 255]
    BY LenProperties
  <2>2. QED BY <2>1
<1>4. QED BY <1>1, <1>2, <1>3 DEF Oui, Low

LEMMA HalvesJoined ==
  ASSUME NEW a, a \in [1 .. 3 -> 0 .. 255], NEW l, l \in [1 .. 3 -> 0 .. 255]
  PROVE  a \o l \in [1 .. 6 -> 0 .. 255] /\ Oui(a \o l) = a /\ Low(a \o l) = l
<1> DEFINE b == a \o l
<1>1. a \in Seq(0 .. 255) /\ Len(a) = 3 /\ l \in Seq(0 .. 255) /\ Len(l) = 3
  <2>1. a \in Seq(0 .. 255) /\ Len(a) = 3
    BY AsSequence, 3 \in Nat
  <2>2. l \in Seq(0 .. 255) /\ Len(l) = 3
    BY AsSequence, 3 \in Nat
  <2>3. QED BY <2>1, <2>2
<1>2. /\ b \in Seq(0 .. 255) /\ Len(b) = Len(a) + Len(l)
      /\ \A i \in 1 .. Len(a) + Len(l) : b[i] = IF i <= Len(a) THEN a[i] ELSE l[i - Len(a)]
  <2> DEFINE S == 0 .. 255
  <2>1. a \in Seq(S) /\ l \in Seq(S)
    BY <1>1
  <2> HIDE DEF S
  <2>2. /\ b \in Seq(S) /\ Len(b) = Len(a) + Len(l)
        /\ \A i \in 1 .. Len(a) + Len(l) : b[i] = IF i <= Len(a) THEN a[i] ELSE l[i - Len(a)]
    BY <2>1, ConcatProperties
  <2>3. QED BY <2>2 DEF S
<1> HIDE DEF b
<1>3. Len(b) = 6 /\ (\A i \in 1 .. 3 : b[i] = a[i]) /\ \A i \in 1 .. 3 : b[i + 3] = l[i]
  BY <1>1, <1>2
<1>4. b \in [1 .. 6 -> 0 .. 255]
  <2>1. b \in [1 .. Len(b) -> 0 .. 255]
    BY <1>2, LenProperties
  <2>2. QED BY <1>3, <2>1
<1>5. Oui(b) = a
  BY <1>3, <1>4, HalfType
<1>6. Low(b) = l
  BY <1>3, <1>4, HalfType
<1>7. QED BY <1>4, <1>5, <1>6 DEF b

LEMMA MacType ==
  ASSUME NEW m, m \in Mac
  PROVE  m \in [1 .. 6 -> 0 .. 255] /\ (\E n \in Given : Oui(m) = Oui(n)) /\ Low(m) \in Lows
<1>1. PICK n \in Given, l \in Lows : m = Oui(n) \o l
  BY DEF Mac, Given, Lows
<1>2. Oui(n) \in [1 .. 3 -> 0 .. 255]
  BY GivenBytes, HalfType
<1>3. l \in [1 .. 3 -> 0 .. 255]
  BY GivenBytes, HalfType, MacAssumption DEF Lows
<1>4. QED BY <1>1, <1>2, <1>3, HalvesJoined

LEMMA MacJoined ==
  ASSUME NEW m, m \in Mac, NEW l \in Lows
  PROVE  Oui(m) \o l \in Mac
<1>1. PICK n \in Given : Oui(m) = Oui(n)
  BY MacType
<1>2. Oui(m) \o l = Oui(n) \o l
  BY <1>1
<1>3. Oui(n) \o l \in Mac
  <2>1. Mac = { Oui(x) \o y : x \in Given, y \in Lows }
    BY DEF Mac, Given, Lows
  <2>2. QED BY <2>1
<1>4. QED BY <1>2, <1>3

LEMMA MacTorn ==
  ASSUME NEW m, m \in Mac, NEW n, n \in Mac
  PROVE  Torn(m, n) \in Mac
BY MacType, MacJoined DEF Torn

LEMMA GivenMac ==
  ASSUME NEW m \in Given
  PROVE  m \in Mac
<1>1. m \in [1 .. 6 -> 0 .. 255]
  BY GivenBytes
<1>2. /\ Oui(m) \o Low(m) \in [1 .. 6 -> 0 .. 255]
      /\ Oui(Oui(m) \o Low(m)) = Oui(m) /\ Low(Oui(m) \o Low(m)) = Low(m)
  BY <1>1, HalfType, HalvesJoined
<1> DEFINE b == Oui(m) \o Low(m)
<1> HIDE DEF b
<1>3. \A k \in 1 .. 6 : b[k] = m[k]
  <2>1. \A k \in 1 .. 3 : b[k] = Oui(m)[k] /\ b[k + 3] = Low(m)[k]
    BY <1>2, HalfType DEF b
  <2>2. \A k \in 1 .. 3 : Oui(m)[k] = m[k] /\ Low(m)[k] = m[k + 3]
    BY <1>1, HalfType
  <2>3. \A k \in 1 .. 6 : k \in 1 .. 3 \/ (k - 3 \in 1 .. 3 /\ k = (k - 3) + 3)
    OBVIOUS
  <2>4. QED BY <2>1, <2>2, <2>3
<1>4. b = m
  <2>1. b \in [1 .. 6 -> 0 .. 255]
    BY <1>2 DEF b
  <2>2. QED BY <1>1, <1>3, <2>1
<1>5. QED BY <1>4 DEF Mac, Given, b

LEMMA TwoBytes ==
  ASSUME NEW a \in 0 .. 255, NEW b \in 0 .. 255
  PROVE  (a * 256 + b) \div 256 = a /\ (a * 256 + b) % 256 = b
OBVIOUS

(* What the endpoint is given comes back from it.                          *)
LEMMA MacOfWords ==
  ASSUME NEW m, m \in Mac, << MACH, MACL[1], MACL[2] >> = Words(m)
  PROVE  get_mac_addr = m
<1>1. m \in [1 .. 6 -> 0 .. 255]
  BY MacType
<1>2. MACH = m[1] * 256 + m[2] /\ MACL[1] = m[3] * 256 + m[4] /\ MACL[2] = m[5] * 256 + m[6]
  BY DEF Words
<1>3. /\ MACH \div 256 = m[1] /\ MACH % 256 = m[2] /\ MACL[1] \div 256 = m[3] /\ MACL[1] % 256 = m[4]
      /\ MACL[2] \div 256 = m[5] /\ MACL[2] % 256 = m[6]
  <2>1. \A k \in 1 .. 6 : m[k] \in 0 .. 255
    BY <1>1
  <2>2. /\ (m[1] * 256 + m[2]) \div 256 = m[1] /\ (m[1] * 256 + m[2]) % 256 = m[2]
        /\ (m[3] * 256 + m[4]) \div 256 = m[3] /\ (m[3] * 256 + m[4]) % 256 = m[4]
        /\ (m[5] * 256 + m[6]) \div 256 = m[5] /\ (m[5] * 256 + m[6]) % 256 = m[6]
    <3>1. ASSUME NEW i \in 1 .. 6, NEW j \in 1 .. 6
          PROVE  (m[i] * 256 + m[j]) \div 256 = m[i] /\ (m[i] * 256 + m[j]) % 256 = m[j]
      <4> DEFINE a == m[i]   b == m[j]
      <4>1. a \in 0 .. 255 /\ b \in 0 .. 255
        BY <2>1
      <4> HIDE DEF a, b
      <4>2. (a * 256 + b) \div 256 = a /\ (a * 256 + b) % 256 = b
        BY <4>1, TwoBytes
      <4>3. QED BY <4>2 DEF a, b
    <3>2. QED BY <3>1
  <2>3. QED BY <1>2, <2>2
<1>4. m = << m[1], m[2], m[3], m[4], m[5], m[6] >>
  BY <1>1
<1>5. QED BY <1>3, <1>4 DEF get_mac_addr

(***************************************************************************)
(* The places of the list, and the search when devices come and go.        *)
(***************************************************************************)
(* A list that has a place for each device and for each of them once more  *)
(* at every event has them all the time.                                   *)
LEMMA Room ==
  ASSUME fitted \in Boards, events \in 0 .. MaxEvents
  PROVE  /\ Cardinality(fitted) * events \in Nat /\ Cardinality(fitted) \in Nat
         /\ Cardinality(fitted) * (events + 1) = Cardinality(fitted) * events + Cardinality(fitted)
         /\ Cardinality(fitted) * events + Cardinality(fitted) < MAX_DEV1WIRE
<1> DEFINE c == Cardinality(fitted)
<1>1. c \in Nat /\ MaxEvents \in Nat /\ c * (MaxEvents + 1) < MAX_DEV1WIRE /\ MAX_DEV1WIRE \in Nat
  BY BoardFacts, MacAssumption
<1>2. events \in Nat /\ MaxEvents - events \in Nat
  BY <1>1
<1> HIDE DEF c
<1>3. \A x, y, z \in Nat : x * y \in Nat /\ x * (y + 1) = x * y + x /\ x * (y + z) = x * y + x * z
  OBVIOUS
<1>4. c * events \in Nat /\ c * (events + 1) = c * events + c
  BY <1>1, <1>2, <1>3
<1>5. c * events + c <= c * (MaxEvents + 1)
  <2> DEFINE k == MaxEvents - events
             y == events + 1
  <2>1. k \in Nat /\ y \in Nat /\ MaxEvents + 1 = y + k
    BY <1>1, <1>2
  <2> HIDE DEF k, y
  <2>2. c * (y + k) = c * y + c * k /\ c * k \in Nat /\ c * y \in Nat
    BY <1>1, <1>3, <2>1
  <2>3. c * y <= c * (MaxEvents + 1)
    BY <2>1, <2>2
  <2>4. QED BY <1>4, <2>3 DEF y
<1>6. c * events + c < MAX_DEV1WIRE
  <2>1. c * (MaxEvents + 1) \in Nat
    BY <1>1, <1>3
  <2>2. QED BY <1>1, <1>4, <1>5, <2>1
<1>7. QED BY <1>1, <1>4, <1>6 DEF c

LEMMA LastZeroType ==
  ASSUME NEW d
  PROVE  /\ LastZero(d) \in 0 .. RomBits
         /\ LastZero(d) # 0 => d[LastZero(d)] = 0 /\ Splits(d, LastZero(d))
<1> DEFINE zeros == { n \in 1 .. RomBits : d[n] = 0 /\ Splits(d, n) }
<1>0. RomBits \in Nat
  BY OneWireAssumption
<1>1. CASE zeros = {}
  BY <1>0, <1>1 DEF LastZero
<1>2. CASE zeros # {}
  <2>1. PICK k \in zeros : \A m \in zeros : m <= k
    <3>1. zeros \subseteq 0 .. RomBits
      BY <1>0
    <3> HIDE DEF zeros
    <3>2. QED BY <1>0, <1>2, <3>1, GreatestMember
  <2>2. LastZero(d) = CHOOSE n \in zeros : \A m \in zeros : m <= n
    BY <1>2 DEF LastZero
  <2>3. LastZero(d) \in zeros
    <3> HIDE DEF zeros
    <3>1. QED BY <2>1, <2>2
  <2>4. QED BY <1>0, <2>3
<1>3. QED BY <1>1, <1>2

LEMMA SomeDevice ==
  ASSUME bus \subseteq Rom, bus # {}, SerialNum \in Rom, LastDiscrepancy \in 0 .. RomBits
  PROVE  Followed \in bus /\ \A n \in 1 .. RomBits : Splits(Followed, n) => Followed[n] = Taken(n)
<1>1. RomBits \in Nat
  BY OneWireAssumption
<1>2. \A n \in 1 .. RomBits : Taken(n) \in {0, 1}
  BY <1>1 DEF Rom, Taken
<1>3. QED BY <1>1, <1>2, SomeFollowed

(* Whatever has gone or come back meanwhile: as long as the last device is *)
(* there and so is one on the path it did not take, the search goes on     *)
(* behind it.                                                              *)
LEMMA GoesBehind ==
  ASSUME bus \subseteq Rom, Onward, LastDiscrepancy \in 1 .. RomBits
  PROVE  Followed \in bus /\ Before(SerialNum, Followed)
<1> DEFINE d == SerialNum
           p == LastDiscrepancy
           f == Followed
<1>0. RomBits \in Nat
  BY OneWireAssumption
<1>1. p \in 1 .. RomBits /\ d[p] = 0 /\ Splits(d, p) /\ d \in bus /\ d \in Rom
  BY DEF Onward
<1>2. f \in bus /\ f \in Rom /\ \A n \in 1 .. RomBits : Splits(f, n) => f[n] = Taken(n)
  BY <1>0, <1>1, SomeDevice
<1> HIDE DEF f
<1>3. \A n \in 1 .. p - 1 : f[n] = d[n]
  <2> SUFFICES ASSUME f # d, NEW i \in 1 .. p - 1, f[i] # d[i] PROVE FALSE
    OBVIOUS
  <2>1. PICK n \in 1 .. RomBits : f[n] # d[n] /\ \A m \in 1 .. n - 1 : f[m] = d[m]
    BY <1>1, <1>2, FirstDifference
  <2>2. n < p
    BY <1>0, <1>1, <2>1
  <2>3. Splits(f, n)
    BY <1>1, <1>2, <2>1, SplitsFor
  <2>4. f[n] = SerialNum[n]
    BY <1>2, <2>2, <2>3 DEF Taken
  <2>5. QED BY <2>1, <2>4
<1>4. f[p] = 1
  <2>1. Splits(f, p)
    BY <1>0, <1>1, <1>3, SplitsAlike
  <2>2. QED BY <1>1, <1>2, <2>1 DEF Taken
<1>5. Before(d, f)
  BY <1>1, <1>3, <1>4 DEF Before
<1>6. QED BY <1>2, <1>5 DEF f

LEMMA PlaceGrows ==
  ASSUME NEW S, IsFiniteSet(S), S \subseteq Rom, NEW c \in Rom, NEW d \in Rom, Before(c, d)
  PROVE  Place(S, c) + (IF d \in S THEN 1 ELSE 0) <= Place(S, d)
<1> DEFINE U == { e \in S : e = c \/ Before(e, c) }
           V == { e \in S : e = d \/ Before(e, d) }
<1>1. U \in SUBSET V
  <2>1. \A e \in S : Before(e, c) => Before(e, d)
    BY BeforeThat
  <2>2. QED BY <2>1
<1>2. IsFiniteSet(V) /\ Place(S, c) \in Nat /\ Place(S, d) \in Nat
  <2>1. Place(S, c) \in 0 .. Cardinality(S) /\ Cardinality(S) \in Nat
    BY PlaceType
  <2>2. IsFiniteSet(V) /\ Place(S, d) \in 0 .. Cardinality(S)
    BY PlaceType
  <2>3. QED BY <2>1, <2>2
<1>3. Place(S, c) <= Place(S, d)
  <2>1. Cardinality(U) <= Cardinality(V)
    <3> HIDE DEF U, V
    <3>1. QED BY <1>1, <1>2, FS_Subset
  <2>2. QED BY <2>1 DEF Place
<1>4. CASE d \in S
  <2>1. Place(S, c) < Place(S, d)
    BY <1>4, PlaceLess
  <2>2. QED BY <1>2, <1>4, <2>1
<1>5. CASE d \notin S
  BY <1>2, <1>3, <1>5
<1>6. QED BY <1>4, <1>5

(* A search that loses its contact leaves the bits behind it.              *)
LEMMA PartRead ==
  ASSUME NEW f \in Rom, NEW s \in Rom, NEW h \in 0 .. RomBits
  PROVE  SubSeq(f, 1, h) \o SubSeq(s, h + 1, RomBits) \in Rom
<1>0. RomBits \in Nat /\ h \in Nat /\ RomBits - h \in Nat /\ h + (RomBits - h) = RomBits
  BY OneWireAssumption
<1> DEFINE a == [k \in 1 .. h |-> f[k]]
           b == [k \in 1 .. RomBits - h |-> s[h + k]]
<1>1. a \in [1 .. h -> {0, 1}] /\ b \in [1 .. RomBits - h -> {0, 1}]
  <2>1. \A k \in 1 .. h : f[k] \in {0, 1}
    BY <1>0 DEF Rom
  <2>2. \A k \in 1 .. RomBits - h : s[h + k] \in {0, 1}
    BY <1>0 DEF Rom
  <2>3. QED BY <2>1, <2>2
<1>2. SubSeq(f, 1, h) = a
  <2>1. SubSeq(f, 1, h) = [k \in 1 .. h |-> f[1 + k - 1]]
    BY <1>0
  <2>2. \A k \in 1 .. h : 1 + k - 1 = k
    BY <1>0
  <2>3. QED BY <2>1, <2>2
<1>3. SubSeq(s, h + 1, RomBits) = b
  <2>1. SubSeq(s, h + 1, RomBits) = [k \in 1 .. RomBits - (h + 1) + 1 |-> s[h + 1 + k - 1]]
    BY <1>0
  <2>2. RomBits - (h + 1) + 1 = RomBits - h /\ \A k \in 1 .. RomBits - h : h + 1 + k - 1 = h + k
    BY <1>0
  <2>3. QED BY <2>1, <2>2
<1>4. a \o b \in Rom
  <2> DEFINE m == RomBits - h
  <2>1. m \in Nat /\ h + m = RomBits /\ b \in [1 .. m -> {0, 1}]
    BY <1>0, <1>1
  <2> HIDE DEF a, b, m
  <2>2. a \o b \in [1 .. h + m -> {0, 1}]
    BY <1>0, <1>1, <2>1, Appended
  <2>3. QED BY <2>1, <2>2 DEF Rom
<1> HIDE DEF a, b
<1>5. QED BY <1>2, <1>3, <1>4

(* What a turn of the search leaves.                                       *)
LEMMA TurnType ==
  ASSUME bus \subseteq Rom, SerialNum \in Rom, LastDiscrepancy \in 0 .. RomBits, LastDevice \in BOOLEAN,
         NEW held \in Held, owNext(held)
  PROVE  /\ SerialNum' \in Rom /\ LastDiscrepancy' \in 0 .. RomBits /\ LastDevice' \in BOOLEAN
         /\ LastDevice' => LastDiscrepancy' = 0
         /\ Found(held) => /\ SerialNum' = Followed /\ Followed \in bus
                           /\ LastDevice' = (LastDiscrepancy' = 0)
                           /\ bus' = bus => Onward'
<1>0. RomBits \in Nat /\ Held \subseteq 0 .. RomBits
  BY OneWireAssumption DEF Held, FamilyBits
<1>1. LastDiscrepancy' \in 0 .. RomBits /\ LastDevice' \in BOOLEAN /\ (LastDevice' => LastDiscrepancy' = 0)
  <2>1. LastDiscrepancy' \in 0 .. RomBits
    BY <1>0, LastZeroType DEF owNext
  <2>2. LastDevice' = (Found(held) /\ LastDiscrepancy' = 0)
    BY DEF owNext
  <2>3. QED BY <2>1, <2>2
<1>2. SerialNum' \in Rom
  <2>1. CASE LastDevice \/ ~owTouchReset
    BY <2>1 DEF owNext
  <2>2. CASE ~(LastDevice \/ ~owTouchReset)
    <3>1. Followed \in Rom
      BY <2>2, SomeDevice DEF owTouchReset
    <3>2. SerialNum' = SubSeq(Followed, 1, held) \o SubSeq(SerialNum, held + 1, RomBits)
      BY <2>2 DEF owNext
    <3>3. held \in 0 .. RomBits
      BY <1>0
    <3>4. QED BY <3>1, <3>2, <3>3, PartRead
  <2>3. QED BY <2>1, <2>2
<1>3. ASSUME Found(held)
      PROVE  /\ SerialNum' = Followed /\ Followed \in bus
             /\ LastDevice' = (LastDiscrepancy' = 0)
             /\ bus' = bus => Onward'
  <2>1. ~LastDevice /\ bus # {} /\ held = RomBits
    BY <1>3 DEF Found, owTouchReset
  <2>2. Followed \in bus /\ Followed \in Rom
    BY <2>1, SomeDevice
  <2>3. SerialNum' = Followed
    <3>1. SerialNum' = SubSeq(Followed, 1, RomBits) \o SubSeq(SerialNum, RomBits + 1, RomBits)
      BY <1>3, <2>1 DEF owNext, owTouchReset
    <3>2. QED BY <2>2, <3>1, AllRead
  <2>4. LastDiscrepancy' = LastZero(Followed) /\ LastDevice' = (LastDiscrepancy' = 0)
    BY <1>3 DEF owNext
  <2>5. ASSUME bus' = bus PROVE Onward'
    <3>1. \A d, n : Splits(d, n)' <=> Splits(d, n)
      BY <2>5 DEF Splits, owTouchBit
    <3>2. LastDiscrepancy' # 0 => SerialNum'[LastDiscrepancy'] = 0 /\ Splits(SerialNum', LastDiscrepancy')
      BY <2>3, <2>4, LastZeroType
    <3>3. LastDiscrepancy' # 0 => Splits(SerialNum, LastDiscrepancy)'
      BY <2>5, <3>2 DEF Splits, owTouchBit
    <3>4. QED BY <2>2, <2>3, <2>5, <3>2, <3>3 DEF Onward
  <2>6. QED BY <2>2, <2>3, <2>4, <2>5
<1>4. QED BY <1>1, <1>2, <1>3

(***************************************************************************)
(* What each step leaves.                                                  *)
(***************************************************************************)
LEMMA TypedBus ==
  ASSUME Typed
  PROVE  /\ bus \subseteq Pool /\ bus \subseteq Rom /\ Pool \subseteq Rom /\ bus \subseteq fitted
         /\ fitted \in Boards /\ fitted \subseteq Pool
BY BoardFacts, OneWireAssumption DEF Typed, TypeOK

(* A step that is none of a scan, and leaves its list.                     *)
LEMMA AsideTyped ==
  ASSUME Typed, StoreInv',
         op' = "setp" \/ pc' \notin {"find", "search"},
         UNCHANGED << fitted, bus, FamilySN, devsnum, found >>,
         fam' \in DOMAIN Families, dev' \in 0 .. devsnum,
         SerialNum' \in Rom, LastDiscrepancy' \in 0 .. RomBits, LastDevice' \in BOOLEAN,
         mac' \in Mac, page' \in [Eeproms -> Mac], scratch' \in [Eeproms -> Mac \cup {NoMac}],
         power' \in {-1, 0, 255}, calm' \in BOOLEAN, events' \in 0 .. MaxEvents,
         filter' = NoMac \/ filter' \in { Words(m) : m \in Mac },
         pc' \in {"write", "copy"} => target' \in Pool,
         EndpointHolds'
  PROVE  Typed'
<1>1. PlacesLeft'
  BY DEF PlacesLeft
<1>2. ListHolds'
  BY DEF Typed, ListHolds
<1>3. prog' # {} => S_PWR'
  BY DEF StoreInv, ProgramsTarget
<1>4. TypeOK'
  BY <1>3 DEF Typed, TypeOK
<1>5. QED BY <1>1, <1>2, <1>4 DEF Typed

LEMMA EventsCount ==
  ASSUME Typed, Undisturbed \/ Disturbed
  PROVE  calm' \in BOOLEAN /\ events' \in 0 .. MaxEvents
<1>1. MaxEvents \in Nat /\ events \in 0 .. MaxEvents /\ calm \in BOOLEAN
  BY MacAssumption DEF Typed, TypeOK
<1>2. Undisturbed => calm' \in BOOLEAN /\ events' \in 0 .. MaxEvents
  BY <1>1 DEF Undisturbed
<1>3. Disturbed => calm' \in BOOLEAN /\ events' \in 0 .. MaxEvents
  <2>1. Disturbed => calm' = FALSE /\ events' = events + 1 /\ events < MaxEvents
    BY DEF Disturbed
  <2>2. events < MaxEvents => events + 1 \in 0 .. MaxEvents
    BY <1>1
  <2>3. QED BY <2>1, <2>2
<1>4. QED BY <1>2, <1>3

(* What the endpoint has, or is about to be given.                         *)
LEMMA EndpointStays ==
  ASSUME Typed, UNCHANGED << MACH, MACL >>,
         \/ op' = "boot" /\ pc' \in {"find", "search", "device", "ep_init"}
         \/ op # "boot" \/ pc \notin {"find", "search", "device", "ep_init"}
  PROVE  EndpointHolds'
BY DEF Typed, EndpointHolds, OwnWords

LEMMA EndpointGiven ==
  ASSUME NEW m \in Mac, set_mac_addr(m)
  PROVE  OwnWords' = Words(m)
BY DEF set_mac_addr, OwnWords, Words

LEMMA EndpointTyped ==
  ASSUME Typed, StoreInv', EpInit \/ EpEnable \/ FilterOff \/ FilterLoad
  PROVE  Typed'
<1>1. /\ UNCHANGED << fitted, bus, FamilySN, devsnum, found, fam, dev, SerialNum, LastDiscrepancy, LastDevice, mac,
                      page, scratch, power, calm, events, op >>
      /\ pc' \in {"ep_enable", "run", "filter_load"}
  BY DEF EpInit, EpEnable, FilterOff, FilterLoad, Undisturbed, deviceVars, searchVars, listVars, tempVars
<1>2. OwnWords' \in { Words(m) : m \in Mac }
  <2>1. CASE EpInit
    BY <2>1, EndpointGiven DEF EpInit, Typed, TypeOK
  <2>2. CASE EpEnable \/ FilterOff \/ FilterLoad
    <3>1. pc \in {"ep_enable", "filter_off", "filter_load"} /\ UNCHANGED << MACH, MACL >>
      BY <2>2 DEF EpEnable, FilterOff, FilterLoad
    <3>2. QED BY <3>1 DEF Typed, EndpointHolds, OwnWords
  <2>3. QED BY <2>1, <2>2
<1>3. filter' = NoMac \/ filter' \in { Words(m) : m \in Mac }
  <2>1. CASE EpInit
    BY <2>1 DEF EpInit, Typed, TypeOK
  <2>2. CASE FilterOff
    BY <2>2 DEF FilterOff
  <2>3. CASE EpEnable \/ FilterLoad
    BY <1>2, <2>3 DEF EpEnable, FilterLoad, OwnWords
  <2>4. QED BY <2>1, <2>2, <2>3
<1>4. EndpointHolds'
  BY <1>2 DEF EndpointHolds
<1>5. QED BY <1>1, <1>3, <1>4, AsideTyped DEF Typed, TypeOK

LEMMA CommandTyped ==
  ASSUME Typed, StoreInv', Command
  PROVE  Typed'
<1>1. /\ UNCHANGED << fitted, bus, FamilySN, devsnum, found, page, scratch, events, filter >>
      /\ pc = "run" /\ op' # "boot" /\ calm' = (bus = fitted)
      /\ pc' \notin {"write", "copy"} /\ (op' = "setp" \/ pc' \notin {"find", "search"})
  BY DEF Command, MacSet, SetPersistent, GetPersistent, TempStart, Starts, deviceVars, listVars, epVars
<1>2. SerialNum' \in Rom /\ LastDiscrepancy' \in 0 .. RomBits /\ LastDevice' \in BOOLEAN
  <2>1. CASE \E answer \in {0, 255} : TempStart(answer)
    <3>1. found /\ SerialNum' = FamilySN[0] /\ UNCHANGED << LastDiscrepancy, LastDevice >>
      BY <2>1 DEF TempStart, Address
    <3>2. FamilySN[0] \in Pool
      BY <3>1 DEF Typed, ListHolds, TypeOK
    <3>3. QED BY <3>1, <3>2, OneWireAssumption DEF Typed, TypeOK
  <2>2. CASE ~\E answer \in {0, 255} : TempStart(answer)
    <3>1. UNCHANGED searchVars
      BY <2>2 DEF Command, MacSet, SetPersistent, GetPersistent
    <3>2. QED BY <3>1 DEF searchVars, Typed, TypeOK
  <2>3. QED BY <2>1, <2>2
<1>3. mac' \in Mac /\ EndpointHolds'
  <2>0. OwnWords \in { Words(m) : m \in Mac }
    BY <1>1 DEF Typed, EndpointHolds
  <2>1. CASE \E m \in Entered : MacSet(m)
    <3>1. PICK m \in Entered : mac' = m /\ set_mac_addr(m)
      BY <2>1 DEF MacSet, Starts
    <3>2. m \in Mac
      BY GivenMac DEF Given
    <3>3. QED BY <3>1, <3>2, EndpointGiven DEF EndpointHolds
  <2>2. CASE \E m \in Entered : SetPersistent(m)
    <3>1. PICK m \in Entered : mac' = m /\ UNCHANGED epVars
      BY <2>2 DEF SetPersistent, Starts
    <3>2. m \in Mac
      BY GivenMac DEF Given
    <3>3. QED BY <2>0, <3>1, <3>2 DEF EndpointHolds, OwnWords, epVars
  <2>3. CASE GetPersistent
    <3>1. mac' = get_mac_addr /\ UNCHANGED epVars
      BY <2>3 DEF GetPersistent, Starts
    <3>2. PICK m \in Mac : << MACH, MACL[1], MACL[2] >> = Words(m)
      BY <2>0 DEF OwnWords
    <3>3. get_mac_addr = m
      BY <3>2, MacOfWords
    <3>4. QED BY <2>0, <3>1, <3>3 DEF EndpointHolds, OwnWords, epVars
  <2>4. CASE \E answer \in {0, 255} : TempStart(answer)
    <3>1. mac' = FALLBACK /\ UNCHANGED epVars
      BY <2>4 DEF TempStart, Starts
    <3>2. FALLBACK \in Mac
      BY GivenMac DEF Given
    <3>3. QED BY <2>0, <3>1, <3>2 DEF EndpointHolds, OwnWords, epVars
  <2>5. QED BY <2>1, <2>2, <2>3, <2>4 DEF Command
<1>4. fam' \in DOMAIN Families /\ dev' \in 0 .. devsnum
  BY FamilyCodes DEF Command, MacSet, SetPersistent, GetPersistent, TempStart, Starts, listVars, Typed, TypeOK, Families
<1>5. power' \in {-1, 0, 255}
  BY DEF Command, MacSet, SetPersistent, GetPersistent, TempStart, PowerOf, tempVars, Typed, TypeOK
<1>6. QED BY <1>1, <1>2, <1>3, <1>4, <1>5, AsideTyped DEF Typed, TypeOK

LEMMA DeviceTyped ==
  ASSUME Typed, StoreInv', Device
  PROVE  Typed'
<1>1. /\ pc = "device" /\ dev < devsnum /\ dev' = dev + 1
      /\ UNCHANGED << fitted, bus, FamilySN, devsnum, found, fam, page, scratch, power, pc, op, MACH, MACL, filter >>
  BY DEF Device, tempVars, epVars
<1>2. Undisturbed \/ Disturbed
  BY DEF Device, TakeSerial, TakePage, PassOver
<1>3. dev \in 0 .. devsnum /\ devsnum \in Nat
  BY OneWireAssumption DEF Typed, TypeOK
<1>4. dev' \in 0 .. devsnum /\ FamilySN[dev] \in Pool
  BY <1>1, <1>3 DEF Typed, ListHolds
<1> DEFINE d == FamilySN[dev]
<1>5. (SerialNum' = d \/ SerialNum' = SerialNum) /\ UNCHANGED << LastDiscrepancy, LastDevice >>
  BY DEF Device, TakeSerial, TakePage, PassOver, Address, searchVars
<1>6. mac' \in Mac
  <2>1. mac \in Mac /\ page \in [Eeproms -> Mac] /\ d \in Pool
    BY <1>4 DEF Typed, TypeOK
  <2> HIDE DEF d
  <2>2. CASE TakeSerial(d)
    <3>1. LowBytes[d] \in Lows
      BY <2>1 DEF Lows
    <3>2. mac' = Oui(mac) \o LowBytes[d]
      BY <2>2 DEF TakeSerial
    <3>3. QED BY <2>1, <3>1, <3>2, MacJoined
  <2>3. CASE \E ok \in BOOLEAN : TakePage(d, ok)
    <3>1. d \in Eeproms
      <4>1. Family(d) = Families[3] /\ d \in Rom /\ 3 \in 1 .. 3
        BY <2>1, <2>3, FamilyCodes, OneWireAssumption DEF TakePage
      <4>2. Kind(d) = Kind(Families[3])
        BY <4>1, KindOfFamily
      <4>3. QED BY <2>1, <4>2, FamilyCodes DEF Eeproms, Members
    <3>2. QED BY <2>1, <2>3, <3>1 DEF TakePage
  <2>4. CASE PassOver(d)
    BY <2>1, <2>4 DEF PassOver
  <2>5. QED BY <2>2, <2>3, <2>4 DEF Device, d
<1>7. EndpointHolds'
  BY <1>1, EndpointStays
<1>8. calm' \in BOOLEAN /\ events' \in 0 .. MaxEvents
  BY <1>2, EventsCount
<1>9. SerialNum' \in Rom
  BY <1>4, <1>5, OneWireAssumption DEF Typed, TypeOK
<1>10. QED BY <1>1, <1>4, <1>5, <1>6, <1>7, <1>8, <1>9, AsideTyped DEF Typed, TypeOK

LEMMA DoneTyped ==
  ASSUME Typed, StoreInv', DevicesDone
  PROVE  Typed'
<1>1. /\ pc = "device" /\ op' = op /\ pc' = IF op = "boot" THEN "ep_init" ELSE "run"
      /\ UNCHANGED << fitted, bus, FamilySN, devsnum, found, fam, dev, page, scratch, power, mac, SerialNum,
                      LastDiscrepancy, LastDevice, calm, events, MACH, MACL, filter >>
  BY DEF DevicesDone, tempVars, epVars, listVars, deviceVars, searchVars, Undisturbed
<1>2. EndpointHolds'
  BY <1>1, EndpointStays
<1>3. QED BY <1>1, <1>2, AsideTyped DEF Typed, TypeOK

LEMMA StoreTyped ==
  ASSUME StoreInv, Typed, StoreInv', Store
  PROVE  Typed'
<1>1. PICK ok \in BOOLEAN : WriteScratch(ok) \/ CopyScratch(ok) \/ Answer(ok)
  BY DEF Store
<1>2. /\ op' = "setp" /\ op = "setp" /\ pc' \in {"copy", "answer", "run"} /\ pc \in {"write", "copy", "answer"}
      /\ pc' = "copy" => pc = "write"
      /\ UNCHANGED << fitted, bus, FamilySN, devsnum, found, fam, dev, target, page, power, mac, MACH, MACL, filter >>
  BY <1>1 DEF WriteScratch, CopyScratch, Answer, Fails, listVars, tempVars, epVars, StoreInv, StoreHolds
<1>3. Undisturbed \/ Disturbed
  BY <1>1 DEF WriteScratch, CopyScratch, Answer
<1>4. /\ SerialNum' = SerialNum \/ (SerialNum' = target /\ pc \in {"write", "copy"})
      /\ UNCHANGED << LastDiscrepancy, LastDevice >>
  BY <1>1 DEF WriteScratch, CopyScratch, Answer, Address, searchVars
<1>5. SerialNum' \in Rom
  BY <1>4, OneWireAssumption DEF Typed, TypeOK, ListHolds
<1>6. pc' \in {"write", "copy"} => target' \in Pool
  BY <1>2 DEF Typed, ListHolds
<1>7. scratch' \in [Eeproms -> Mac \cup {NoMac}]
  <2>1. scratch \in [Eeproms -> Mac \cup {NoMac}] /\ mac \in Mac
    BY DEF Typed, TypeOK
  <2>2. \/ scratch' = scratch
        \/ \E v \in Mac \cup {NoMac} : scratch' = [scratch EXCEPT ![target] = v]
    BY <1>1, <2>1 DEF WriteScratch, CopyScratch, Answer
  <2>3. QED BY <2>1, <2>2
<1>8. EndpointHolds'
  BY <1>2, EndpointStays
<1>9. calm' \in BOOLEAN /\ events' \in 0 .. MaxEvents
  BY <1>3, EventsCount
<1>10. QED BY <1>2, <1>4, <1>5, <1>6, <1>7, <1>8, <1>9, AsideTyped DEF Typed, TypeOK

LEMMA TempTyped ==
  ASSUME Typed, StoreInv', Temp
  PROVE  Typed'
<1>1. /\ pc \in {"temp_wait", "temp_convert"} /\ pc' \in {"temp_convert", "run"}
      /\ UNCHANGED << fitted, bus, FamilySN, devsnum, found, fam, dev, page, scratch, power, mac, SerialNum,
                      LastDiscrepancy, LastDevice, MACH, MACL, filter >>
      /\ Undisturbed \/ Disturbed
  BY DEF Temp, TempWait, TempConvert, listVars, tempVars, epVars, deviceVars, searchVars
<1>2. EndpointHolds'
  BY <1>1, EndpointStays
<1>3. calm' \in BOOLEAN /\ events' \in 0 .. MaxEvents
  BY <1>1, EventsCount
<1>4. QED BY <1>1, <1>2, <1>3, AsideTyped DEF Typed, TypeOK

LEMMA ProgramTyped ==
  ASSUME StoreInv, Typed, StoreInv', NEW e \in Pool, Programs(e)
  PROVE  Typed'
<1>1. /\ pc = "answer" /\ pc' = "answer" /\ op = "setp" /\ op' = "setp"
      /\ e \in Eeproms /\ scratch[e] \in Mac
  BY DEF Programs, StoreInv, StoreHolds, ProgramsTarget, SetpAt, Typed, TypeOK
<1>2. /\ UNCHANGED << fitted, bus, FamilySN, devsnum, found, fam, dev, target, power, mac, SerialNum,
                      LastDiscrepancy, LastDevice, MACH, MACL, filter, calm, events >>
      /\ scratch' = [scratch EXCEPT ![e] = NoMac]
      /\ \/ page' = [page EXCEPT ![e] = scratch[e]]
         \/ page' = [page EXCEPT ![e] = Torn(scratch[e], page[e])]
  BY DEF Programs, listVars, tempVars, epVars, searchVars, Undisturbed
<1>3. page \in [Eeproms -> Mac] /\ scratch \in [Eeproms -> Mac \cup {NoMac}]
  BY DEF Typed, TypeOK
<1>4. page[e] \in Mac /\ Torn(scratch[e], page[e]) \in Mac
  BY <1>1, <1>3, MacTorn
<1>5. page' \in [Eeproms -> Mac] /\ scratch' \in [Eeproms -> Mac \cup {NoMac}]
  BY <1>1, <1>2, <1>3, <1>4
<1>6. EndpointHolds'
  BY <1>1, <1>2, EndpointStays
<1>7. QED BY <1>1, <1>2, <1>5, <1>6, AsideTyped DEF Typed, TypeOK

LEMMA SizesFor ==
  ASSUME fitted \in Boards, NEW f \in 1 .. 3
  PROVE  /\ IsFiniteSet(Members(fitted, Families[f])) /\ Members(fitted, Families[f]) \subseteq Rom
         /\ Size(f) \in Nat /\ Cardinality(fitted) \in Nat /\ Len(ListUpto(f)) \in Nat
         /\ Len(ListUpto(f)) + Size(f) <= Cardinality(fitted)
         /\ Len(ListUpto(f + 1)) = Len(ListUpto(f)) + Size(f)
         /\ \A d : Place(Members(fitted, Families[f]), d) \in 0 .. Size(f)
<1>1. IsFiniteSet(Members(fitted, Families[f])) /\ Members(fitted, Families[f]) \subseteq Rom /\ Size(f) \in Nat
  BY Sizes
<1>2. \A d : Place(Members(fitted, Families[f]), d) \in 0 .. Size(f)
  BY <1>1, PlaceType DEF Size
<1>3. QED BY <1>1, <1>2, ListGrows, BoardFacts

(* The list of a scan has a place for another device.                      *)
LEMMA SearchBeginsTyped ==
  ASSUME Typed, StoreInv', FindDevices
  PROVE  Typed'
<1>1. /\ pc = "find" /\ Setup(Families[fam]) /\ num' = 0 /\ pc' = "search"
      /\ UNCHANGED << fitted, bus, FamilySN, devsnum, found, fam, dev, target, page, scratch, power, mac,
                      MACH, MACL, filter, op, calm, events, prog, S_PWR >>
  BY DEF FindDevices, tempVars, epVars, deviceVars, Undisturbed
<1>2. fam \in 1 .. 3 /\ fitted \in Boards /\ events \in 0 .. MaxEvents /\ devsnum \in Nat
  BY FamilyCodes, OneWireAssumption DEF Typed, TypeOK
<1>3. SerialNum' \in Rom
  <2>1. Families[fam] \in [1 .. FamilyBits -> {0, 1}] /\ Families[fam][8] = 0
    BY <1>2, FamilyCodes
  <2>2. Families[fam] \o [i \in 1 .. RomBits - FamilyBits |-> 0] \in Rom
    BY <2>1, SetupFor
  <2>3. QED BY <1>1, <2>2 DEF Setup
<1>4. LastDiscrepancy' = RomBits /\ LastDevice' = FALSE /\ RomBits \in Nat /\ RomBits # 0
  BY <1>1, OneWireAssumption DEF Setup, FamilyBits
<1> DEFINE F == Cardinality(fitted) * events
           L == Len(ListUpto(fam))
<1>5. F \in Nat /\ L \in Nat /\ Cardinality(fitted) \in Nat /\ L <= Cardinality(fitted)
      /\ F + Cardinality(fitted) < MAX_DEV1WIRE /\ MAX_DEV1WIRE \in Nat
  <2>1. L \in Nat /\ Cardinality(fitted) \in Nat /\ L <= Cardinality(fitted)
    <3>1. L \in Nat /\ L + Size(fam) <= Cardinality(fitted) /\ Size(fam) \in Nat /\ Cardinality(fitted) \in Nat
      BY <1>2, SizesFor
    <3> HIDE DEF L
    <3>2. QED BY <3>1
  <2>2. QED BY <1>2, <2>1, Room, OneWireAssumption
<1>6. op = "boot" => devsnum <= F + L
  BY <1>1 DEF Typed, PlacesLeft
<1>7. (IF Onward THEN Place(InFamily, SerialNum) ELSE 0)' \in Nat
  <2>1. Place(Members(fitted, Families[fam]), SerialNum') \in 0 .. Size(fam) /\ Size(fam) \in Nat
    BY <1>2, SizesFor
  <2>2. Place(InFamily, SerialNum)' = Place(Members(fitted, Families[fam]), SerialNum')
    BY <1>1 DEF InFamily
  <2>3. QED BY <2>1, <2>2
<1>8. F' = F /\ L' = L
  BY <1>1 DEF ListUpto, ListOf
<1> HIDE DEF F, L
<1>9. op = "boot" => devsnum' + num' < MAX_DEV1WIRE /\ num' \in Nat
  BY <1>1, <1>2, <1>5, <1>6
<1>10. op = "boot" => devsnum' + num' <= F' + L' + (IF Onward THEN Place(InFamily, SerialNum) ELSE 0)'
  BY <1>1, <1>2, <1>5, <1>6, <1>7, <1>8
<1>11. PlacesLeft'
  BY <1>1, <1>4, <1>9, <1>10 DEF PlacesLeft, F, L
<1>12. ListHolds'
  <2>1. devsnum + 0 - 1 = devsnum - 1
    BY <1>2
  <2>2. QED BY <1>1, <2>1 DEF Typed, ListHolds
<1>13. TypeOK'
  <2>1. LastDiscrepancy' \in 0 .. RomBits /\ LastDevice' \in BOOLEAN
    <3>1. RomBits \in 0 .. RomBits
      BY OneWireAssumption
    <3>2. QED BY <1>4, <3>1
  <2>2. op' = "boot" => devsnum' + num' < MAX_DEV1WIRE
    BY <1>1, <1>9
  <2>3. prog' # {} => S_PWR'
    BY DEF StoreInv, ProgramsTarget
  <2>4. calm' \in BOOLEAN /\ events' \in 0 .. MaxEvents
    BY <1>1 DEF Typed, TypeOK
  <2>5. /\ bus' \subseteq fitted' /\ fitted' \in Boards
        /\ devsnum' \in 0 .. MAX_DEV1WIRE /\ dev' \in 0 .. devsnum' /\ fam' \in DOMAIN Families
    BY <1>1 DEF Typed, TypeOK
  <2>6. /\ mac' \in Mac /\ page' \in [Eeproms -> Mac] /\ scratch' \in [Eeproms -> Mac \cup {NoMac}]
        /\ power' \in {-1, 0, 255} /\ (filter' = NoMac \/ filter' \in { Words(m) : m \in Mac })
    BY <1>1 DEF Typed, TypeOK
  <2>7. QED BY <1>3, <2>1, <2>2, <2>3, <2>4, <2>5, <2>6 DEF TypeOK
<1>14. EndpointHolds'
  BY <1>1, EndpointStays
<1>15. QED BY <1>11, <1>12, <1>13, <1>14 DEF Typed

(* The end of a family leaves its devices in the list.                     *)
LEMMA FamilyEnds ==
  ASSUME Typed, StoreInv', op = "boot", pc = "search", NEW n \in Nat, ScanGoesOn(n),
         devsnum + n <= MAX_DEV1WIRE,
         devsnum + n <= Cardinality(fitted) * events' + Len(ListUpto(fam)) + Size(fam),
         UNCHANGED << fitted, bus, dev, page, scratch, power, mac, MACH, MACL, filter >>,
         Undisturbed \/ Disturbed,
         SerialNum' \in Rom, LastDiscrepancy' \in 0 .. RomBits, LastDevice' \in BOOLEAN,
         DOMAIN FamilySN' = 0 .. MAX_DEV1WIRE - 1, \A k \in 0 .. devsnum + n - 1 : FamilySN'[k] \in Pool
  PROVE  Typed'
<1>1. /\ devsnum' = devsnum + n /\ found' = (IF fam = 1 THEN n > 0 ELSE found) /\ op' = "boot"
      /\ \/ fam < 3 /\ fam' = fam + 1 /\ pc' = "find"
         \/ fam' = fam /\ pc' = "device"
  BY FamilyCodes DEF ScanGoesOn
<1>2. fam \in 1 .. 3 /\ fitted \in Boards /\ devsnum \in Nat /\ MAX_DEV1WIRE \in Nat /\ dev \in 0 .. devsnum
  BY FamilyCodes, OneWireAssumption DEF Typed, TypeOK
<1>3. fam' \in DOMAIN Families
  BY <1>1, <1>2, FamilyCodes DEF Families
<1>4. PlacesLeft'
  <2>1. CASE pc' = "device"
    BY <2>1 DEF PlacesLeft
  <2>2. CASE pc' = "find"
    <3>1. fam' = fam + 1
      BY <1>1, <2>2
    <3>2. Len(ListUpto(fam + 1)) = Len(ListUpto(fam)) + Size(fam)
      BY <1>2, SizesFor
    <3>3. ListUpto(fam)' = ListUpto(fam + 1)
      BY <3>1 DEF ListUpto, ListOf
    <3>4. devsnum' <= Cardinality(fitted)' * events' + Len(ListUpto(fam))'
      <4> DEFINE F == Cardinality(fitted) * events'   L == Len(ListUpto(fam))   s == Size(fam)
      <4>1. L \in Nat /\ s \in Nat
        BY <1>2, SizesFor
      <4>2. events' \in Nat /\ Cardinality(fitted) \in Nat
        BY <1>2, EventsCount, BoardFacts, MacAssumption
      <4>3. F \in Nat
        BY <4>2
      <4>4. devsnum + n <= F + L + s
        OBVIOUS
      <4> HIDE DEF F, L, s
      <4>5. devsnum' <= F + (L + s)
        BY <1>1, <1>2, <4>1, <4>3, <4>4
      <4>6. QED BY <3>2, <3>3, <4>5 DEF F, L, s
    <3>5. QED BY <2>2, <3>4 DEF PlacesLeft
  <2>3. QED BY <1>1, <2>1, <2>2
<1>5. ListHolds'
  <2>1. found' => devsnum' > 0
    <3>1. CASE fam = 1
      <4>1. found' = (n > 0)
        BY <1>1, <3>1
      <4>2. n > 0 => devsnum + n > 0
        BY <1>2
      <4>3. QED BY <1>1, <4>1, <4>2
    <3>2. CASE fam # 1
      <4>1. found => devsnum > 0
        BY DEF Typed, ListHolds
      <4>2. QED BY <1>1, <1>2, <3>2, <4>1
    <3>3. QED BY <3>1, <3>2
  <2>2. pc' \in {"find", "device"} /\ op' = "boot"
    BY <1>1
  <2>3. \A k \in 0 .. devsnum' - 1 : FamilySN'[k] \in Pool
    <3>1. devsnum' = devsnum + n
      BY <1>1
    <3>2. QED BY <1>2, <3>1
  <2>4. QED BY <2>1, <2>2, <2>3 DEF ListHolds
<1>6. EndpointHolds'
  BY <1>1, EndpointStays
<1>7. calm' \in BOOLEAN /\ events' \in 0 .. MaxEvents
  BY EventsCount
<1>8. devsnum' \in 0 .. MAX_DEV1WIRE /\ dev' \in 0 .. devsnum'
  BY <1>1, <1>2
<1>9. prog' # {} => S_PWR'
  BY DEF StoreInv, ProgramsTarget
<1>10. pc' # "search"
  BY <1>1
<1>11. TypeOK'
  BY <1>3, <1>7, <1>8, <1>9, <1>10 DEF Typed, TypeOK
<1>12. QED BY <1>4, <1>5, <1>6, <1>11 DEF Typed

(* One turn of a scan, whatever has happened since the last one.           *)
LEMMA TurnOfScan ==
  ASSUME Typed, StoreInv', op = "boot", NEW held \in Held, Search(held)
  PROVE  Typed'
<1>1. /\ pc = "search" /\ owNext(held) /\ op # "setp"
      /\ UNCHANGED << fitted, bus, dev, page, scratch, power, mac, MACH, MACL, filter >>
      /\ Undisturbed \/ Disturbed
      /\ Found(held) => Undisturbed
  BY DEF Search, tempVars, epVars, Found
<1>2. /\ fam \in 1 .. 3 /\ fitted \in Boards /\ devsnum \in Nat /\ MAX_DEV1WIRE \in Nat /\ dev \in 0 .. devsnum
      /\ events \in 0 .. MaxEvents /\ bus \subseteq Rom /\ bus \subseteq Pool
      /\ SerialNum \in Rom /\ LastDiscrepancy \in 0 .. RomBits /\ LastDevice \in BOOLEAN
  BY FamilyCodes, OneWireAssumption, TypedBus DEF Typed, TypeOK
<1>3. /\ SerialNum' \in Rom /\ LastDiscrepancy' \in 0 .. RomBits /\ LastDevice' \in BOOLEAN
      /\ Found(held) => /\ SerialNum' = Followed /\ Followed \in bus
                        /\ LastDevice' = (LastDiscrepancy' = 0) /\ Onward'
  BY <1>1, <1>2, TurnType
<1> DEFINE F == Cardinality(fitted) * events
           L == Len(ListUpto(fam))
           P == IF Onward THEN Place(InFamily, SerialNum) ELSE 0
           s == Size(fam)
<1>4. /\ num \in Nat /\ LastDevice = (LastDiscrepancy = 0) /\ devsnum + num <= F + L + P
      /\ devsnum + num < MAX_DEV1WIRE
  BY <1>1 DEF Typed, TypeOK, PlacesLeft
<1>5. /\ IsFiniteSet(InFamily) /\ InFamily \subseteq Rom
      /\ L \in Nat /\ s \in Nat /\ \A d : Place(InFamily, d) \in 0 .. s
  BY <1>2, SizesFor DEF InFamily
<1>6. F \in Nat /\ P \in 0 .. s
  BY <1>2, <1>5, Room
<1>7. Cardinality(fitted) * events' \in Nat /\ Cardinality(fitted) * events' >= F
  <2>1. CASE Undisturbed
    BY <1>6, <2>1 DEF Undisturbed
  <2>2. CASE Disturbed
    <3>1. events' = events + 1
      BY <2>2 DEF Disturbed
    <3>2. Cardinality(fitted) * (events + 1) = F + Cardinality(fitted) /\ Cardinality(fitted) \in Nat
      BY <1>2, Room
    <3> HIDE DEF F
    <3>3. F + Cardinality(fitted) \in Nat /\ F + Cardinality(fitted) >= F
      BY <1>6, <3>2
    <3>4. QED BY <3>1, <3>2, <3>3
  <2>3. QED BY <1>1, <2>1, <2>2
<1>8. /\ DOMAIN FamilySN = 0 .. MAX_DEV1WIRE - 1
      /\ \A k \in 0 .. devsnum + num - 1 : FamilySN[k] \in Pool
  BY <1>1 DEF Typed, ListHolds
<1>9. CASE ~Found(held)
  <2>1. ScanGoesOn(num) /\ FamilySN' = FamilySN
    BY <1>1, <1>9 DEF Search, Ends
  <2>2. devsnum + num <= Cardinality(fitted) * events' + L + s /\ devsnum + num <= MAX_DEV1WIRE
    <3> DEFINE G == Cardinality(fitted) * events'
    <3>1. G \in Nat /\ G >= F
      BY <1>7
    <3> HIDE DEF F, L, P, s, G
    <3>2. devsnum + num <= G + L + s /\ devsnum + num <= MAX_DEV1WIRE
      BY <1>2, <1>4, <1>5, <1>6, <3>1
    <3>3. QED BY <3>2 DEF G
  <2>3. QED BY <1>1, <1>3, <1>4, <1>8, <2>1, <2>2, FamilyEnds
<1>10. CASE Found(held)
  <2> DEFINE id == Followed
             k == IF id \in InFamily THEN 1 ELSE 0
             Q == Place(InFamily, id)
             n == num + k
  <2>1. id \in bus /\ id \in Rom /\ id \in Pool /\ id \in fitted
    BY <1>2, <1>3, <1>10, TypedBus
  <2>2. id \in InFamily <=> Kind(id) = Kind(Families[fam])
    BY <2>1 DEF InFamily, Members
  <2>3. P + k <= Q /\ Q \in 0 .. s
    <3>1. CASE Onward
      <4>1. ~LastDevice
        BY <1>10 DEF Found
      <4>2. LastDiscrepancy \in 1 .. RomBits
        <5>1. LastDiscrepancy # 0
          BY <1>4, <4>1
        <5>2. RomBits \in Nat /\ LastDiscrepancy \in 0 .. RomBits
          BY <1>2, OneWireAssumption
        <5>3. QED BY <5>1, <5>2
      <4>3. Before(SerialNum, Followed)
        BY <1>2, <3>1, <4>2, GoesBehind
      <4>4. Place(InFamily, SerialNum) + (IF Followed \in InFamily THEN 1 ELSE 0) <= Place(InFamily, Followed)
        BY <1>2, <1>5, <2>1, <4>3, PlaceGrows
      <4>5. QED BY <1>5, <3>1, <4>4
    <3>2. CASE ~Onward
      <4>1. P = 0 /\ Q \in 0 .. s
        BY <1>5, <3>2
      <4>2. id \in InFamily => Q >= 1
        BY <1>5, InPlace
      <4> HIDE DEF id, Q
      <4>3. QED BY <1>5, <4>1, <4>2
    <3>3. QED BY <3>1, <3>2
  <2>4. /\ FamilySN' = [FamilySN EXCEPT ![devsnum + num] = id] /\ num' = n
        /\ IF n < MAX_DEV1WIRE - devsnum - 1
             THEN UNCHANGED << pc, op, rv, devsnum, found, fam >>
             ELSE ScanGoesOn(n)
        /\ UNCHANGED << target >>
    <3>1. SerialNum' = id
      BY <1>3, <1>10
    <3>2. (IF Kind(id) = Kind(Families[fam]) THEN num + 1 ELSE num) = n
      BY <1>4, <2>2
    <3> HIDE DEF id, n
    <3>3. QED BY <1>1, <1>10, <3>1, <3>2 DEF Search, Ends, MAXDEVICES
  <2>5. n \in Nat /\ (n = num \/ n = num + 1) /\ k \in {0, 1}
    BY <1>4
  <2>6. DOMAIN FamilySN' = 0 .. MAX_DEV1WIRE - 1 /\ \A j \in 0 .. devsnum + n - 1 : FamilySN'[j] \in Pool
    <3> HIDE DEF id, n
    <3>1. DOMAIN FamilySN' = 0 .. MAX_DEV1WIRE - 1 /\ devsnum + num \in DOMAIN FamilySN
      BY <1>2, <1>4, <1>8, <2>4
    <3>2. ASSUME NEW j \in 0 .. devsnum + n - 1 PROVE FamilySN'[j] \in Pool
      <4>1. j \in 0 .. MAX_DEV1WIRE - 1 /\ (j = devsnum + num \/ j \in 0 .. devsnum + num - 1)
        BY <1>2, <1>4, <2>5
      <4>2. FamilySN'[j] = IF j = devsnum + num THEN id ELSE FamilySN[j]
        BY <1>8, <2>4, <4>1
      <4>3. QED BY <1>8, <2>1, <4>1, <4>2
    <3>3. QED BY <3>1, <3>2
  <2>7. devsnum + n <= F + L + Q /\ devsnum + n <= F + L + s /\ devsnum + n <= MAX_DEV1WIRE
    <3>1. n = num + k
      OBVIOUS
    <3> HIDE DEF F, L, P, s, Q, k, n
    <3>2. QED BY <1>2, <1>4, <1>5, <1>6, <2>3, <2>5, <3>1
  <2>8. events' = events /\ Undisturbed
    BY <1>1, <1>10 DEF Undisturbed
  <2>9. CASE n < MAX_DEV1WIRE - devsnum - 1
    <3>1. UNCHANGED << pc, op, devsnum, found, fam >> /\ num' = n
      BY <2>4, <2>9
    <3>2. PlacesLeft'
      <4>1. num' \in Nat /\ LastDevice' = (LastDiscrepancy' = 0)
        BY <1>3, <1>10, <2>5, <3>1
      <4>2. F' = F /\ L' = L
        BY <1>1, <2>8, <3>1 DEF ListUpto, ListOf
      <4>3. P' = Q
        <5>1. SerialNum' = id /\ Onward'
          BY <1>3, <1>10
        <5>2. InFamily' = InFamily
          BY <1>1, <3>1 DEF InFamily
        <5>3. Place(InFamily, SerialNum)' = Place(InFamily, id)
          BY <5>1, <5>2
        <5>4. QED BY <5>1, <5>3
      <4>4. (devsnum + num <= F + L + P)'
        <5> HIDE DEF F, L, P, Q, n
        <5>1. QED BY <2>7, <3>1, <4>2, <4>3
      <4>5. pc' = "search"
        BY <1>1, <3>1
      <4>6. QED BY <4>1, <4>4, <4>5 DEF PlacesLeft
    <3>3. ListHolds'
      <4>1. \A j \in 0 .. devsnum' - 1 : FamilySN'[j] \in Pool
        <5> HIDE DEF n
        <5>1. \A j \in 0 .. devsnum - 1 : j \in 0 .. devsnum + n - 1
          BY <1>2, <2>5
        <5>2. QED BY <2>6, <3>1, <5>1
      <4>2. found' => devsnum' > 0
        BY <3>1 DEF Typed, ListHolds
      <4> HIDE DEF n
      <4>3. QED BY <1>1, <2>6, <3>1, <4>1, <4>2 DEF ListHolds
    <3>4. EndpointHolds'
      BY <1>1, <3>1, EndpointStays
    <3>5. TypeOK'
      <4>1. devsnum' + num' < MAX_DEV1WIRE
        <5> HIDE DEF n
        <5>1. QED BY <1>2, <2>5, <2>9, <3>1
      <4>2. prog' # {} => S_PWR'
        BY DEF StoreInv, ProgramsTarget
      <4>3. calm' \in BOOLEAN /\ events' \in 0 .. MaxEvents
        BY <1>1, EventsCount
      <4>4. /\ bus' \subseteq fitted' /\ fitted' \in Boards
            /\ devsnum' \in 0 .. MAX_DEV1WIRE /\ dev' \in 0 .. devsnum' /\ fam' \in DOMAIN Families
            /\ mac' \in Mac /\ page' \in [Eeproms -> Mac] /\ scratch' \in [Eeproms -> Mac \cup {NoMac}]
            /\ power' \in {-1, 0, 255} /\ (filter' = NoMac \/ filter' \in { Words(m) : m \in Mac })
        BY <1>1, <3>1 DEF Typed, TypeOK
      <4>5. QED BY <1>3, <4>1, <4>2, <4>3, <4>4 DEF TypeOK
    <3>6. QED BY <3>2, <3>3, <3>4, <3>5 DEF Typed
  <2>10. CASE ~(n < MAX_DEV1WIRE - devsnum - 1)
    <3>1. ScanGoesOn(n)
      BY <2>4, <2>10
    <3>2. devsnum + n <= Cardinality(fitted) * events' + Len(ListUpto(fam)) + Size(fam)
      BY <2>7, <2>8
    <3> HIDE DEF n
    <3>3. QED BY <1>1, <1>3, <2>5, <2>6, <2>7, <3>1, <3>2, FamilyEnds
  <2>11. QED BY <2>9, <2>10
<1>11. QED BY <1>9, <1>10

(* "mac setp" looks for one EEPROM, with a place for it.                   *)
LEMMA TurnOfSetp ==
  ASSUME Typed, StoreInv, StoreInv', op = "setp", NEW held \in Held, Search(held)
  PROVE  Typed'
<1>1. /\ pc = "search" /\ owNext(held) /\ num = 0 /\ op' = "setp"
      /\ UNCHANGED << fitted, bus, dev, page, scratch, power, mac, MACH, MACL, filter, FamilySN, devsnum, found, fam >>
      /\ Undisturbed \/ Disturbed
  BY DEF Search, Ends, SetpGoesOn, MAXDEVICES, tempVars, epVars, StoreInv, StoreHolds, SetpAt
<1>2. /\ bus \subseteq Rom /\ bus \subseteq Pool
      /\ SerialNum \in Rom /\ LastDiscrepancy \in 0 .. RomBits /\ LastDevice \in BOOLEAN
  BY TypedBus DEF Typed, TypeOK
<1>3. /\ SerialNum' \in Rom /\ LastDiscrepancy' \in 0 .. RomBits /\ LastDevice' \in BOOLEAN
      /\ Found(held) => SerialNum' = Followed /\ Followed \in bus
  BY <1>1, <1>2, TurnType
<1>4. pc' = "run" \/ (pc' = "write" /\ target' \in Pool)
  <2>1. CASE Found(held)
    BY <1>1, <1>2, <1>3, <2>1 DEF Search, Ends, SetpGoesOn, MAXDEVICES
  <2>2. CASE ~Found(held)
    BY <1>1, <2>2 DEF Search, Ends, SetpGoesOn
  <2>3. QED BY <2>1, <2>2
<1>5. EndpointHolds'
  BY <1>1, EndpointStays
<1>6. calm' \in BOOLEAN /\ events' \in 0 .. MaxEvents
  BY <1>1, EventsCount
<1>7. QED BY <1>1, <1>3, <1>4, <1>5, <1>6, AsideTyped DEF Typed, TypeOK

LEMMA SearchTyped ==
  ASSUME Typed, StoreInv, StoreInv', NEW held \in Held, Search(held)
  PROVE  Typed'
<1>1. op \in {"boot", "setp"}
  BY DEF Search, Typed, ListHolds
<1>2. QED BY <1>1, TurnOfScan, TurnOfSetp

(* The EEPROM that loses its current has the new address in its            *)
(* scratchpad.                                                             *)
LEMMA CutTyped ==
  ASSUME StoreInv, Typed, NEW lost, Cut(lost)
  PROVE  page' \in [Eeproms -> Mac]
<1>1. PICK outcome \in [prog \cap lost -> {"old", "torn", "new"}] :
        page' = [e \in Eeproms |->
                   IF e \notin DOMAIN outcome \/ outcome[e] = "old" THEN page[e]
                   ELSE IF outcome[e] = "torn" THEN Torn(scratch[e], page[e])
                   ELSE scratch[e]]
  BY DEF Cut
<1>2. page \in [Eeproms -> Mac] /\ mac \in Mac
  BY DEF Typed, TypeOK
<1>3. \A e \in prog \cap lost : scratch[e] = mac
  BY DEF StoreInv, ProgramsTarget
<1>4. \A e \in Eeproms : page[e] \in Mac /\ Torn(mac, page[e]) \in Mac
  BY <1>2, MacTorn
<1>5. QED BY <1>1, <1>2, <1>3, <1>4

(* Steps of the devices, and the processor, aside from what the program    *)
(* has in hand.                                                            *)
LEMMA WaitingTyped ==
  ASSUME Typed, StoreInv', PlacesLeft',
         UNCHANGED << fitted, searchVars, pc, op, listVars, power, mac, filter, MACH, MACL >>,
         bus' \subseteq fitted, page' \in [Eeproms -> Mac], scratch' \in [Eeproms -> Mac \cup {NoMac}],
         Undisturbed \/ Disturbed
  PROVE  Typed'
<1>1. EndpointHolds'
  BY EndpointStays
<1>2. calm' \in BOOLEAN /\ events' \in 0 .. MaxEvents
  BY EventsCount
<1>3. prog' # {} => S_PWR'
  BY DEF StoreInv, ProgramsTarget
<1>4. ListHolds'
  BY DEF Typed, ListHolds, listVars
<1>5. TypeOK'
  BY <1>2, <1>3 DEF Typed, TypeOK, listVars, searchVars
<1>6. QED BY <1>1, <1>4, <1>5 DEF Typed

(* Between two turns of a search a device may go, for which the events     *)
(* leave a place each, or come back, which takes nothing from the others.  *)
LEMMA BusTyped ==
  ASSUME StoreInv, Typed, StoreInv', NEW d \in Pool, LoseContact(d) \/ RegainContact(d)
  PROVE  Typed'
<1>1. UNCHANGED << fitted, searchVars, pc, op, listVars, power, mac, filter, MACH, MACL >>
  BY DEF LoseContact, RegainContact, tempVars, epVars
<1>2. /\ fam \in 1 .. 3 /\ fitted \in Boards /\ bus \subseteq fitted /\ devsnum \in Nat /\ events \in 0 .. MaxEvents
      /\ page \in [Eeproms -> Mac] /\ scratch \in [Eeproms -> Mac \cup {NoMac}]
  BY FamilyCodes, OneWireAssumption DEF Typed, TypeOK
<1>3. bus' \subseteq fitted /\ page' \in [Eeproms -> Mac] /\ scratch' \in [Eeproms -> Mac \cup {NoMac}]
  <2>1. CASE LoseContact(d)
    BY <1>2, <2>1, CutTyped DEF LoseContact
  <2>2. CASE RegainContact(d)
    BY <1>2, <2>2 DEF RegainContact
  <2>3. QED BY <2>1, <2>2
<1> DEFINE F == Cardinality(fitted) * events
           L == Len(ListUpto(fam))
           P == IF Onward THEN Place(InFamily, SerialNum) ELSE 0
           C == Cardinality(fitted)
           G == F'
           Q == P'
<1>4. /\ F \in Nat /\ L \in Nat /\ C \in Nat /\ P \in 0 .. C
      /\ Place(InFamily, SerialNum) \in 0 .. C
  <2>1. /\ Place(InFamily, SerialNum) \in 0 .. Size(fam) /\ L \in Nat /\ Size(fam) \in Nat /\ C \in Nat
        /\ L + Size(fam) <= C
    BY <1>2, SizesFor DEF InFamily
  <2>2. F \in Nat
    BY <1>2, Room
  <2> HIDE DEF F, L, C
  <2>3. QED BY <2>1, <2>2
<1>5. L' = L /\ InFamily' = InFamily /\ Place(InFamily, SerialNum)' = Place(InFamily, SerialNum)
  BY <1>1 DEF ListUpto, ListOf, InFamily, listVars, searchVars
<1>6. G + Q >= F + P /\ G >= F /\ G \in Nat /\ Q \in Nat
  <2>1. Q \in 0 .. C
    BY <1>4, <1>5
  <2>2. CASE LoseContact(d)
    <3>1. events' = events + 1
      BY <2>2 DEF LoseContact, Disturbed
    <3>2. G = F + C
      BY <1>1, <1>2, <3>1, Room
    <3> HIDE DEF F, P, C, G, Q
    <3>3. QED BY <1>4, <2>1, <3>2
  <2>3. CASE RegainContact(d)
    <3>1. events' = events /\ bus' = bus \cup {d}
      BY <2>3 DEF RegainContact, Undisturbed
    <3>2. G = F
      BY <1>1, <3>1
    <3>3. Onward => Onward'
      BY <1>1, <3>1 DEF Onward, Splits, owTouchBit, searchVars
    <3>4. Q >= P
      <4>1. CASE Onward
        BY <1>4, <1>5, <3>3, <4>1
      <4>2. CASE ~Onward
        BY <1>4, <2>1, <4>2
      <4>3. QED BY <4>1, <4>2
    <3> HIDE DEF F, P, C, G, Q
    <3>5. QED BY <1>4, <2>1, <3>2, <3>4
  <2>4. QED BY <2>2, <2>3
<1>7. PlacesLeft'
  <2>1. op = "boot" /\ pc = "find" => devsnum <= F + L
    BY DEF Typed, PlacesLeft
  <2>2. op = "boot" /\ pc = "search" => num \in Nat /\ LastDevice = (LastDiscrepancy = 0) /\ devsnum + num <= F + L + P
    BY DEF Typed, PlacesLeft
  <2>3. P \in Nat
    BY <1>4
  <2>4. devsnum <= F + L => devsnum <= G + L
    <3> HIDE DEF F, L, G
    <3>1. QED BY <1>2, <1>4, <1>6
  <2>5. num \in Nat /\ devsnum + num <= F + L + P => devsnum + num <= G + L + Q
    <3> HIDE DEF F, L, P, G, Q
    <3>1. QED BY <1>2, <1>4, <1>6, <2>3
  <2>6. op' = "boot" /\ pc' = "find" => devsnum' <= G + L'
    BY <1>1, <1>5, <2>1, <2>4 DEF listVars
  <2>7. op' = "boot" /\ pc' = "search" =>
          num' \in Nat /\ LastDevice' = (LastDiscrepancy' = 0) /\ devsnum' + num' <= G + L' + Q
    <3>1. devsnum' = devsnum /\ num' = num /\ UNCHANGED << LastDevice, LastDiscrepancy, op, pc >>
      BY <1>1 DEF listVars, searchVars
    <3> HIDE DEF F, L, P, G, Q
    <3>2. QED BY <1>5, <2>2, <2>5, <3>1
  <2>8. QED BY <2>6, <2>7 DEF PlacesLeft
<1>8. Undisturbed \/ Disturbed
  BY DEF LoseContact, RegainContact
<1>9. QED BY <1>1, <1>3, <1>7, <1>8, WaitingTyped

(* At a start no device is in the list yet.                                *)
LEMMA StartPlaces ==
  ASSUME fitted \in Boards, events \in 0 .. MaxEvents, pc = "find", fam = 1, devsnum = 0
  PROVE  PlacesLeft
<1>1. Cardinality(fitted) * events \in Nat
  BY Room
<1>2. Len(ListUpto(fam)) = 0
  BY DEF ListUpto
<1> DEFINE F == Cardinality(fitted) * events
           L == Len(ListUpto(fam))
<1> HIDE DEF F, L
<1>3. devsnum <= F + L
  BY <1>1, <1>2 DEF F, L
<1>4. QED BY <1>3 DEF PlacesLeft, F, L

LEMMA ResetTyped ==
  ASSUME StoreInv, Typed, StoreInv', Reset
  PROVE  Typed'
<1>1. /\ fitted' = fitted /\ bus' = bus /\ scratch' = scratch /\ filter' = filter
      /\ pc' = "find" /\ op' = "boot" /\ fam' = 1 /\ num' = 0 /\ dev' = 0 /\ devsnum' = 0 /\ mac' = FALLBACK
      /\ power' = -1
  BY DEF Reset, epVars
<1>2. found' = FALSE /\ FamilySN' = [k \in 0 .. MAX_DEV1WIRE - 1 |-> NoRom]
  BY DEF Reset
<1>3. calm' \in BOOLEAN /\ events' \in 0 .. MaxEvents
  <2>1. events < MaxEvents /\ events' = events + 1 /\ events \in 0 .. MaxEvents /\ MaxEvents \in Nat
    BY MacAssumption DEF Reset, Typed, TypeOK
  <2>2. calm' = (bus = fitted)
    BY DEF Reset
  <2>3. events' \in 0 .. MaxEvents
    BY <2>1
  <2>4. QED BY <2>2, <2>3
<1>4. SerialNum' \in Rom /\ LastDiscrepancy' \in 0 .. RomBits /\ LastDevice' \in BOOLEAN
  <2>1. /\ SerialNum' = [i \in 1 .. RomBits |-> 0] /\ LastDiscrepancy' = 0 /\ LastDevice' = FALSE
    BY DEF Reset
  <2>2. [i \in 1 .. RomBits |-> 0] \in Rom /\ 0 \in 0 .. RomBits
    BY OneWireAssumption DEF Rom
  <2>3. QED BY <2>1, <2>2
<1>5. page' \in [Eeproms -> Mac]
  BY CutTyped DEF Reset
<1>6. PlacesLeft'
  <2> DEFINE F == Cardinality(fitted') * events'
             L == Len(ListUpto(fam)')
  <2>1. F \in Nat
    <3>1. Cardinality(fitted) \in Nat /\ MaxEvents \in Nat
      BY BoardFacts, MacAssumption DEF Typed, TypeOK
    <3>2. Cardinality(fitted') \in Nat /\ events' \in Nat
      BY <1>1, <1>3, <3>1
    <3>3. QED BY <3>2
  <2>2. L = 0
    BY <1>1 DEF ListUpto
  <2> HIDE DEF F, L
  <2>3. devsnum' <= F + L
    BY <1>1, <2>1, <2>2
  <2>4. QED BY <1>1, <2>3 DEF PlacesLeft, F, L
<1>7. ListHolds'
  <2>1. ~(0 - 1 >= 0)
    OBVIOUS
  <2>2. QED BY <1>1, <1>2 DEF ListHolds
<1>8. EndpointHolds'
  BY <1>1 DEF EndpointHolds
<1>9. TypeOK'
  <2>1. FALLBACK \in Mac
    BY GivenMac DEF Given
  <2>2. prog' # {} => S_PWR'
    BY DEF StoreInv, ProgramsTarget
  <2>3. /\ bus' \subseteq fitted' /\ fitted' \in Boards
        /\ scratch' \in [Eeproms -> Mac \cup {NoMac}]
        /\ (filter' = NoMac \/ filter' \in { Words(m) : m \in Mac })
    BY <1>1 DEF Typed, TypeOK
  <2>4. /\ devsnum' \in 0 .. MAX_DEV1WIRE /\ dev' \in 0 .. devsnum' /\ fam' \in DOMAIN Families
        /\ mac' \in Mac /\ power' \in {-1, 0, 255}
    BY <1>1, <2>1, OneWireAssumption DEF Families
  <2>5. QED BY <1>1, <1>3, <1>4, <1>5, <2>2, <2>3, <2>4 DEF TypeOK
<1>10. QED BY <1>6, <1>7, <1>8, <1>9 DEF Typed

LEMMA InitTyped == Init => Typed
<1> SUFFICES ASSUME Init PROVE Typed
  OBVIOUS
<1>1. /\ fitted \in Boards /\ bus = fitted /\ scratch = [e \in Eeproms |-> NoMac] /\ filter = NoMac /\ prog = {}
      /\ pc = "find" /\ op = "boot" /\ fam = 1 /\ num = 0 /\ dev = 0 /\ devsnum = 0 /\ mac = FALLBACK
      /\ power = -1 /\ events = 0
  BY DEF Init, Statics
<1>2. found = FALSE /\ FamilySN = [k \in 0 .. MAX_DEV1WIRE - 1 |-> NoRom]
  BY DEF Init, Statics
<1>3. calm \in BOOLEAN /\ events \in 0 .. MaxEvents
  <2>1. calm = TRUE
    BY DEF Init
  <2>2. events \in 0 .. MaxEvents
    BY <1>1, MacAssumption
  <2>3. QED BY <2>1, <2>2
<1>4. SerialNum \in Rom /\ LastDiscrepancy \in 0 .. RomBits /\ LastDevice \in BOOLEAN
  <2>1. /\ SerialNum = [i \in 1 .. RomBits |-> 0] /\ LastDiscrepancy = 0 /\ LastDevice = FALSE
    BY DEF Init, SearchInit
  <2>2. [i \in 1 .. RomBits |-> 0] \in Rom /\ 0 \in 0 .. RomBits
    BY OneWireAssumption DEF Rom
  <2>3. QED BY <2>1, <2>2
<1>5. page \in [Eeproms -> Mac]
  <2>1. Programmed \cup {ZEROS} \subseteq Mac
    BY GivenMac DEF Given
  <2>2. page \in [Eeproms -> Programmed \cup {ZEROS}]
    BY DEF Init
  <2>3. QED BY <2>1, <2>2
<1>6. PlacesLeft
  BY <1>1, <1>3, StartPlaces
<1>7. ListHolds
  <2>1. ~(0 - 1 >= 0)
    OBVIOUS
  <2>2. QED BY <1>1, <1>2, <2>1 DEF ListHolds
<1>8. EndpointHolds
  BY <1>1 DEF EndpointHolds
<1>9. TypeOK
  <2>1. FALLBACK \in Mac
    BY GivenMac DEF Given
  <2>2. scratch \in [Eeproms -> Mac \cup {NoMac}]
    BY <1>1
  <2>3. /\ devsnum \in 0 .. MAX_DEV1WIRE /\ dev \in 0 .. devsnum /\ fam \in DOMAIN Families
        /\ mac \in Mac /\ power \in {-1, 0, 255}
    BY <1>1, <2>1, OneWireAssumption DEF Families
  <2>4. QED BY <1>1, <1>3, <1>4, <1>5, <2>2, <2>3 DEF TypeOK
<1>10. QED BY <1>6, <1>7, <1>8, <1>9 DEF Typed

(* Conversions, and stuttering.                                            *)
LEMMA IdleTyped ==
  ASSUME Typed, StoreInv', (\E d \in Pool : Converted(d)) \/ UNCHANGED vars
  PROVE  Typed'
<1>1. /\ UNCHANGED << fitted, searchVars, pc, op, listVars, power, mac, filter, MACH, MACL >>
      /\ UNCHANGED << bus, page, scratch, calm, events >>
  BY DEF Converted, vars, deviceVars, tempVars, epVars, Undisturbed
<1>2. PlacesLeft'
  <2>1. Onward' <=> Onward
    BY <1>1 DEF Onward, Splits, owTouchBit, searchVars
  <2>2. Place(InFamily, SerialNum)' = Place(InFamily, SerialNum) /\ ListUpto(fam)' = ListUpto(fam)
    BY <1>1 DEF InFamily, ListUpto, ListOf, listVars, searchVars
  <2>3. QED BY <1>1, <2>1, <2>2 DEF Typed, PlacesLeft, listVars, searchVars
<1>3. bus' \subseteq fitted /\ page' \in [Eeproms -> Mac] /\ scratch' \in [Eeproms -> Mac \cup {NoMac}]
  BY <1>1 DEF Typed, TypeOK
<1>4. Undisturbed
  BY <1>1 DEF Undisturbed
<1>5. QED BY <1>1, <1>2, <1>3, <1>4, WaitingTyped

(* TypeInv is inductive.                                                   *)
LEMMA NextTyped == TypeInv /\ [Next]_vars => TypeInv'
<1> SUFFICES ASSUME TypeInv, [Next]_vars PROVE Typed' /\ StoreInv'
  BY DEF TypeInv
<1>1. StoreInv /\ Typed /\ StoreInv'
  BY NextStore DEF TypeInv
<1>2. CASE Step
  <2>1. CASE Boot
    BY <1>1, <2>1, SearchBeginsTyped, SearchTyped, DeviceTyped, DoneTyped, EndpointTyped DEF Boot
  <2>2. CASE FilterOff \/ FilterLoad
    BY <1>1, <2>2, EndpointTyped
  <2>3. CASE Store
    BY <1>1, <2>3, StoreTyped
  <2>4. CASE Temp
    BY <1>1, <2>4, TempTyped
  <2>5. QED BY <1>2, <2>1, <2>2, <2>3, <2>4 DEF Step
<1>3. CASE Command
  BY <1>1, <1>3, CommandTyped
<1>4. CASE Devices
  BY <1>1, <1>4, ProgramTyped, IdleTyped DEF Devices
<1>5. CASE Faults
  BY <1>1, <1>5, BusTyped, ResetTyped DEF Faults
<1>6. CASE UNCHANGED vars
  BY <1>1, <1>6, IdleTyped
<1>7. QED BY <1>1, <1>2, <1>3, <1>4, <1>5, <1>6 DEF Next

(* Whatever devices a board has and however often contact is lost, the     *)
(* list is never written behind its end as long as it has a place for each *)
(* device and for each of them once more at every disturbance              *)
(* (FindDevices), every address is made of halves that were given, and an  *)
(* EEPROM programs with the strong pull-up on.                             *)
THEOREM Types == Spec => []TypeOK
<1>1. Init => TypeInv
  BY InitStore, InitTyped DEF TypeInv
<1>2. TypeInv /\ [Next]_vars => TypeInv'
  BY NextTyped
<1>3. TypeInv => TypeOK
  BY DEF TypeInv, Typed
<1>4. QED BY <1>1, <1>2, <1>3, PTL DEF Spec

(***************************************************************************)
(* The packet filter.  An instruction sets one register, so that a run is  *)
(* a function from the number of instructions to the registers after them. *)
(***************************************************************************)
Bank == [0 .. 31 -> BOOLEAN]

(* What pfilter_init_default uses of the processor.                        *)
Instruction(i) ==
  \/ /\ i.ins = "cmp" /\ i.op \in {"MOV", "AND"} /\ i.rd \in 0 .. 31
     /\ i.offset \in Looked /\ i.mask \in {WORD, BYTE}
  \/ /\ i.ins = "logic" /\ i.op \in {"AND", "OR", "MOV", "NOT"} /\ i.op2 \in {"AND", "OR", "MOV"}
     /\ i.rd \in 0 .. 31 /\ i.ra \in 0 .. 31 /\ i.rb \in 0 .. 31 /\ i.rc \in 0 .. 31

LEMMA ResultType ==
  ASSUME NEW i, Instruction(i), NEW reg \in Bank, NEW frame
  PROVE  Result(i, reg, frame) \in BOOLEAN
BY DEF Instruction, Result, Apply, Bank

LEMMA BankAfter ==
  ASSUME NEW reg \in Bank, NEW r, NEW v \in BOOLEAN
  PROVE  [reg EXCEPT ![r] = v] \in Bank
BY DEF Bank

(* A run of the processor over a frame.                                    *)
Run(code, frame, after) ==
  /\ after \in [0 .. Len(code) -> Bank]
  /\ after[0] = [r \in 0 .. 31 |-> FALSE]
  /\ \A n \in 1 .. Len(code) :
       after[n] = [after[n - 1] EXCEPT ![code[n].rd] = Result(code[n], after[n - 1], frame)]

LEMMA Runs ==
  ASSUME NEW code, NEW frame, Len(code) \in Nat, \A n \in 1 .. Len(code) : Instruction(code[n])
  PROVE  \E after : Run(code, frame, after) /\ Registers(code, frame) = after[Len(code)]
<1> DEFINE N == Len(code)
           Turn(n, reg) == [reg EXCEPT ![code[n].rd] = Result(code[n], reg, frame)]
           zero == [r \in 0 .. 31 |-> FALSE]
           step == [n \in 1 .. N |-> [reg \in Bank |-> Turn(n, reg)]]
           Body(f) == [n \in 0 .. N |-> IF n = 0 THEN zero ELSE Turn(n, f[n - 1])]
<1>1. zero \in Bank
  BY DEF Bank
<1>2. step \in [1 .. N -> [Bank -> Bank]]
  <2>1. ASSUME NEW n \in 1 .. N, NEW reg \in Bank PROVE Turn(n, reg) \in Bank
    <3>1. Result(code[n], reg, frame) \in BOOLEAN
      BY ResultType
    <3> HIDE DEF Result
    <3>2. QED BY <3>1, BankAfter
  <2> HIDE DEF Turn
  <2>2. QED BY <2>1
<1>3. PICK f : Iterates(f, N, Bank, zero, step)
  <2> HIDE DEF N, step, zero
  <2>1. N \in Nat
    BY DEF N
  <2>2. QED BY <1>1, <1>2, <2>1, Iteration
<1>4. \A n \in 1 .. N : f[n] = Turn(n, f[n - 1])
  <2> SUFFICES ASSUME NEW n \in 1 .. N PROVE f[n] = Turn(n, f[n - 1])
    OBVIOUS
  <2>1. f[n - 1] \in Bank /\ f[n] = step[n][f[n - 1]]
    <3> HIDE DEF Turn, step, zero
    <3>1. f \in [0 .. N -> Bank] /\ n - 1 \in 0 .. N
      BY <1>3 DEF Iterates
    <3>2. QED BY <1>3, <3>1 DEF Iterates
  <2> HIDE DEF Turn
  <2>2. QED BY <2>1
<1>5. f = Body(f)
  <2> HIDE DEF Turn, zero
  <2>1. f = [n \in 0 .. N |-> f[n]] /\ f[0] = zero
    BY <1>3 DEF Iterates
  <2>2. ASSUME NEW n \in 0 .. N PROVE f[n] = IF n = 0 THEN zero ELSE Turn(n, f[n - 1])
    <3>1. n = 0 \/ n \in 1 .. N
      OBVIOUS
    <3>2. QED BY <1>4, <2>1, <3>1
  <2>3. QED BY <2>1, <2>2
<1> DEFINE after == CHOOSE g : g = Body(g)
<1>6. after = Body(after)
  BY <1>5
<1>7. Registers(code, frame) = after[N]
  BY DEF Registers
<1>8. \A n \in 1 .. N : after[n] = Turn(n, after[n - 1])
  <2> HIDE DEF Turn, zero, after
  <2>1. QED BY <1>6
<1>9. after[0] = zero
  <2> HIDE DEF Turn, zero, after
  <2>1. QED BY <1>6
<1>10. after \in [0 .. N -> Bank]
  <2> DEFINE T == { n \in 0 .. N : after[n] \notin Bank }
  <2>1. T = {}
    <3> SUFFICES ASSUME T # {} PROVE FALSE
      OBVIOUS
    <3>1. PICK n \in T : \A m \in T : n <= m
      <4>1. T \subseteq Nat
        OBVIOUS
      <4> HIDE DEF T
      <4>2. QED BY <4>1, LeastMember
    <3> HIDE DEF Turn, zero, after
    <3>2. n \in 1 .. N /\ n - 1 \in 0 .. N /\ n - 1 \notin T
      BY <1>1, <1>9, <3>1
    <3>3. after[n - 1] \in Bank
      BY <3>2
    <3>4. Turn(n, after[n - 1]) \in Bank
      <4>1. Result(code[n], after[n - 1], frame) \in BOOLEAN
        BY <3>2, <3>3, ResultType
      <4>2. QED BY <3>3, <4>1, BankAfter DEF Turn
    <3>5. QED BY <1>8, <3>2, <3>4
  <2> HIDE DEF Turn, zero, after
  <2>2. DOMAIN after = 0 .. N /\ after = [n \in 0 .. N |-> after[n]]
    BY <1>6
  <2>3. QED BY <2>1, <2>2
<1>11. QED BY <1>7, <1>8, <1>9, <1>10 DEF Run

LEMMA ProgramRuns ==
  ASSUME NEW own
  PROVE  /\ Len(Program(own)) = 26
         /\ \A n \in 1 .. 26 : Instruction(Program(own)[n])
BY DEF Program, Instruction, pfilter_nop, pfilter_cmp, pfilter_logic2, pfilter_logic3, R_DROP, R_CLASS,
  Looked

LEMMA WordMask ==
  ASSUME NEW x \in 0 .. WORD - 1
  PROVE  x % WORD = x /\ x \in Int
BY SMTT(30) DEF WORD

LEMMA Whole ==
  ASSUME NEW frame \in Frame, NEW o \in Looked
  PROVE  frame[o] % WORD = frame[o] /\ frame[o] \in Int
<1>1. frame[o] \in 0 .. WORD - 1
  BY DEF Frame
<1>2. QED BY <1>1, WordMask


(* One step of it.                                                         *)
Executes(i, frame, old, new) ==
  /\ old \in Bank /\ i.rd \in 0 .. 31
  /\ new = [old EXCEPT ![i.rd] = Result(i, old, frame)]

LEMMA StepOf ==
  ASSUME NEW own, NEW frame, NEW after, Run(Program(own), frame, after), NEW n \in 1 .. 26
  PROVE  Executes(Program(own)[n], frame, after[n - 1], after[n])
<1> DEFINE i == Program(own)[n]
<1>1. Len(Program(own)) = 26 /\ Instruction(i) /\ n - 1 \in 0 .. 26
  BY ProgramRuns
<1>2. after \in [0 .. 26 -> Bank]
  BY <1>1 DEF Run
<1>3. after[n - 1] \in Bank
  BY <1>1, <1>2
<1>4. i.rd \in 0 .. 31
  BY <1>1 DEF Instruction
<1>5. after[n] = [after[n - 1] EXCEPT ![i.rd] = Result(i, after[n - 1], frame)]
  BY <1>1 DEF Run
<1>6. QED BY <1>3, <1>4, <1>5 DEF Executes

(* An instruction sets one register.                                       *)
Sets(rd, v, old, new) == (new[rd] <=> v) /\ \A r \in 0 .. 31 : r # rd => (new[r] <=> old[r])

LEMMA SetsResult ==
  ASSUME NEW old \in Bank, NEW rd \in 0 .. 31, NEW v \in BOOLEAN, NEW new, new = [old EXCEPT ![rd] = v]
  PROVE  Sets(rd, v, old, new)
BY DEF Sets, Bank

LEMMA CmpMov ==
  ASSUME NEW frame, NEW reg, NEW o, NEW v, NEW m, NEW rd
  PROVE  LET i == pfilter_cmp(o, v, m, "MOV", rd) IN
         i.rd = rd /\ Result(i, reg, frame) = (frame[o] % m = v)
BY DEF Result, pfilter_cmp, Apply

LEMMA CmpAnd ==
  ASSUME NEW frame, NEW reg, NEW o, NEW v, NEW m, NEW rd
  PROVE  LET i == pfilter_cmp(o, v, m, "AND", rd) IN
         i.rd = rd /\ Result(i, reg, frame) = (reg[rd] /\ frame[o] % m = v)
BY DEF Result, pfilter_cmp, Apply

LEMMA AfterCmp ==
  ASSUME NEW own, NEW frame, NEW after, Run(Program(own), frame, after), NEW n \in 1 .. 26,
         NEW o, NEW v, NEW m, NEW op1, NEW rd, Program(own)[n] = pfilter_cmp(o, v, m, op1, rd)
  PROVE  LET old == after[n - 1] IN
         /\ op1 = "MOV" => Sets(rd, frame[o] % m = v, old, after[n])
         /\ op1 = "AND" => Sets(rd, old[rd] /\ frame[o] % m = v, old, after[n])
<1> DEFINE i == pfilter_cmp(o, v, m, op1, rd)
           old == after[n - 1]
<1>1. old \in Bank /\ i.rd \in 0 .. 31 /\ after[n] = [old EXCEPT ![i.rd] = Result(i, old, frame)]
  <2>1. Executes(Program(own)[n], frame, after[n - 1], after[n])
    BY StepOf
  <2>2. Executes(i, frame, old, after[n])
    BY <2>1
  <2> HIDE DEF i, old
  <2>3. QED BY <2>2 DEF Executes
<1>2. i.rd = rd /\ old[rd] \in BOOLEAN
  <2>1. i.rd = rd
    BY DEF pfilter_cmp
  <2> HIDE DEF i, old
  <2>2. QED BY <1>1, <2>1 DEF Bank
<1>3. ASSUME NEW w \in BOOLEAN, Result(i, old, frame) = w PROVE Sets(rd, w, old, after[n])
  <2> HIDE DEF i, old
  <2>1. QED BY <1>1, <1>2, <1>3, SetsResult
<1> HIDE DEF old
<1>4. ASSUME op1 = "MOV" PROVE Sets(rd, frame[o] % m = v, old, after[n])
  <2>1. Result(i, old, frame) = (frame[o] % m = v)
    BY <1>4, CmpMov
  <2> HIDE DEF i
  <2>2. QED BY <1>3, <2>1
<1>5. ASSUME op1 = "AND" PROVE Sets(rd, old[rd] /\ frame[o] % m = v, old, after[n])
  <2>1. Result(i, old, frame) = (old[rd] /\ frame[o] % m = v)
    BY <1>5, CmpAnd
  <2>2. (old[rd] /\ frame[o] % m = v) \in BOOLEAN
    BY <1>2
  <2> HIDE DEF i
  <2>3. QED BY <1>3, <2>1, <2>2
<1>6. QED BY <1>4, <1>5 DEF old

LEMMA AfterLogic ==
  ASSUME NEW own, NEW frame, NEW after, Run(Program(own), frame, after), NEW n \in 1 .. 26,
         NEW rd, NEW ra, NEW rb, NEW rc, NEW op1, NEW op2,
         Program(own)[n] = pfilter_logic3(rd, ra, op1, rb, op2, rc)
  PROVE  LET old == after[n - 1] IN
         /\ op1 = "AND" /\ op2 = "MOV" => Sets(rd, old[ra] /\ old[rb], old, after[n])
         /\ op1 = "OR"  /\ op2 = "MOV" => Sets(rd, old[ra] \/ old[rb], old, after[n])
         /\ op1 = "MOV" /\ op2 = "MOV" => Sets(rd, old[ra], old, after[n])
         /\ op1 = "NOT" /\ op2 = "MOV" => Sets(rd, ~old[ra], old, after[n])
         /\ op1 = "OR"  /\ op2 = "AND" => Sets(rd, (old[ra] \/ old[rb]) /\ old[rc], old, after[n])
         /\ op1 = "AND" /\ op2 = "OR"  => Sets(rd, (old[ra] /\ old[rb]) \/ old[rc], old, after[n])
         /\ op1 = "AND" /\ op2 = "AND" => Sets(rd, (old[ra] /\ old[rb]) /\ old[rc], old, after[n])
<1> DEFINE i == pfilter_logic3(rd, ra, op1, rb, op2, rc)
           old == after[n - 1]
<1>1. old \in Bank /\ i.rd \in 0 .. 31 /\ after[n] = [old EXCEPT ![i.rd] = Result(i, old, frame)]
  <2>1. Executes(Program(own)[n], frame, after[n - 1], after[n])
    BY StepOf
  <2>2. Executes(i, frame, old, after[n])
    BY <2>1
  <2> HIDE DEF i, old
  <2>3. QED BY <2>2 DEF Executes
<1>2. i.rd = rd /\ old[ra] \in BOOLEAN /\ old[rb] \in BOOLEAN /\ old[rc] \in BOOLEAN
  <2>1. Instruction(i)
    BY ProgramRuns
  <2>2. i.rd = rd /\ ra \in 0 .. 31 /\ rb \in 0 .. 31 /\ rc \in 0 .. 31
    BY <2>1 DEF pfilter_logic3, Instruction
  <2> HIDE DEF i, old
  <2>3. QED BY <1>1, <2>2 DEF Bank
<1>3. ASSUME NEW v \in BOOLEAN, Result(i, old, frame) = v PROVE Sets(rd, v, old, after[n])
  <2> HIDE DEF i, old
  <2>1. QED BY <1>1, <1>2, <1>3, SetsResult
<1>4. /\ op1 = "AND" /\ op2 = "MOV" => Result(i, old, frame) = (old[ra] /\ old[rb])
      /\ op1 = "OR"  /\ op2 = "MOV" => Result(i, old, frame) = (old[ra] \/ old[rb])
      /\ op1 = "MOV" /\ op2 = "MOV" => Result(i, old, frame) = old[ra]
      /\ op1 = "NOT" /\ op2 = "MOV" => Result(i, old, frame) = ~old[ra]
      /\ op1 = "OR"  /\ op2 = "AND" => Result(i, old, frame) = ((old[ra] \/ old[rb]) /\ old[rc])
      /\ op1 = "AND" /\ op2 = "OR"  => Result(i, old, frame) = ((old[ra] /\ old[rb]) \/ old[rc])
      /\ op1 = "AND" /\ op2 = "AND" => Result(i, old, frame) = ((old[ra] /\ old[rb]) /\ old[rc])
  <2>1. old \in Bank
    BY <1>1
  <2> HIDE DEF old
  <2>2. QED BY <2>1 DEF Result, pfilter_logic3, Apply, Bank
<1> HIDE DEF i, old
<1>5. ASSUME op1 = "AND", op2 = "MOV" PROVE Sets(rd, old[ra] /\ old[rb], old, after[n])
  <2>1. (old[ra] /\ old[rb]) \in BOOLEAN
    BY <1>2
  <2>2. Result(i, old, frame) = (old[ra] /\ old[rb])
    BY <1>4, <1>5
  <2>3. QED BY <1>3, <2>1, <2>2
<1>6. ASSUME op1 = "OR", op2 = "MOV" PROVE Sets(rd, old[ra] \/ old[rb], old, after[n])
  <2>1. (old[ra] \/ old[rb]) \in BOOLEAN
    BY <1>2
  <2>2. Result(i, old, frame) = (old[ra] \/ old[rb])
    BY <1>4, <1>6
  <2>3. QED BY <1>3, <2>1, <2>2
<1>7. ASSUME op1 = "MOV", op2 = "MOV" PROVE Sets(rd, old[ra], old, after[n])
  <2>1. (old[ra]) \in BOOLEAN
    BY <1>2
  <2>2. Result(i, old, frame) = (old[ra])
    BY <1>4, <1>7
  <2>3. QED BY <1>3, <2>1, <2>2
<1>8. ASSUME op1 = "NOT", op2 = "MOV" PROVE Sets(rd, ~old[ra], old, after[n])
  <2>1. (~old[ra]) \in BOOLEAN
    BY <1>2
  <2>2. Result(i, old, frame) = (~old[ra])
    BY <1>4, <1>8
  <2>3. QED BY <1>3, <2>1, <2>2
<1>9. ASSUME op1 = "OR", op2 = "AND" PROVE Sets(rd, (old[ra] \/ old[rb]) /\ old[rc], old, after[n])
  <2>1. ((old[ra] \/ old[rb]) /\ old[rc]) \in BOOLEAN
    BY <1>2
  <2>2. Result(i, old, frame) = ((old[ra] \/ old[rb]) /\ old[rc])
    BY <1>4, <1>9
  <2>3. QED BY <1>3, <2>1, <2>2
<1>10. ASSUME op1 = "AND", op2 = "OR" PROVE Sets(rd, (old[ra] /\ old[rb]) \/ old[rc], old, after[n])
  <2>1. ((old[ra] /\ old[rb]) \/ old[rc]) \in BOOLEAN
    BY <1>2
  <2>2. Result(i, old, frame) = ((old[ra] /\ old[rb]) \/ old[rc])
    BY <1>4, <1>10
  <2>3. QED BY <1>3, <2>1, <2>2
<1>11. ASSUME op1 = "AND", op2 = "AND" PROVE Sets(rd, (old[ra] /\ old[rb]) /\ old[rc], old, after[n])
  <2>1. ((old[ra] /\ old[rb]) /\ old[rc]) \in BOOLEAN
    BY <1>2
  <2>2. Result(i, old, frame) = ((old[ra] /\ old[rb]) /\ old[rc])
    BY <1>4, <1>11
  <2>3. QED BY <1>3, <2>1, <2>2
<1>12. QED BY <1>5, <1>6, <1>7, <1>8, <1>9, <1>10, <1>11 DEF old

LEMMA ProgramCode ==
  ASSUME NEW own
  PROVE  LET P == Program(own) IN
         /\ P[1] = pfilter_logic3(0, 0, "AND", 0, "MOV", 0)
         /\ P[2] = pfilter_cmp(0, BROADCAST[1], WORD, "MOV", 1)
         /\ P[3] = pfilter_cmp(1, BROADCAST[2], WORD, "AND", 1)
         /\ P[4] = pfilter_cmp(2, BROADCAST[3], WORD, "AND", 1)
         /\ P[5] = pfilter_cmp(0, PTP_MULTI[1], WORD, "MOV", 2)
         /\ P[6] = pfilter_cmp(1, PTP_MULTI[2], WORD, "AND", 2)
         /\ P[7] = pfilter_cmp(2, PTP_MULTI[3], WORD, "AND", 2)
         /\ P[8] = pfilter_cmp(0, own[1], WORD, "MOV", 3)
         /\ P[9] = pfilter_cmp(1, own[2], WORD, "AND", 3)
         /\ P[10] = pfilter_cmp(2, own[3], WORD, "AND", 3)
         /\ P[11] = pfilter_cmp(6, ETH_IPV4, WORD, "MOV", 4)
         /\ P[12] = pfilter_cmp(6, ETH_PTP, WORD, "MOV", 5)
         /\ P[13] = pfilter_cmp(6, ETH_ARP, WORD, "MOV", 6)
         /\ P[14] = pfilter_cmp(11, ICMP, BYTE, "MOV", 7)
         /\ P[15] = pfilter_cmp(11, UDP, BYTE, "MOV", 8)
         /\ P[16] = pfilter_logic3(10, 3, "OR", 0, "AND", 4)
         /\ P[17] = pfilter_logic3(11, 1, "OR", 3, "AND", 4)
         /\ P[18] = pfilter_logic3(14, 1, "AND", 6, "OR", 5)
         /\ P[19] = pfilter_logic3(15, 10, "AND", 7, "OR", 14)
         /\ P[20] = pfilter_cmp(18, BOOTPC, WORD, "MOV", 14)
         /\ P[21] = pfilter_logic3(14, 14, "AND", 8, "AND", 11)
         /\ P[22] = pfilter_logic3(15, 14, "OR", 15, "MOV", 0)
         /\ P[23] = pfilter_logic3(20, 11, "AND", 8, "OR", 15)
         /\ P[24] = pfilter_logic3(R_DROP, 20, "NOT", 0, "MOV", 0)
         /\ P[25] = pfilter_logic3(R_CLASS(7), 11, "AND", 8, "MOV", 0)
         /\ P[26] = pfilter_logic3(R_CLASS(0), 15, "MOV", 0, "MOV", 0)
<1> HIDE DEF pfilter_logic3, pfilter_cmp
<1>1. QED BY DEF Program, pfilter_nop, pfilter_logic2

(* The run of the program over a frame, register by register.              *)
LEMMA AfterProgram ==
  ASSUME NEW own, NEW frame \in Frame, NEW after, Run(Program(own), frame, after)
  PROVE  LET ToAll == frame[0] = BROADCAST[1] /\ frame[1] = BROADCAST[2] /\ frame[2] = BROADCAST[3]
             ToOwn == frame[0] = own[1] /\ frame[1] = own[2] /\ frame[2] = own[3]
             Addressed == (ToAll \/ ToOwn) /\ frame[6] = ETH_IPV4
             Udp == frame[11] % BYTE = UDP
             Plain == \/ ToOwn /\ frame[6] = ETH_IPV4 /\ frame[11] % BYTE = ICMP
                      \/ ToAll /\ frame[6] = ETH_ARP
                      \/ frame[6] = ETH_PTP
             Bootp == Addressed /\ Udp /\ frame[18] = BOOTPC
         IN  /\ after[26][R_DROP] <=> ~((Addressed /\ Udp) \/ Bootp \/ Plain)
             /\ after[26][R_CLASS(7)] <=> Addressed /\ Udp
             /\ after[26][R_CLASS(0)] <=> Bootp \/ Plain
<1> DEFINE ToAll == frame[0] = BROADCAST[1] /\ frame[1] = BROADCAST[2] /\ frame[2] = BROADCAST[3]
           ToOwn == frame[0] = own[1] /\ frame[1] = own[2] /\ frame[2] = own[3]
           Ip == frame[6] = ETH_IPV4
           Ptp == frame[6] = ETH_PTP
           Arp == frame[6] = ETH_ARP
           Icmp == frame[11] % BYTE = ICMP
           Udp == frame[11] % BYTE = UDP
           BootPc == frame[18] = BOOTPC
           Addressed == (ToAll \/ ToOwn) /\ Ip
           Plain == (ToOwn /\ Ip /\ Icmp) \/ (ToAll /\ Arp) \/ Ptp
           Bootp == Addressed /\ Udp /\ BootPc
<1>a. \A o \in {0, 1, 2, 6, 18} : frame[o] % WORD = frame[o]
  BY Whole DEF Looked
<1>b. ASSUME NEW n \in 1 .. 26, NEW o \in {0, 1, 2, 6, 18}, NEW v, NEW rd, Program(own)[n] = pfilter_cmp(o, v, WORD, "MOV", rd)
      PROVE  Sets(rd, frame[o] = v, after[n - 1], after[n])
  <2>1. Sets(rd, frame[o] % WORD = v, after[n - 1], after[n])
    BY <1>b, AfterCmp
  <2>2. QED BY <1>a, <2>1
<1>c. ASSUME NEW n \in 1 .. 26, NEW o \in {0, 1, 2, 6, 18}, NEW v, NEW rd, Program(own)[n] = pfilter_cmp(o, v, WORD, "AND", rd)
      PROVE  Sets(rd, after[n - 1][rd] /\ frame[o] = v, after[n - 1], after[n])
  <2>1. Sets(rd, after[n - 1][rd] /\ frame[o] % WORD = v, after[n - 1], after[n])
    BY <1>c, AfterCmp
  <2>2. QED BY <1>a, <2>1
<1>0. /\ ~after[0][0]
  BY DEF Run
<1>1. /\ ~after[1][0]
  <2>1. Program(own)[1] = pfilter_logic3(0, 0, "AND", 0, "MOV", 0)
    BY ProgramCode
  <2>2. Sets(0, after[0][0] /\ after[0][0], after[0], after[1])
    BY <2>1, AfterLogic DEF R_DROP, R_CLASS
  <2>3. QED BY <1>0, <2>2 DEF Sets
<1>2. /\ ~after[2][0]
      /\ (after[2][1] <=> frame[0] = BROADCAST[1])
  <2>1. Program(own)[2] = pfilter_cmp(0, BROADCAST[1], WORD, "MOV", 1)
    BY ProgramCode
  <2>2. Sets(1, frame[0] = BROADCAST[1], after[1], after[2])
    BY <2>1, <1>b DEF R_DROP, R_CLASS
  <2>3. QED BY <1>1, <2>2 DEF Sets
<1>3. /\ ~after[3][0]
      /\ (after[3][1] <=> frame[0] = BROADCAST[1] /\ frame[1] = BROADCAST[2])
  <2>1. Program(own)[3] = pfilter_cmp(1, BROADCAST[2], WORD, "AND", 1)
    BY ProgramCode
  <2>2. Sets(1, after[2][1] /\ frame[1] = BROADCAST[2], after[2], after[3])
    BY <2>1, <1>c DEF R_DROP, R_CLASS
  <2>3. QED BY <1>2, <2>2 DEF Sets
<1>4. /\ ~after[4][0]
      /\ (after[4][1] <=> ToAll)
  <2>1. Program(own)[4] = pfilter_cmp(2, BROADCAST[3], WORD, "AND", 1)
    BY ProgramCode
  <2>2. Sets(1, after[3][1] /\ frame[2] = BROADCAST[3], after[3], after[4])
    BY <2>1, <1>c DEF R_DROP, R_CLASS
  <2>3. QED BY <1>3, <2>2 DEF Sets
<1>5. /\ ~after[5][0]
      /\ (after[5][1] <=> ToAll)
  <2>1. Program(own)[5] = pfilter_cmp(0, PTP_MULTI[1], WORD, "MOV", 2)
    BY ProgramCode
  <2>2. Sets(2, frame[0] = PTP_MULTI[1], after[4], after[5])
    BY <2>1, <1>b DEF R_DROP, R_CLASS
  <2>3. QED BY <1>4, <2>2 DEF Sets
<1>6. /\ ~after[6][0]
      /\ (after[6][1] <=> ToAll)
  <2>1. Program(own)[6] = pfilter_cmp(1, PTP_MULTI[2], WORD, "AND", 2)
    BY ProgramCode
  <2>2. Sets(2, after[5][2] /\ frame[1] = PTP_MULTI[2], after[5], after[6])
    BY <2>1, <1>c DEF R_DROP, R_CLASS
  <2>3. QED BY <1>5, <2>2 DEF Sets
<1>7. /\ ~after[7][0]
      /\ (after[7][1] <=> ToAll)
  <2>1. Program(own)[7] = pfilter_cmp(2, PTP_MULTI[3], WORD, "AND", 2)
    BY ProgramCode
  <2>2. Sets(2, after[6][2] /\ frame[2] = PTP_MULTI[3], after[6], after[7])
    BY <2>1, <1>c DEF R_DROP, R_CLASS
  <2>3. QED BY <1>6, <2>2 DEF Sets
<1>8. /\ ~after[8][0]
      /\ (after[8][1] <=> ToAll)
      /\ (after[8][3] <=> frame[0] = own[1])
  <2>1. Program(own)[8] = pfilter_cmp(0, own[1], WORD, "MOV", 3)
    BY ProgramCode
  <2>2. Sets(3, frame[0] = own[1], after[7], after[8])
    BY <2>1, <1>b DEF R_DROP, R_CLASS
  <2>3. QED BY <1>7, <2>2 DEF Sets
<1>9. /\ ~after[9][0]
      /\ (after[9][1] <=> ToAll)
      /\ (after[9][3] <=> frame[0] = own[1] /\ frame[1] = own[2])
  <2>1. Program(own)[9] = pfilter_cmp(1, own[2], WORD, "AND", 3)
    BY ProgramCode
  <2>2. Sets(3, after[8][3] /\ frame[1] = own[2], after[8], after[9])
    BY <2>1, <1>c DEF R_DROP, R_CLASS
  <2>3. QED BY <1>8, <2>2 DEF Sets
<1>10. /\ ~after[10][0]
       /\ (after[10][1] <=> ToAll)
       /\ (after[10][3] <=> ToOwn)
  <2>1. Program(own)[10] = pfilter_cmp(2, own[3], WORD, "AND", 3)
    BY ProgramCode
  <2>2. Sets(3, after[9][3] /\ frame[2] = own[3], after[9], after[10])
    BY <2>1, <1>c DEF R_DROP, R_CLASS
  <2>3. QED BY <1>9, <2>2 DEF Sets
<1>11. /\ ~after[11][0]
       /\ (after[11][1] <=> ToAll)
       /\ (after[11][3] <=> ToOwn)
       /\ (after[11][4] <=> Ip)
  <2>1. Program(own)[11] = pfilter_cmp(6, ETH_IPV4, WORD, "MOV", 4)
    BY ProgramCode
  <2>2. Sets(4, frame[6] = ETH_IPV4, after[10], after[11])
    BY <2>1, <1>b DEF R_DROP, R_CLASS
  <2>3. QED BY <1>10, <2>2 DEF Sets
<1>12. /\ ~after[12][0]
       /\ (after[12][1] <=> ToAll)
       /\ (after[12][3] <=> ToOwn)
       /\ (after[12][4] <=> Ip)
       /\ (after[12][5] <=> Ptp)
  <2>1. Program(own)[12] = pfilter_cmp(6, ETH_PTP, WORD, "MOV", 5)
    BY ProgramCode
  <2>2. Sets(5, frame[6] = ETH_PTP, after[11], after[12])
    BY <2>1, <1>b DEF R_DROP, R_CLASS
  <2>3. QED BY <1>11, <2>2 DEF Sets
<1>13. /\ ~after[13][0]
       /\ (after[13][1] <=> ToAll)
       /\ (after[13][3] <=> ToOwn)
       /\ (after[13][4] <=> Ip)
       /\ (after[13][5] <=> Ptp)
       /\ (after[13][6] <=> Arp)
  <2>1. Program(own)[13] = pfilter_cmp(6, ETH_ARP, WORD, "MOV", 6)
    BY ProgramCode
  <2>2. Sets(6, frame[6] = ETH_ARP, after[12], after[13])
    BY <2>1, <1>b DEF R_DROP, R_CLASS
  <2>3. QED BY <1>12, <2>2 DEF Sets
<1>14. /\ ~after[14][0]
       /\ (after[14][1] <=> ToAll)
       /\ (after[14][3] <=> ToOwn)
       /\ (after[14][4] <=> Ip)
       /\ (after[14][5] <=> Ptp)
       /\ (after[14][6] <=> Arp)
       /\ (after[14][7] <=> Icmp)
  <2>1. Program(own)[14] = pfilter_cmp(11, ICMP, BYTE, "MOV", 7)
    BY ProgramCode
  <2>2. Sets(7, frame[11] % BYTE = ICMP, after[13], after[14])
    BY <2>1, AfterCmp DEF R_DROP, R_CLASS
  <2>3. QED BY <1>13, <2>2 DEF Sets
<1>15. /\ ~after[15][0]
       /\ (after[15][1] <=> ToAll)
       /\ (after[15][3] <=> ToOwn)
       /\ (after[15][4] <=> Ip)
       /\ (after[15][5] <=> Ptp)
       /\ (after[15][6] <=> Arp)
       /\ (after[15][7] <=> Icmp)
       /\ (after[15][8] <=> Udp)
  <2>1. Program(own)[15] = pfilter_cmp(11, UDP, BYTE, "MOV", 8)
    BY ProgramCode
  <2>2. Sets(8, frame[11] % BYTE = UDP, after[14], after[15])
    BY <2>1, AfterCmp DEF R_DROP, R_CLASS
  <2>3. QED BY <1>14, <2>2 DEF Sets
<1>16. /\ (after[16][1] <=> ToAll)
       /\ (after[16][3] <=> ToOwn)
       /\ (after[16][4] <=> Ip)
       /\ (after[16][5] <=> Ptp)
       /\ (after[16][6] <=> Arp)
       /\ (after[16][7] <=> Icmp)
       /\ (after[16][8] <=> Udp)
       /\ (after[16][10] <=> ToOwn /\ Ip)
  <2>1. Program(own)[16] = pfilter_logic3(10, 3, "OR", 0, "AND", 4)
    BY ProgramCode
  <2>2. Sets(10, (after[15][3] \/ after[15][0]) /\ after[15][4], after[15], after[16])
    BY <2>1, AfterLogic DEF R_DROP, R_CLASS
  <2>3. QED BY <1>15, <2>2 DEF Sets
<1>17. /\ (after[17][1] <=> ToAll)
       /\ (after[17][5] <=> Ptp)
       /\ (after[17][6] <=> Arp)
       /\ (after[17][7] <=> Icmp)
       /\ (after[17][8] <=> Udp)
       /\ (after[17][10] <=> ToOwn /\ Ip)
       /\ (after[17][11] <=> Addressed)
  <2>1. Program(own)[17] = pfilter_logic3(11, 1, "OR", 3, "AND", 4)
    BY ProgramCode
  <2>2. Sets(11, (after[16][1] \/ after[16][3]) /\ after[16][4], after[16], after[17])
    BY <2>1, AfterLogic DEF R_DROP, R_CLASS
  <2>3. QED BY <1>16, <2>2 DEF Sets
<1>18. /\ (after[18][7] <=> Icmp)
       /\ (after[18][8] <=> Udp)
       /\ (after[18][10] <=> ToOwn /\ Ip)
       /\ (after[18][11] <=> Addressed)
       /\ (after[18][14] <=> (ToAll /\ Arp) \/ Ptp)
  <2>1. Program(own)[18] = pfilter_logic3(14, 1, "AND", 6, "OR", 5)
    BY ProgramCode
  <2>2. Sets(14, (after[17][1] /\ after[17][6]) \/ after[17][5], after[17], after[18])
    BY <2>1, AfterLogic DEF R_DROP, R_CLASS
  <2>3. QED BY <1>17, <2>2 DEF Sets
<1>19. /\ (after[19][8] <=> Udp)
       /\ (after[19][11] <=> Addressed)
       /\ (after[19][15] <=> Plain)
  <2>1. Program(own)[19] = pfilter_logic3(15, 10, "AND", 7, "OR", 14)
    BY ProgramCode
  <2>2. Sets(15, (after[18][10] /\ after[18][7]) \/ after[18][14], after[18], after[19])
    BY <2>1, AfterLogic DEF R_DROP, R_CLASS
  <2>3. QED BY <1>18, <2>2 DEF Sets
<1>20. /\ (after[20][8] <=> Udp)
       /\ (after[20][11] <=> Addressed)
       /\ (after[20][14] <=> BootPc)
       /\ (after[20][15] <=> Plain)
  <2>1. Program(own)[20] = pfilter_cmp(18, BOOTPC, WORD, "MOV", 14)
    BY ProgramCode
  <2>2. Sets(14, frame[18] = BOOTPC, after[19], after[20])
    BY <2>1, <1>b DEF R_DROP, R_CLASS
  <2>3. QED BY <1>19, <2>2 DEF Sets
<1>21. /\ (after[21][8] <=> Udp)
       /\ (after[21][11] <=> Addressed)
       /\ (after[21][14] <=> Bootp)
       /\ (after[21][15] <=> Plain)
  <2>1. Program(own)[21] = pfilter_logic3(14, 14, "AND", 8, "AND", 11)
    BY ProgramCode
  <2>2. Sets(14, (after[20][14] /\ after[20][8]) /\ after[20][11], after[20], after[21])
    BY <2>1, AfterLogic DEF R_DROP, R_CLASS
  <2>3. QED BY <1>20, <2>2 DEF Sets
<1>22. /\ (after[22][8] <=> Udp)
       /\ (after[22][11] <=> Addressed)
       /\ (after[22][15] <=> Bootp \/ Plain)
  <2>1. Program(own)[22] = pfilter_logic3(15, 14, "OR", 15, "MOV", 0)
    BY ProgramCode
  <2>2. Sets(15, after[21][14] \/ after[21][15], after[21], after[22])
    BY <2>1, AfterLogic DEF R_DROP, R_CLASS
  <2>3. QED BY <1>21, <2>2 DEF Sets
<1>23. /\ (after[23][8] <=> Udp)
       /\ (after[23][11] <=> Addressed)
       /\ (after[23][15] <=> Bootp \/ Plain)
       /\ (after[23][20] <=> (Addressed /\ Udp) \/ Bootp \/ Plain)
  <2>1. Program(own)[23] = pfilter_logic3(20, 11, "AND", 8, "OR", 15)
    BY ProgramCode
  <2>2. Sets(20, (after[22][11] /\ after[22][8]) \/ after[22][15], after[22], after[23])
    BY <2>1, AfterLogic DEF R_DROP, R_CLASS
  <2>3. QED BY <1>22, <2>2 DEF Sets
<1>24. /\ (after[24][8] <=> Udp)
       /\ (after[24][11] <=> Addressed)
       /\ (after[24][15] <=> Bootp \/ Plain)
       /\ (after[24][23] <=> ~((Addressed /\ Udp) \/ Bootp \/ Plain))
  <2>1. Program(own)[24] = pfilter_logic3(R_DROP, 20, "NOT", 0, "MOV", 0)
    BY ProgramCode
  <2>2. Sets(23, ~after[23][20], after[23], after[24])
    BY <2>1, AfterLogic DEF R_DROP, R_CLASS
  <2>3. QED BY <1>23, <2>2 DEF Sets
<1>25. /\ (after[25][15] <=> Bootp \/ Plain)
       /\ (after[25][23] <=> ~((Addressed /\ Udp) \/ Bootp \/ Plain))
       /\ (after[25][31] <=> Addressed /\ Udp)
  <2>1. Program(own)[25] = pfilter_logic3(R_CLASS(7), 11, "AND", 8, "MOV", 0)
    BY ProgramCode
  <2>2. Sets(31, after[24][11] /\ after[24][8], after[24], after[25])
    BY <2>1, AfterLogic DEF R_DROP, R_CLASS
  <2>3. QED BY <1>24, <2>2 DEF Sets
<1>26. /\ (after[26][23] <=> ~((Addressed /\ Udp) \/ Bootp \/ Plain))
       /\ (after[26][24] <=> Bootp \/ Plain)
       /\ (after[26][31] <=> Addressed /\ Udp)
  <2>1. Program(own)[26] = pfilter_logic3(R_CLASS(0), 15, "MOV", 0, "MOV", 0)
    BY ProgramCode
  <2>2. Sets(24, after[25][15], after[25], after[26])
    BY <2>1, AfterLogic DEF R_DROP, R_CLASS
  <2>3. QED BY <1>25, <2>2 DEF Sets
<1>27. QED BY <1>26 DEF R_DROP, R_CLASS

(* The program sorts the frames as the comments promise, for every address *)
(* and every frame.                                                        *)
LEMMA Sorts ==
  ASSUME NEW a, NEW b, NEW c, NEW frame \in Frame
  PROVE  Classify(Program(<< a, b, c >>), frame) = Wanted(<< a, b, c >>, frame)
<1> DEFINE own == << a, b, c >>
           ToAll == frame[0] = BROADCAST[1] /\ frame[1] = BROADCAST[2] /\ frame[2] = BROADCAST[3]
           ToOwn == frame[0] = own[1] /\ frame[1] = own[2] /\ frame[2] = own[3]
           Addressed == (ToAll \/ ToOwn) /\ frame[6] = ETH_IPV4
           Udp == frame[11] % BYTE = UDP
           Plain == \/ ToOwn /\ frame[6] = ETH_IPV4 /\ frame[11] % BYTE = ICMP
                    \/ ToAll /\ frame[6] = ETH_ARP
                    \/ frame[6] = ETH_PTP
           Bootp == Addressed /\ Udp /\ frame[18] = BOOTPC
           reg == Registers(Program(own), frame)
<1>1. /\ reg[R_DROP] <=> ~((Addressed /\ Udp) \/ Bootp \/ Plain)
      /\ reg[R_CLASS(7)] <=> Addressed /\ Udp
      /\ reg[R_CLASS(0)] <=> Bootp \/ Plain
  <2> HIDE DEF own
  <2>1. /\ Len(Program(own)) = 26 /\ Len(Program(own)) \in Nat
        /\ \A n \in 1 .. Len(Program(own)) : Instruction(Program(own)[n])
    <3>1. Len(Program(own)) = 26 /\ \A n \in 1 .. 26 : Instruction(Program(own)[n])
      BY ProgramRuns
    <3>2. QED BY <3>1
  <2>2. PICK after : /\ Run(Program(own), frame, after)
                    /\ Registers(Program(own), frame) = after[Len(Program(own))]
    <3> DEFINE code == Program(own)
    <3> HIDE DEF code
    <3>1. \E after : Run(code, frame, after) /\ Registers(code, frame) = after[Len(code)]
      BY <2>1, Runs DEF code
    <3>2. QED BY <3>1 DEF code
  <2>3. reg = after[26]
    BY <2>1, <2>2
  <2> HIDE DEF reg
  <2>4. QED BY <2>2, <2>3, AfterProgram
<1>2. /\ << frame[0], frame[1], frame[2] >> = own <=> ToOwn
      /\ << frame[0], frame[1], frame[2] >> = BROADCAST <=> ToAll
  <2>1. BROADCAST = << BROADCAST[1], BROADCAST[2], BROADCAST[3] >>
    BY DEF BROADCAST
  <2>2. QED BY <2>1
<1> HIDE DEF own, reg
<1>3. Wanted(own, frame) = { x \in {0, 7} : (x = 0 /\ (Bootp \/ Plain)) \/ (x = 7 /\ Addressed /\ Udp) }
  BY <1>2 DEF Wanted, BYTE
<1>4. Classify(Program(own), frame) = { x \in {0, 7} : (x = 0 /\ (Bootp \/ Plain)) \/ (x = 7 /\ Addressed /\ Udp) }
  <2> HIDE DEF Bootp, Plain, Addressed, Udp
  <2>1. Classify(Program(own), frame) = IF reg[R_DROP] THEN {} ELSE { x \in {0, 7} : reg[R_CLASS(x)] }
    BY DEF Classify, reg
  <2>2. QED BY <1>1, <2>1
<1>5. QED BY <1>3, <1>4 DEF own

LEMMA Loads == ASSUME NEW own PROVE Loadable(Program(own))
<1>1. DOMAIN Program(own) = 1 .. 26 /\ Len(Program(own)) = 26
  BY DEF Program
<1>2. ASSUME NEW n \in 1 .. 26, Program(own)[n].ins = "cmp"
      PROVE  Program(own)[n].offset <= n - 1 /\ Program(own)[n].rd \in 1 .. 15
  BY <1>2 DEF Program, pfilter_nop, pfilter_cmp, pfilter_logic2, pfilter_logic3
<1>3. QED BY <1>1, <1>2 DEF Loadable, PFILTER_MAX_CODE_SIZE

(* Whenever the filter is in use and it, the endpoint or its address       *)
(* changes, frames are sorted by the address of the endpoint, as the       *)
(* comments promise (pfilter_init_default, ep_pfilter.c).                  *)
THEOREM FilterSorts == Spec => FilterFollowsMac
<1>1. ASSUME [Next]_vars, epVars' # epVars, enabled', filter' # NoMac, pc' # "filter_off"
      PROVE  filter' = OwnWords'
  BY <1>1 DEF Next, vars, epVars, Step, Boot, Store, Temp, Command, Devices, Faults, OwnWords,
    FindDevices, Search, Device, DevicesDone, EpInit, EpEnable, FilterOff, FilterLoad, WriteScratch,
    CopyScratch, Answer, TempWait, TempConvert, TempStart, MacSet, SetPersistent, GetPersistent,
    Programs, Converted, LoseContact, RegainContact, Reset
<1>2. ASSUME [Next]_vars, epVars' # epVars, enabled', filter' # NoMac, pc' # "filter_off"
      PROVE  /\ Loadable(Program(filter'))
             /\ \A f \in Frames : Classify(Program(filter'), f) = Wanted(OwnWords', f)
  <2>1. filter' = OwnWords'
    BY <1>1, <1>2
  <2>2. \A f \in Frames : Classify(Program(OwnWords'), f) = Wanted(OwnWords', f)
    BY Sorts, MacAssumption DEF OwnWords
  <2>3. QED BY <2>1, <2>2, Loads
<1>3. QED BY <1>2, PTL DEF Spec, FilterFollowsMac
=============================================================================
