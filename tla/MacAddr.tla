------------------------------ MODULE MacAddr ------------------------------
(***************************************************************************)
(* The address of the node: where it comes from at start-up (wrc_main.c,   *)
(* onewire.c), how "mac" changes and stores it (cmd_mac.c, eep43.c), and   *)
(* the endpoint and packet filter that go by it (endpoint.c,               *)
(* ep_pfilter.c).  The thermometer shares the bus (temp28.c).              *)
(*                                                                         *)
(* The program is one thread, so that its steps are the transactions of    *)
(* the bus; between them a device may lose contact or come back, and the   *)
(* processor may be reset.  The EEPROM and the sensor are external.        *)
(***************************************************************************)
EXTENDS OneWire, Pfilter

CONSTANTS
  Boards,        (* the sets of devices a board may have                    *)
  LowBytes,      (* bytes 3, 2 and 1 of an identifier                       *)
  Programmed,    (* what a page 0 may hold at first, besides zeros          *)
  Entered,       (* the addresses typed                                     *)
  Frames,        (* the frames that arrive, as the filter sees them         *)
  NoRom, NoMac,
  MaxEvents      (* bound on losses of contact, lost bits and resets        *)

Eeproms == Members(Pool, EEPROM43)

ZEROS    == << 0, 0, 0, 0, 0, 0 >>
FALLBACK == << 8, 0, 48, 222, 173, 66 >>       (* 08:00:30:DE:AD:42         *)

Oui(mac) == SubSeq(mac, 1, 3)
Low(mac) == SubSeq(mac, 4, 6)

(* Half of the one and half of the other.                                  *)
Torn(new, old) == Oui(new) \o Low(old)

Mac ==
  LET given == Programmed \cup Entered \cup {ZEROS, FALLBACK}
      lows  == { Low(m) : m \in given } \cup { LowBytes[d] : d \in Pool }
  IN  { Oui(m) \o l : m \in given, l \in lows }

ASSUME MacAssumption ==
  /\ \A B \in Boards : /\ B \subseteq Pool /\ IsFiniteSet(B)
                        /\ Cardinality(B) * (MaxEvents + 1) < MAX_DEV1WIRE
  /\ LowBytes \in [Pool -> [1 .. 3 -> 0 .. 255]]
  /\ Programmed \cup Entered \subseteq [1 .. 6 -> 0 .. 255]
  /\ Frames \subseteq Frame
  /\ NoRom \notin Pool /\ NoMac \notin Mac
  /\ MaxEvents \in Nat

VARIABLES
  fitted,                                    (* the devices of this board   *)
  page, scratch, prog, acked,                (* of the EEPROMs              *)
  converting,                                (* the sensors at work         *)
  pc, op, calm,                              (* where the program is; calm: *)
                                             (* undisturbed since op began  *)
  FamilySN, devsnum, found, fam, num, dev,   (* onewire.c, findtype.c       *)
  target,                                    (* the one device of an op     *)
  S_PWR, power, toggle,                      (* owlnk.c, temp28.c           *)
  mac, rv, before, stored,
  MACH, MACL, enabled, filter,               (* of the endpoint             *)
  events

deviceVars == << bus, page, scratch, prog, acked, converting >>
listVars   == << FamilySN, devsnum, found, fam, num, dev, target >>
tempVars   == << power, toggle >>
storeVars  == << rv, before, stored >>
epVars     == << MACH, MACL, enabled, filter >>
vars == << fitted, deviceVars, searchVars, pc, op, calm, listVars, S_PWR, tempVars, mac, storeVars,
           epVars, events >>

Families == << TEMP28, TEMP42, EEPROM43 >>

(* The statics after a reset, and wrc_initialize up to own_scanbus.        *)
Statics ==
  /\ FamilySN = [k \in 0 .. MAX_DEV1WIRE - 1 |-> NoRom]
  /\ devsnum = 0 /\ found = FALSE
  /\ S_PWR = FALSE /\ power = -1 /\ toggle = FALSE
  /\ mac = FALLBACK
  /\ pc = "find" /\ op = "boot"
  /\ fam = 1 /\ num = 0 /\ dev = 0 /\ target = NoRom

Init ==
  /\ fitted \in Boards
  /\ bus = fitted
  /\ page \in [Eeproms -> Programmed \cup {ZEROS}]
  /\ \A e \in Eeproms \ fitted : page[e] = ZEROS
  /\ scratch = [e \in Eeproms |-> NoMac] /\ prog = {} /\ acked = {} /\ converting = {}
  /\ SearchInit /\ Statics /\ calm = TRUE
  /\ rv = 0 /\ before = page /\ stored = NoMac
  /\ MACH = 0 /\ MACL = << 0, 0 >> /\ enabled = FALSE /\ filter = NoMac
  /\ events = 0

(* What disturbs a step counts as an event.                                *)
Undisturbed == UNCHANGED << calm, events >>
Disturbed   == events < MaxEvents /\ events' = events + 1 /\ calm' = FALSE

(* The strong pull-up; a byte with power turns it on behind the byte.      *)
owLevel(strong) == S_PWR' = strong

owWriteBytePower(echoed) == IF echoed THEN owLevel(TRUE) ELSE UNCHANGED S_PWR

(***************************************************************************)
(* Finding devices.                                                        *)
(***************************************************************************)
(* own_scanbus goes through three families; set_persistent_mac looks for   *)
(* one EEPROM, with a list of its own.                                     *)
MAXDEVICES == IF op = "setp" THEN 1 ELSE MAX_DEV1WIRE - devsnum

FindDevices ==
  /\ pc = "find"
  /\ Setup(Families[fam])
  /\ num' = 0 /\ pc' = "search"
  /\ Undisturbed
  /\ UNCHANGED << fitted, deviceVars, op, FamilySN, devsnum, found, fam, dev, target,
                  S_PWR, tempVars, mac, storeVars, epVars >>

(* n devices of this family are in the list.                               *)
ScanGoesOn(n) ==
  /\ devsnum' = devsnum + n
  /\ found' = IF fam = 1 THEN n > 0 ELSE found
  /\ IF fam < Len(Families) THEN fam' = fam + 1 /\ pc' = "find" ELSE fam' = fam /\ pc' = "device"
  /\ UNCHANGED << op, rv >>

SetpGoesOn(n) ==
  /\ IF n = 0 THEN rv' = -1 /\ pc' = "run" ELSE pc' = "write" /\ UNCHANGED rv
  /\ UNCHANGED << op, devsnum, found, fam >>

Ends(n) == IF op = "setp" THEN SetpGoesOn(n) ELSE ScanGoesOn(n)

(* One turn of the loop of FindDevices.  The device goes into the list     *)
(* before its family is looked at; own_scanbus has its list, setp one      *)
(* place of its own.                                                       *)
Search(held) ==
  /\ pc = "search"
  /\ owNext(held)
  /\ IF Found(held)
       THEN LET id == SerialNum'
                n  == IF Kind(id) = Kind(Families[fam]) THEN num + 1 ELSE num
            IN  /\ IF op = "setp"
                     THEN target' = id /\ UNCHANGED FamilySN
                     ELSE FamilySN' = [FamilySN EXCEPT ![devsnum + num] = id] /\ UNCHANGED target
                /\ num' = n
                /\ IF n < MAXDEVICES - 1
                     THEN UNCHANGED << pc, op, rv, devsnum, found, fam >>
                     ELSE Ends(n)
       ELSE Ends(num) /\ UNCHANGED << num, FamilySN, target >>
  /\ IF held = RomBits THEN Undisturbed ELSE Disturbed
  /\ acked' = {}
  /\ UNCHANGED << fitted, bus, page, scratch, prog, converting, dev, S_PWR, tempVars, mac, before, stored,
                  epVars >>

(***************************************************************************)
(* get_persistent_mac, over mac.                                           *)
(***************************************************************************)
(* ReadMem43: the check sum tells whether the EEPROM is there.             *)
Reads(e) == e \in bus

TakeSerial(d) ==
  /\ Family(d) \in {TEMP28, TEMP42}
  /\ mac' = Oui(mac) \o LowBytes[d]
  /\ Undisturbed
  /\ UNCHANGED << searchVars, S_PWR, acked >>

TakePage(d, ok) ==
  /\ Family(d) = EEPROM43
  /\ Address(d)
  /\ mac' = IF ok /\ Reads(d) /\ Oui(page[d]) # Oui(ZEROS) THEN page[d] ELSE mac
  /\ owLevel(FALSE) /\ acked' = {}
  /\ IF ok THEN Undisturbed ELSE Disturbed

(* One whose family code has its highest bit set is listed, too.           *)
PassOver(d) ==
  /\ Family(d) \notin {TEMP28, TEMP42, EEPROM43}
  /\ Undisturbed
  /\ UNCHANGED << searchVars, S_PWR, acked, mac >>

Device ==
  /\ pc = "device" /\ dev < devsnum
  /\ \/ TakeSerial(FamilySN[dev])
     \/ \E ok \in BOOLEAN : TakePage(FamilySN[dev], ok)
     \/ PassOver(FamilySN[dev])
  /\ dev' = dev + 1
  /\ UNCHANGED << fitted, bus, page, scratch, prog, converting, pc, op, FamilySN, devsnum, found, fam, num,
                  target, tempVars, storeVars, epVars >>

(* At start-up ep_init follows, and "mac getp" prints.                     *)
DevicesDone ==
  /\ pc = "device" /\ dev = devsnum
  /\ pc' = IF op = "boot" THEN "ep_init" ELSE "run"
  /\ Undisturbed
  /\ UNCHANGED << fitted, deviceVars, searchVars, op, listVars, S_PWR, tempVars, mac, storeVars, epVars >>

(***************************************************************************)
(* The endpoint.                                                           *)
(***************************************************************************)
(* The low register stands as two halves.                                  *)
set_mac_addr(m) ==
  /\ MACH' = m[1] * 256 + m[2]
  /\ MACL' = << m[3] * 256 + m[4], m[5] * 256 + m[6] >>

get_mac_addr ==
  << MACH \div 256, MACH % 256, MACL[1] \div 256, MACL[1] % 256, MACL[2] \div 256, MACL[2] % 256 >>

OwnWords == << MACH, MACL[1], MACL[2] >>

EpInit ==
  /\ pc = "ep_init"
  /\ set_mac_addr(mac)
  /\ enabled' = FALSE
  /\ pc' = "ep_enable"
  /\ Undisturbed
  /\ UNCHANGED << fitted, deviceVars, searchVars, op, listVars, S_PWR, tempVars, mac, storeVars, filter >>

(* With the filter, which is loaded while no frame comes in.               *)
EpEnable ==
  /\ pc = "ep_enable"
  /\ filter' = OwnWords
  /\ enabled' = TRUE
  /\ pc' = "run"
  /\ Undisturbed
  /\ UNCHANGED << fitted, deviceVars, searchVars, op, listVars, S_PWR, tempVars, mac, storeVars, MACH, MACL >>

(* pfilter_load: off while the program is written.                        *)
FilterOff ==
  /\ pc = "filter_off"
  /\ filter' = NoMac
  /\ pc' = "filter_load"
  /\ Undisturbed
  /\ UNCHANGED << fitted, deviceVars, searchVars, op, listVars, S_PWR, tempVars, mac, storeVars, MACH, MACL, enabled >>

FilterLoad ==
  /\ pc = "filter_load"
  /\ filter' = OwnWords
  /\ pc' = "run"
  /\ Undisturbed
  /\ UNCHANGED << fitted, deviceVars, searchVars, op, listVars, S_PWR, tempVars, mac, storeVars, MACH, MACL, enabled >>

(***************************************************************************)
(* The commands, and the screen's look at the thermometer.                 *)
(***************************************************************************)
Starts(o, m) ==
  /\ pc = "run" /\ op' = o
  /\ mac' = m /\ rv' = 0 /\ before' = page
  /\ calm' = (bus = fitted)
  /\ UNCHANGED events

MacSet_KeepsFilter(m) ==
  /\ Starts("set", m)
  /\ set_mac_addr(m)
  /\ pc' = "run"
  /\ UNCHANGED << fitted, deviceVars, searchVars, listVars, S_PWR, tempVars, stored, enabled, filter >>

(* "mac set"; pfilter_init_default follows.                                *)
MacSet(m) ==
  /\ Starts("set", m)
  /\ set_mac_addr(m)
  /\ pc' = "filter_off"
  /\ UNCHANGED << fitted, deviceVars, searchVars, listVars, S_PWR, tempVars, stored, enabled, filter >>

GetPersistent ==
  /\ Starts("getp", get_mac_addr)
  /\ pc' = "device" /\ dev' = 0
  /\ UNCHANGED << fitted, deviceVars, searchVars, FamilySN, devsnum, found, fam, num, target, S_PWR, tempVars,
                  stored, epVars >>

SetPersistent(m) ==
  /\ Starts("setp", m)
  /\ stored' = NoMac
  /\ fam' = Len(Families)
  /\ pc' = "find"
  /\ UNCHANGED << fitted, deviceVars, searchVars, FamilySN, devsnum, found, num, dev, target, S_PWR, tempVars,
                  epVars >>

Fails ==
  /\ rv' = -1 /\ pc' = "run"
  /\ UNCHANGED << before, stored >>

(* Write43 up to the check sum: owAccess asks for an echo and no more.     *)
WriteScratch(ok) ==
  /\ pc = "write"
  /\ Address(target)
  /\ owLevel(FALSE) /\ acked' = {}
  /\ scratch' = IF target \in bus THEN [scratch EXCEPT ![target] = IF ok THEN mac ELSE NoMac] ELSE scratch
  /\ IF Echoes /\ ok /\ target \in bus
       THEN pc' = "copy" /\ UNCHANGED storeVars
       ELSE Fails
  /\ IF ok THEN Undisturbed ELSE Disturbed
  /\ UNCHANGED << fitted, bus, page, prog, converting, op, listVars, tempVars, mac, epVars >>

CopyScratch_NoPower(ok) ==
  /\ pc = "copy"
  /\ Address(target)
  /\ acked' = {}
  /\ IF Echoes
       THEN /\ pc' = "answer" /\ UNCHANGED storeVars
            /\ owLevel(FALSE)
            /\ prog' = IF ok /\ target \in bus /\ scratch[target] # NoMac THEN {target} ELSE {}
       ELSE Fails /\ owLevel(FALSE) /\ UNCHANGED prog
  /\ IF ok THEN Undisturbed ELSE Disturbed
  /\ UNCHANGED << fitted, bus, page, scratch, converting, op, listVars, tempVars, mac, epVars >>

(* Copy2Mem43 up to the wait of half a second.  The EEPROM copies what has *)
(* been written to it as a whole.                                          *)
CopyScratch(ok) ==
  /\ pc = "copy"
  /\ Address(target)
  /\ acked' = {}
  /\ IF Echoes
       THEN /\ pc' = "answer" /\ UNCHANGED storeVars
            /\ owWriteBytePower(TRUE)
            /\ prog' = IF ok /\ target \in bus /\ scratch[target] # NoMac THEN {target} ELSE {}
       ELSE Fails /\ owLevel(FALSE) /\ UNCHANGED prog
  /\ IF ok THEN Undisturbed ELSE Disturbed
  /\ UNCHANGED << fitted, bus, page, scratch, converting, op, listVars, tempVars, mac, epVars >>

(* The EEPROM needs the current of the strong pull-up.                     *)
Programs(e) ==
  /\ e \in prog
  /\ prog' = prog \ {e} /\ scratch' = [scratch EXCEPT ![e] = NoMac]
  /\ IF S_PWR
       THEN page' = [page EXCEPT ![e] = scratch[e]] /\ acked' = {e}
       ELSE page' = [page EXCEPT ![e] = Torn(scratch[e], page[e])] /\ UNCHANGED acked
  /\ Undisturbed
  /\ UNCHANGED << fitted, bus, converting, searchVars, pc, op, listVars, S_PWR, tempVars, mac, storeVars, epVars >>

Answer_NotLooked(ok) ==
  /\ pc = "answer" /\ prog = {}
  /\ rv' = 0 /\ stored' = mac
  /\ owLevel(FALSE) /\ pc' = "run" /\ acked' = {}
  /\ IF ok THEN Undisturbed ELSE Disturbed
  /\ UNCHANGED << fitted, bus, page, scratch, prog, converting, searchVars, op, listVars, tempVars, mac, before, epVars >>

(* The half second is longer than the EEPROM takes.                        *)
Answer(ok) ==
  /\ pc = "answer" /\ prog = {}
  /\ rv' = IF ok /\ target \in acked THEN 0 ELSE -1
  /\ stored' = IF rv' = 0 THEN mac ELSE NoMac
  /\ owLevel(FALSE) /\ pc' = "run" /\ acked' = {}
  /\ IF ok THEN Undisturbed ELSE Disturbed
  /\ UNCHANGED << fitted, bus, page, scratch, prog, converting, searchVars, op, listVars, tempVars, mac, before, epVars >>

(***************************************************************************)
(* ReadTemperature28, for the first device of the list.  The result of a   *)
(* conversion is read when the next one is asked for.                      *)
(***************************************************************************)
PowerOf(access, answer) == IF power = -1 /\ access THEN answer ELSE power

TempStart(answer) ==
  /\ Starts("temp", FALLBACK) /\ found
  /\ target' = FamilySN[0] /\ Address(FamilySN[0])
  /\ power' = PowerOf(Echoes, answer)
  /\ IF toggle /\ Echoes
       THEN pc' = "temp_wait" /\ S_PWR' = (S_PWR /\ power' = 0)
       ELSE pc' = "temp_convert" /\ S_PWR' = S_PWR
  /\ acked' = {}
  /\ UNCHANGED << fitted, bus, page, scratch, prog, converting, FamilySN, devsnum, found, fam, num, dev, toggle,
                  stored, epVars >>

(* The wait reads zeros while the sensor is at work, and has no bound.     *)
TempWait ==
  /\ pc = "temp_wait" /\ target \notin converting \cap bus
  /\ pc' = "temp_convert"
  /\ Undisturbed
  /\ UNCHANGED << fitted, deviceVars, searchVars, op, listVars, S_PWR, tempVars, mac, storeVars, epVars >>

TempConvert(ok) ==
  /\ pc = "temp_convert"
  /\ pc' = "run"
  /\ IF Echoes /\ ok
       THEN /\ converting' = converting \cup ({target} \cap bus)
            /\ toggle' = TRUE
       ELSE UNCHANGED << converting, toggle >>
  /\ owWriteBytePower(Echoes /\ ok /\ power # 0)
  /\ IF ok THEN Undisturbed ELSE Disturbed
  /\ UNCHANGED << fitted, bus, page, scratch, prog, acked, searchVars, op, listVars, power, mac, storeVars, epVars >>

Converted(d) ==
  /\ d \in converting
  /\ converting' = converting \ {d}
  /\ Undisturbed
  /\ UNCHANGED << fitted, bus, page, scratch, prog, acked, searchVars, pc, op, listVars, S_PWR, tempVars, mac, storeVars, epVars >>

(***************************************************************************)
(* What goes wrong.                                                        *)
(***************************************************************************)
(* An EEPROM that loses its current while it programs keeps what was       *)
(* there, or half of it, or has just finished.                             *)
Cut(lost) ==
  /\ prog' = prog \ lost
  /\ \E outcome \in [prog \cap lost -> {"old", "torn", "new"}] :
       page' = [e \in Eeproms |->
                  IF e \notin DOMAIN outcome \/ outcome[e] = "old" THEN page[e]
                  ELSE IF outcome[e] = "torn" THEN Torn(scratch[e], page[e])
                  ELSE scratch[e]]

LoseContact(d) ==
  /\ d \in bus /\ bus' = bus \ {d}
  /\ Cut({d})
  /\ scratch' = [e \in Eeproms |-> IF e = d THEN NoMac ELSE scratch[e]]
  /\ acked' = acked \ {d} /\ converting' = converting \ {d}
  /\ Disturbed
  /\ UNCHANGED << fitted, searchVars, pc, op, listVars, S_PWR, tempVars, mac, storeVars, epVars >>

RegainContact(d) ==
  /\ d \in fitted \ bus /\ bus' = bus \cup {d}
  /\ Undisturbed
  /\ UNCHANGED << fitted, page, scratch, prog, acked, converting, searchVars, pc, op, listVars, S_PWR, tempVars,
                  mac, storeVars, epVars >>

(* The endpoint goes on with what it has until ep_init.                    *)
Reset ==
  /\ events < MaxEvents /\ events' = events + 1
  /\ Cut(prog)
  /\ SerialNum' = [i \in 1 .. RomBits |-> 0] /\ LastDiscrepancy' = 0 /\ LastDevice' = FALSE
  /\ FamilySN' = [k \in 0 .. MAX_DEV1WIRE - 1 |-> NoRom]
  /\ devsnum' = 0 /\ found' = FALSE
  /\ S_PWR' = FALSE /\ power' = -1 /\ toggle' = FALSE
  /\ mac' = FALLBACK
  /\ pc' = "find" /\ op' = "boot" /\ calm' = (bus = fitted)
  /\ fam' = 1 /\ num' = 0 /\ dev' = 0 /\ target' = NoRom
  /\ rv' = 0 /\ before' = page'
  /\ UNCHANGED << fitted, bus, scratch, acked, converting, stored, epVars >>

(***************************************************************************)
(* Putting it together.                                                    *)
(***************************************************************************)
(* A search that loses its contact, in the family code or behind it.       *)
Held == { FamilyBits - 1, FamilyBits + 1, RomBits }

Boot == FindDevices \/ (\E held \in Held : Search(held)) \/ Device \/ DevicesDone \/ EpInit \/ EpEnable

Store == \E ok \in BOOLEAN : WriteScratch(ok) \/ CopyScratch(ok) \/ Answer(ok)

Temp == TempWait \/ \E ok \in BOOLEAN : TempConvert(ok)

(* What the program does once it has begun.                                *)
Step == Boot \/ FilterOff \/ FilterLoad \/ Store \/ Temp

Command ==
  \/ \E m \in Entered : MacSet(m) \/ SetPersistent(m)
  \/ GetPersistent
  \/ \E answer \in {0, 255} : TempStart(answer)

Devices == \E d \in Pool : Programs(d) \/ Converted(d)

Faults == (\E d \in Pool : LoseContact(d) \/ RegainContact(d)) \/ Reset

Next == Step \/ Command \/ Devices \/ Faults

Spec == Init /\ [][Next]_vars

(* The main loop does not stop, and an EEPROM or a sensor finishes.        *)
FairSpec == Spec /\ WF_vars(Step) /\ WF_vars(Devices)

(***************************************************************************)
(* Properties.                                                             *)
(***************************************************************************)
Words(m) == << m[1] * 256 + m[2], m[3] * 256 + m[4], m[5] * 256 + m[6] >>

(* A device that is found goes into the list or behind the last one of it, *)
(* never behind its end, as long as it has a place for each device and for *)
(* each of them once more at a loss of contact, after which a search may   *)
(* begin again; the strong pull-up is on while an EEPROM programs.         *)
TypeOK ==
  /\ bus \subseteq fitted /\ fitted \in Boards
  /\ SerialNum \in Rom /\ LastDiscrepancy \in 0 .. RomBits /\ LastDevice \in BOOLEAN
  /\ devsnum \in 0 .. MAX_DEV1WIRE /\ dev \in 0 .. devsnum /\ fam \in DOMAIN Families
  /\ pc = "search" /\ op = "boot" => devsnum + num < MAX_DEV1WIRE
  /\ mac \in Mac /\ page \in [Eeproms -> Mac] /\ scratch \in [Eeproms -> Mac \cup {NoMac}]
  /\ power \in {-1, 0, 255} /\ (prog # {} => S_PWR)
  /\ calm \in BOOLEAN /\ events \in 0 .. MaxEvents
  /\ filter = NoMac \/ filter \in { Words(m) : m \in Mac }

(* What a start-up makes of the devices: the address in the last EEPROM    *)
(* that has one, or else in the last thermometer.                          *)
ListOf(S) == InOrder(Members(S, TEMP28)) \o InOrder(Members(S, TEMP42)) \o InOrder(Members(S, EEPROM43))

Generated(list, content) ==
  LET LastOf(places) == CHOOSE k \in places : \A j \in places : j <= k
      written == { k \in DOMAIN list : Family(list[k]) = EEPROM43 /\ Oui(content[list[k]]) # Oui(ZEROS) }
      sensors == { k \in DOMAIN list : Family(list[k]) \in {TEMP28, TEMP42} }
  IN  IF written # {} THEN content[list[LastOf(written)]]
      ELSE IF sensors # {} THEN Oui(FALLBACK) \o LowBytes[list[LastOf(sensors)]]
      ELSE FALLBACK

Listed(n) == [k \in 1 .. n |-> FamilySN[k - 1]]

(* An undisturbed start-up lists every device of the three families once,  *)
(* whatever other devices there are, takes the address from them, and so   *)
(* comes up with the address that "mac setp" stored before, if there is    *)
(* one EEPROM and the address does not begin with three zeros.             *)
BootAddress ==
  pc = "ep_init" /\ calm =>
    /\ Listed(devsnum) = ListOf(fitted)
    /\ found = (Members(fitted, TEMP28) # {})
    /\ mac = Generated(ListOf(fitted), page)
    /\ stored # NoMac /\ Oui(stored) # Oui(ZEROS) =>
         \A e \in fitted : Members(fitted, EEPROM43) = {e} /\ Family(e) = EEPROM43 => mac = stored

(* A page is the one from before "mac setp", or the new one in the one     *)
(* EEPROM that was chosen, or the contact or the processor was lost        *)
(* meanwhile; what is reported as stored is there.                         *)
PageWhole ==
  op = "setp" =>
    /\ \A e \in Eeproms : page[e] = before[e] \/ (e = target /\ (page[e] = mac \/ ~calm))
    /\ pc = "run" /\ rv = 0 => page = [before EXCEPT ![target] = mac]

(* "mac setp" stores whole pages, and undisturbed it fails for want of an  *)
(* EEPROM only, with every page as it was.                                 *)
FailsForWant ==
  op = "setp" /\ pc = "run" /\ rv = -1 /\ calm => page = before /\ Members(fitted, EEPROM43) = {}

StoresWhole == PageWhole /\ FailsForWant

(* Whenever the endpoint, its address or its filter changes, frames that   *)
(* pass are sorted by the address it has: what the comments promise for    *)
(* the classes, and no frame with one word of another address taken for    *)
(* its own.  Between the two steps of "mac set" it is still the old one.   *)
FilterFollowsMac ==
  [][ epVars' # epVars /\ enabled' /\ filter' # NoMac /\ pc' # "filter_off" =>
        /\ Loadable(Program(filter'))
        /\ \A f \in Frames : Classify(Program(filter'), f) = Wanted(OwnWords', f) ]_vars

(* Every command comes back, the wait for the thermometer included, on     *)
(* whatever devices are in contact.                                        *)
OpReturns == pc # "run" ~> pc = "run"

-----------------------------------------------------------------------------
(* The inductive invariant behind PageWhole.                               *)

SetpAt(places) == op = "setp" /\ pc \in places

(* An EEPROM programs only for the command that waits for it, with the     *)
(* current it needs and the address to be stored.                          *)
ProgramsTarget ==
  prog # {} => SetpAt({"answer"}) /\ prog = {target} /\ scratch[target] = mac /\ S_PWR

StoreHolds ==
  /\ bus \subseteq fitted /\ fitted \subseteq Pool /\ prog \subseteq Eeproms
  /\ DOMAIN page = Eeproms /\ page = [e \in Eeproms |-> page[e]]
  /\ scratch = [e \in Eeproms |-> scratch[e]]
  /\ op = "setp" => pc \in {"find", "search", "write", "copy", "answer", "run"}
  /\ pc \in {"write", "copy", "answer"} => op = "setp" /\ Kind(target) = Kind(EEPROM43)
  /\ SetpAt({"find", "search"}) => fam = Len(Families)
  /\ SetpAt({"search"}) => num = 0
  /\ SetpAt({"find", "search", "write", "copy"}) => page = before
  /\ pc = "copy" /\ target \in Eeproms => scratch[target] \in {mac, NoMac}
  /\ pc = "answer" => acked \subseteq {target} \cap Eeproms /\ \A e \in acked : page[e] = mac
  /\ op = "setp" => DOMAIN before = Eeproms /\ before = [e \in Eeproms |-> before[e]]

StoreInv == StoreHolds /\ ProgramsTarget /\ PageWhole

(* What StoresWhole needs besides: undisturbed, "mac setp" looks for an    *)
(* EEPROM from the beginning, and the one it finds does what it is told.   *)
CalmHolds ==
  /\ calm => bus = fitted
  /\ op = "setp" => mac \in Entered
  /\ SetpAt({"search"}) => /\ SerialNum = EEPROM43 \o [i \in 1 .. RomBits - FamilyBits |-> 0]
                           /\ LastDiscrepancy = RomBits /\ LastDevice = FALSE
  /\ calm => /\ SetpAt({"write", "copy", "answer"}) => target \in bus
             /\ SetpAt({"copy"}) => scratch[target] = mac
             /\ SetpAt({"answer"}) => prog = {target} \/ target \in acked

CalmInv == StoreInv /\ CalmHolds /\ FailsForWant

(* What BootAddress needs besides: how far an undisturbed scan has come.   *)
InFamily == Members(fitted, Families[fam])

ListUpto(f) ==
  IF f = 1 THEN << >>
  ELSE IF f = 2 THEN InOrder(Members(fitted, TEMP28))
  ELSE IF f = 3 THEN InOrder(Members(fitted, TEMP28)) \o InOrder(Members(fitted, TEMP42))
  ELSE ListOf(fitted)

SearchBegins ==
  /\ num = 0
  /\ SerialNum = Families[fam] \o [i \in 1 .. RomBits - FamilyBits |-> 0]
  /\ LastDiscrepancy = RomBits /\ LastDevice = FALSE

(* The search is at a device, and has counted those up to it.              *)
SearchAt ==
  /\ SerialNum \in bus
  /\ LastDiscrepancy = LastZero(SerialNum) /\ LastDevice = (LastDiscrepancy = 0)
  /\ num = Place(InFamily, SerialNum)

(* The first n devices of the list: sensors before EEPROMs.                *)
WellListed(n, f) ==
  /\ \A k \in 0 .. n - 1 : FamilySN[k] \in fitted /\ \E g \in 1 .. f : Kind(FamilySN[k]) = Kind(Families[g])
  /\ \A j, k \in 0 .. n - 1 : j < k /\ Kind(FamilySN[j]) = Kind(EEPROM43) => Kind(FamilySN[k]) = Kind(EEPROM43)

Scanning ==
  /\ fam \in 1 .. Len(Families) /\ dev = 0 /\ mac = FALLBACK
  /\ Listed(devsnum) = ListUpto(fam) /\ devsnum = Len(ListUpto(fam))
  /\ fam > 1 => found = (Members(fitted, TEMP28) # {})
  /\ pc = "find" => WellListed(devsnum, fam - 1)
  /\ pc = "search" => /\ WellListed(devsnum + num, fam)
                      /\ \A k \in 1 .. num : FamilySN[devsnum + k - 1] = InOrder(InFamily)[k]
                      /\ SearchBegins \/ SearchAt

Scanned ==
  /\ Listed(devsnum) = ListOf(fitted) /\ devsnum = Len(ListOf(fitted))
  /\ WellListed(devsnum, Len(Families))
  /\ found = (Members(fitted, TEMP28) # {})
  /\ dev \in 0 .. devsnum /\ mac = Generated(Listed(dev), page)
  /\ pc = "ep_init" => dev = devsnum

BootHolds ==
  /\ fitted \in Boards /\ DOMAIN FamilySN = 0 .. MAX_DEV1WIRE - 1
  /\ pc = "ep_init" => op = "boot"
  /\ op = "boot" /\ calm => /\ pc \in {"find", "search"} => Scanning
                            /\ pc \in {"device", "ep_init"} => Scanned

(* An address that was stored stays in an EEPROM of the board.             *)
StoredHolds ==
  /\ SetpAt({"find", "search", "write", "copy", "answer"}) => stored = NoMac
  /\ SetpAt({"answer"}) => prog \cup acked \subseteq fitted
  /\ stored # NoMac => \E e \in Members(fitted, EEPROM43) : page[e] = stored

BootInv == CalmInv /\ BootHolds /\ StoredHolds

(* What TypeOK needs besides.  A turn of the search goes on to a device    *)
(* behind the last one as long as that one is there, and so is one on the  *)
(* path that was not taken; it may begin again once for each event.        *)
Onward ==
  /\ SerialNum \in bus
  /\ LastDiscrepancy # 0 => SerialNum[LastDiscrepancy] = 0 /\ Splits(SerialNum, LastDiscrepancy)

PlacesLeft ==
  /\ op = "boot" /\ pc = "find" => devsnum <= Cardinality(fitted) * events + Len(ListUpto(fam))
  /\ op = "boot" /\ pc = "search" =>
       /\ num \in Nat /\ LastDevice = (LastDiscrepancy = 0)
       /\ devsnum + num <= Cardinality(fitted) * events + Len(ListUpto(fam))
                            + (IF Onward THEN Place(InFamily, SerialNum) ELSE 0)

ListHolds ==
  /\ DOMAIN FamilySN = 0 .. MAX_DEV1WIRE - 1
  /\ \A k \in 0 .. devsnum - 1 : FamilySN[k] \in Pool
  /\ op = "boot" /\ pc = "search" => \A k \in 0 .. devsnum + num - 1 : FamilySN[k] \in Pool
  /\ found => devsnum > 0
  /\ pc \in {"find", "search"} => op \in {"boot", "setp"}
  /\ pc \in {"write", "copy"} => target \in Pool

(* From ep_init on the endpoint has an address.                            *)
EndpointHolds ==
  (op = "boot" /\ pc \in {"find", "search", "device", "ep_init"}) \/ OwnWords \in { Words(m) : m \in Mac }

Typed == TypeOK /\ ListHolds /\ PlacesLeft /\ EndpointHolds

TypeInv == StoreInv /\ Typed
=============================================================================
