------------------------------- MODULE Eeprom -------------------------------
(***************************************************************************)
(* The configuration memory (dev/eeprom.c): a calibration value, a list of *)
(* SFPs with their parameters, and a script of shell commands run at boot, *)
(* in an I2C EEPROM that is written byte by byte.  At any point the power  *)
(* can fail, or the processor alone be reset, which leaves the chip where  *)
(* it is in a transfer; and any transfer can fail to reach the chip, which *)
(* nobody notices: the result of mi2c_put_byte is never negative.          *)
(***************************************************************************)
EXTENDS I2c, SequencesExt

CONSTANTS
  CalLen,    (* bytes of the calibration value: 4                           *)
  SFPS_MAX,  (* entries of the list of SFPs: 4                              *)
  Room,      (* bytes of script there is room for behind its size           *)
  BufSize,   (* SH_MAX_LINE_LEN: 80                                         *)
  Sfp,       (* part number and parameters of an SFP, a byte here           *)
  Cal,       (* calibration values, a byte each                             *)
  Name,      (* words of a command, a byte each                             *)
  MaxSfps,   (* bound: entries the user stores in the list                  *)
  MaxWords,  (* bound: words of a command                                   *)
  MaxFaults, (* bound: power failures, resets and transfers that fail       *)
  Lost

(* An SFP entry: what it says, and its checksum.                           *)
RecLen == 2

NewLine == Byte - 2
Space == Byte - 3

ASSUME LayoutAssumption ==
  /\ CalLen \in Nat \ {0} /\ SFPS_MAX \in Nat \ {0} /\ Room \in Nat
  /\ Width \in Nat /\ Width > 2 /\ SFPS_MAX < Blank
  /\ AddrBytes = 2 /\ Device \in 0 .. 2 ^ (Width - 1) - 1
  /\ BufSize \in 0 .. Blank - 1
  (* The entry a blank count points to lies outside of the bytes modelled. *)
  /\ SFPS_MAX * RecLen + 2 + Room <= CalLen + 1 + Blank * RecLen
  /\ CalLen + 1 + Blank * (RecLen + 1) < Byte * Byte
  /\ MaxSfps \in 0 .. SFPS_MAX /\ MaxWords \in Nat /\ MaxFaults \in Nat
  /\ Sfp \subseteq 0 .. Blank /\ Cal \subseteq 0 .. Blank /\ Name \subseteq 1 .. Space - 1

(* The addresses, from EE_BASE_CAL on.                                     *)
EE_BASE_SFP == CalLen
EE_BASE_INIT == SFPS_MAX * RecLen
Addr == 0 .. EE_BASE_INIT + 1 + Room

VARIABLES
  bus,        (* the lines and the chip                                     *)
  has_eeprom,
  todo,       (* the bytes left of the call in progress, with their         *)
              (* addresses                                                  *)
  job,        (* which call it is                                           *)
  lost,       (* lists whose contents the calls so far say nothing of       *)
  faults

vars == << bus, has_eeprom, todo, job, lost, faults >>

mem == bus.mem

-----------------------------------------------------------------------------
(* Reading.                                                                *)

(* The number of entries; a blank byte means none.                         *)
Count == IF mem[EE_BASE_SFP] = Blank THEN 0 ELSE mem[EE_BASE_SFP]

RecordAt(i) == EE_BASE_SFP + 1 + i * RecLen

(* The sum of the bytes, of which there is one.                            *)
Checksum(sfp) == sfp % Byte

GetSfp(i) == mem[RecordAt(i)]

Intact(i) == mem[RecordAt(i) + 1] = Checksum(GetSfp(i))

(* The entries eeprom_get_sfp returns as good: it compares the checksum,   *)
(* and goes on whatever the result is.                                     *)
Accepted == 0 .. Count - 1

Sfps == [i \in 1 .. Count |-> GetSfp(i - 1)]

Size == mem[EE_BASE_INIT] * Byte + mem[EE_BASE_INIT + 1]
BlankSize == Blank * Byte + Blank

ScriptByte(o) == mem[EE_BASE_INIT + 2 + o]

(* The offset of the end of the command at offset o: eeprom_init_readcmd   *)
(* gives up if it reads past the BufSize-th byte, of the script and not of *)
(* the command.                                                            *)
EndsOf(o) ==
  { e \in o .. Room - 1 : ScriptByte(e) = NewLine /\ e <= BufSize
                           /\ \A i \in o .. e - 1 : ScriptByte(i) # NewLine }

(* shell_boot_script: the commands executed, up to the first that cannot   *)
(* be read.                                                                *)
Executed ==
  LET From[o \in 0 .. Room] ==
        IF o >= Size \/ EndsOf(o) = {} THEN << >>
        ELSE LET e == CHOOSE x \in EndsOf(o) : TRUE
             IN << [i \in 1 .. e - o |-> ScriptByte(o + i - 1)] >> \o From[e + 1]
  IN From[0]

-----------------------------------------------------------------------------
(* The transfers.                                                          *)

Selects(at) ==
  << mi2c_start, mi2c_put_byte(2 * Device), mi2c_put_byte(at \div Byte), mi2c_put_byte(at % Byte) >>

(* One turn of the loop of eeprom_write, up to the wait for the chip.      *)
eeprom_write(at, v) == Selects(at) \o << mi2c_put_byte(v), mi2c_stop >>

eeprom_read(at, n) ==
  Selects(at) \o << mi2c_repeat_start, mi2c_put_byte(2 * Device + 1) >>
  \o [i \in 1 .. n |-> mi2c_get_byte(i = n)] \o << mi2c_stop >>

(* What it returns, behind four acknowledgements.                          *)
BytesOf(b, n) == [i \in 1 .. n |-> ByteFrom(b.got, 5 + (i - 1) * Width)]

(* Between transfers; each one gives its address first.                    *)
Quiet(b) ==
  LET c == [b EXCEPT !.got = << >>, !.deaf = FALSE] IN
  IF b.mode = "idle" THEN [c EXCEPT !.n = 0, !.byte = 0, !.at = 0] ELSE c

Free(b) == b = Released(b.mem)

(* A chip that is storing does not answer before it is done.               *)
Probe(b, done) == After([b EXCEPT !.got = << >>, !.busy = @ /\ ~done], mi2c_devprobe(Device))

(* It may be done before the first of the two probes, before the second or *)
(* after it.                                                               *)
eeprom_present(b, done) ==
  The({ IF Acknowledged(first) THEN first ELSE Probe(first, done <= 2) : first \in {Probe(b, done <= 1)} })

(* The wait at the end of a write goes on until the chip answers; from the *)
(* moment it is done, two turns are enough.                                *)
Waited(b) ==
  The({ IF Acknowledged(first) THEN first ELSE Probe(first, TRUE) : first \in {Probe(b, TRUE)} })

-----------------------------------------------------------------------------
(* The calls.                                                              *)

Writes(at, bytes) == [i \in 1 .. Len(bytes) |-> << at + i - 1, bytes[i] >>]

Word16(bytes) == bytes[1] * Byte + bytes[2]
Bytes16(n) == << (n \div Byte) % Byte, n % Byte >>

Fault == faults < MaxFaults /\ faults' = faults + 1

(* A transfer may fail to reach the chip.                                  *)
Reaches(deaf) == IF deaf THEN Fault ELSE UNCHANGED faults

(* The calls go on from a bus b.  Without an EEPROM they return at once.    *)
Call(b, name, writes) ==
  /\ bus' = b
  /\ IF has_eeprom THEN todo' = writes /\ job' = name ELSE UNCHANGED << todo, job >>
  /\ UNCHANGED << has_eeprom, lost, faults >>

(* A call that reads n bytes first, and goes by them; its list is lost if  *)
(* they are not those of the memory, and by a purge.                       *)
CallOn(b, name, at, n, deaf, list, Plan(_)) ==
  /\ IF has_eeprom
       THEN \E read \in {After([b EXCEPT !.deaf = deaf], eeprom_read(at, n))} :
              /\ bus' = Quiet(read)
              /\ todo' = Plan(BytesOf(read, n))
              /\ job' = IF todo' = << >> THEN "none" ELSE name
              /\ lost' = IF deaf \/ ~Free(b) \/ name = "init purge" THEN lost \cup {list} ELSE lost
              /\ Reaches(deaf)
       ELSE bus' = b /\ UNCHANGED << todo, job, lost, faults >>
  /\ UNCHANGED has_eeprom

(* cmd_init asks for the chip on its own before anything else.             *)
AfterProbe(Goes(_)) ==
  \E asked \in {Probe(bus, TRUE)} :
    IF Acknowledged(asked) THEN Goes(Quiet(asked))
    ELSE bus' = Quiet(asked) /\ UNCHANGED << has_eeprom, todo, job, lost, faults >>

SfpErase == todo = << >> /\ Call(bus, "sfp erase", Writes(EE_BASE_SFP, << 0 >>))

(* As in module Minic, <Operator>_<Fault> names a seeded fault.            *)
NextCount_NoWrap(n) == n + 1

(* sfpcount is a byte: behind that of a blank memory comes 0.              *)
NextCount(n) == (n + 1) % Byte

(* eeprom_get_sfp with add: the entry is written behind the last one, and  *)
(* then the count.                                                         *)
AddedSfp(sfp, n) ==
  IF n = SFPS_MAX THEN << >>
  ELSE Writes(RecordAt(n), << sfp, Checksum(sfp) >>) \o Writes(EE_BASE_SFP, << NextCount(n) >>)

SfpAdd(deaf) ==
  /\ todo = << >> /\ Count < MaxSfps
  /\ \E sfp \in Sfp :
       CallOn(bus, "sfp add", EE_BASE_SFP, 1, deaf, "db", LAMBDA bytes : AddedSfp(sfp, bytes[1]))

InitErase ==
  todo = << >> /\ AfterProbe(LAMBDA b : Call(b, "init erase", Writes(EE_BASE_INIT, Bytes16(0))))

UsedOf(size) == IF size = BlankSize THEN 0 ELSE size

(* The pattern is the first byte of a big-endian 0x00ff.  Of a size torn   *)
(* by a crash, only the bytes modelled are cleared.                        *)
Purged(used) ==
  Writes(EE_BASE_INIT + 2, [i \in 1 .. (IF used > Room THEN Room ELSE used) |-> 0])
  \o Writes(EE_BASE_INIT, Bytes16(BlankSize))

InitPurge(deaf) ==
  /\ todo = << >>
  /\ AfterProbe(LAMBDA b : CallOn(b, "init purge", EE_BASE_INIT, 2, deaf, "script",
                                 LAMBDA bytes : Purged(UsedOf(Word16(bytes)))))

(* The words of a command, each with the separator behind it.              *)
Separated(words) == [i \in 1 .. 2 * Len(words) |-> IF i % 2 = 1 THEN words[i \div 2 + 1] ELSE Space]

AddedCommand_SizeFirst(words, used) ==
  LET text == Separated(words) IN
  Writes(EE_BASE_INIT, Bytes16(used + Len(text)))
  \o Writes(EE_BASE_INIT + 2 + used, text)
  \o Writes(EE_BASE_INIT + 1 + used + Len(text), << NewLine >>)

(* The words, the new line in place of the last separator, and at last the *)
(* size.                                                                   *)
AddedCommand(words, used) ==
  LET text == Separated(words) IN
  Writes(EE_BASE_INIT + 2 + used, text)
  \o Writes(EE_BASE_INIT + 1 + used + Len(text), << NewLine >>)
  \o Writes(EE_BASE_INIT, Bytes16(used + Len(text)))

(* As long as there is room for it.                                        *)
InitAdd(deaf) ==
  /\ todo = << >>
  /\ \E words \in BoundedSeq(Name, MaxWords) \ {<< >>} :
       /\ UsedOf(Size) + 2 * Len(words) <= Room
       /\ AfterProbe(LAMBDA b : CallOn(b, "init add", EE_BASE_INIT, 2, deaf, "script",
                                      LAMBDA bytes : AddedCommand(words, UsedOf(Word16(bytes)))))

(* eeprom_phtrans, with the valid bit in the first byte written.           *)
PhTrans ==
  /\ todo = << >>
  /\ \E v \in Cal : Call(bus, "calibration", Writes(0, [i \in 1 .. CalLen |-> v]))

(* The list that is emptied by a call.                                     *)
Emptied == CASE job = "sfp erase"  -> {"db"}
             [] job = "init erase" -> {"script"}
             [] OTHER              -> {}

(* What a byte that does not arrive costs.                                 *)
Spoilt == CASE job = "sfp add"                    -> {"db"}
            [] job \in {"init add", "init erase"} -> {"script"}
            [] OTHER                              -> {}

(* No more is said of a call that has lost a byte.                         *)
WriteByte(deaf) ==
  LET arrives == ~deaf /\ Free(bus) IN
  /\ todo # << >>
  /\ \E b \in {After([bus EXCEPT !.deaf = deaf], eeprom_write(Head(todo)[1], Head(todo)[2]))} :
     \E answered \in {Waited([b EXCEPT !.deaf = FALSE])} : Acknowledged(answered) /\ bus' = Quiet(answered)
  /\ todo' = Tail(todo)
  /\ job' = IF todo' = << >> THEN "none" ELSE IF arrives THEN job ELSE "spoilt"
  /\ lost' = IF ~arrives THEN lost \cup Spoilt ELSE IF todo' = << >> THEN lost \ Emptied ELSE lost
  /\ Reaches(deaf)
  /\ UNCHANGED has_eeprom

-----------------------------------------------------------------------------
(* Losing power, and starting again.                                       *)

UnderWay ==
  IF todo # << >> THEN {eeprom_write(Head(todo)[1], Head(todo)[2])}
  ELSE {eeprom_read(EE_BASE_SFP, 1), eeprom_read(EE_BASE_INIT, 2)}

Starts(b, found) ==
  /\ bus' = Quiet(b) /\ has_eeprom' = found
  /\ todo' = << >> /\ job' = "none"

(* What the next start makes of a bus between transfers.                   *)
Restarted(b) == The({ Quiet([found EXCEPT !.busy = FALSE]) : found \in {eeprom_present(b, 1)} })

(* A byte is stored as a whole or not at all.                              *)
PowerFails ==
  /\ Fault /\ todo # << >>
  /\ \E stored \in {mem, After(bus, eeprom_write(Head(todo)[1], Head(todo)[2])).mem} :
       Starts(Released(stored), TRUE)
  /\ UNCHANGED lost

(* The lists with a byte that is then neither the old one nor the new one; *)
(* both if the chip has not been brought out of its transfer.              *)
Hit(b) ==
  LET mixed == { a \in Addr : b.mem[a] # mem[a] /\ (todo = << >> \/ << a, b.mem[a] >> # Head(todo)) } IN
  (IF b.mode # "idle" \/ \E a \in mixed : a \in EE_BASE_SFP .. EE_BASE_INIT - 1 THEN {"db"} ELSE {})
  \cup (IF b.mode # "idle" \/ \E a \in mixed : a >= EE_BASE_INIT THEN {"script"} ELSE {})

(* The lines stay as they were left, and so does the chip.                 *)
Reset ==
  /\ Fault
  /\ \E events \in UnderWay : \E b \in Along(bus, events) : \E done \in IF b.busy THEN 1 .. 3 ELSE {1} :
       \E found \in {eeprom_present(b, done)} :
         /\ Starts([found EXCEPT !.busy = FALSE], Acknowledged(found))
         /\ lost' = lost \cup Hit(found)

Init ==
  /\ bus = Released([a \in Addr |-> Blank]) /\ has_eeprom = TRUE
  /\ todo = << >> /\ job = "none"
  /\ lost = {"db", "script"} /\ faults = 0

Next ==
  \/ SfpErase \/ InitErase \/ PhTrans \/ PowerFails \/ Reset
  \/ \E deaf \in BOOLEAN : SfpAdd(deaf) \/ InitPurge(deaf) \/ InitAdd(deaf) \/ WriteByte(deaf)

Spec == Init /\ [][Next]_vars

-----------------------------------------------------------------------------
(* Between transfers both lines are let go, and a chip that is not done    *)
(* with the last one holds SDA down.                                       *)
TypeOK ==
  /\ mem \in [Addr -> 0 .. Blank]
  /\ bus.scl = 1 /\ bus.sda = 1 /\ (bus.mode = "idle" \/ bus.out = 0)
  /\ has_eeprom \in BOOLEAN
  /\ \A w \in ToSet(todo) : w \in Nat \X (0 .. Blank)
  /\ lost \subseteq {"db", "script"} /\ faults \in 0 .. MaxFaults

(* Both lists grow by whole entries and are emptied at once, at whatever   *)
(* byte the power fails; neither disturbs the other or the calibration     *)
(* value.  A list is lost only if it was never erased, or by "init purge", *)
(* or by a transfer that fails or meets a reset.                           *)
Store0 == INSTANCE EepromStore WITH
  Command <- { <<a>> : a \in Name } \cup { << a, Space, b >> : a \in Name, b \in Name },
  db <- IF "db" \in lost THEN Lost ELSE Sfps,
  script <- IF "script" \in lost THEN Lost ELSE Executed
RefinesStore == Store0!StoreSpec

(* Whatever a reset has left behind, no more starts than a byte has bits   *)
(* free the lines, with their probes and nothing else, and the next one    *)
(* finds the chip.                                                         *)
FoundSoon ==
  LET after[i \in 0 .. Width] == IF i = 0 THEN bus ELSE The({ Restarted(b) : b \in {after[i - 1]} })
  IN  \E k \in 0 .. Width : \E b \in {after[k]} : Free(b) /\ Acknowledged(eeprom_present(b, 1))

(* An entry used for a match has the right checksum (eeprom.c, 30).        *)
MatchesIntact == \A i \in Accepted : Intact(i)
=============================================================================
