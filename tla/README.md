# Verification of the WR core firmware

TLA+ models of the software that runs on the soft processor of a White Rabbit
PTP core: a single-threaded C program (`wrc_main.c`) that drives a small network
interface, keeps time, runs a PTP daemon and offers a shell on a serial port.
The modules are translated from the C sources; TLC checks them on small
instances and TLAPS proves the theorems for every value of the constants.

All of this runs with `tlc -config X.cfg M` and `tlapm M.tla`. `PROJECT.json`
lists the runs, the lines each definition models, the seeded faults each
property rejects, the findings, the hazards and the theorems.

## 1. The system

One thread runs `main`: it initialises the hardware, finds the address of the
node on the 1-Wire bus, sets the mode to slave, starts the PTP daemon, executes a
boot script from EEPROM, and then loops: check the link, poll the network stack,
poll the shell (or draw the monitor), give the daemon a turn. Nothing in this
repository is preempted by other firmware, except by the SoftPLL's interrupt
handler. The concurrency is with the *hardware*: a DMA engine, a running clock, a
running timer, the link, the PLL, chips on I2C and 1-Wire buses that go on by
themselves; and with the user, the power supply and the reset.

| component | state it keeps | operations | interacts with |
|---|---|---|---|
| miNIC driver `dev/minic.c` | ring head, ring memory, TX buffer, counters | `minic_init`, `minic_poll_rx`, `minic_rx_frame`, `minic_tx_frame` | DMA engine over shared memory and registers; PPS generator for stamps |
| PPS generator `dev/pps_gen.c` | registers only | init, get, set and adjust time, output enable | a clock that runs on; minic, shell, daemon |
| mode control `wrc_ptp.c` | `ptp_mode`, `ptp_enabled`, `rtOpts` | `set_mode`, `start`, `stop`, `update` | SoftPLL, PPS output, timer, daemon; called by main and the shell |
| main loop `wrc_main.c` | `prev_link_state`, `wrc_ui_mode` | `wrc_check_link`, `ui_update` | everything |
| timer `dev/syscon.c` | a free-running 32-bit register | `timer_get_tics`, `timer_delay` | mode control, calibration |
| EEPROM `dev/eeprom.c` | calibration value, list of SFPs, boot script, all persistent | probe, read, write, erase, add, match, purge, script reading | I2C bus; `sfp`, `init`, `calibration` commands; boot script |
| I2C, SFP `dev/i2c.c`, `dev/sfp.c` | two GPIO pins per bus; the part number last read | start, stop, probe, byte transfer; `sfp detect`, `sfp match` | EEPROM, SFP |
| shell `shell/shell.c`, `cmd_*.c` | one command line buffer, editor position and state | line editing, tokenising, executing, boot script | UART, EEPROM, every component |
| environment `shell/environ.c` | 256-byte buffer of variables | get, set, init | shell |
| Etherbone stack `lib/` | `needIP`, own address, BOOTP timer and retries | IPv4 poll, ARP poll, ICMP, BOOTP | packet sockets; link state |
| 1-Wire `dev/onewire.c`, `sockitowm/` | device list, search state, strong pull-up | bus scan, MAC read and store, temperature | one bus; main, `mac`, `stat` |
| endpoint, packet filter `dev/endpoint.c`, `dev/ep_pfilter.c` | registers | init, enable, address, filter program | minic, `mac` |
| formatting, dates `lib/mprintf.c`, `lib/util.c` | none | `mprintf`, `sprintf`, `format_time` | console |
| bus discovery `dev/sdb.c` | base addresses | `sdb_find_devices` once, `sdb` | - |
| calibration `tests/measure_t24p.c` | none | `measure_t24p` | link, SoftPLL, network |
| monitor, UART, statistics | none | output | - |
| PTP daemon, SoftPLL, netif | in submodules without files | external | mode control, minic |

### What is hard, and what must be right

* **miNIC receive.** The ring is shared with an engine that runs between any two
  accesses. Three counters, kept on two sides of the bus, must describe the same
  ring; a valid bit in memory says a frame is complete, so words must be cleared
  before they are given back; an interrupt bit is cleared after a look at the
  ring. Right means: the caller gets whole frames, in order, at most once, and
  each frame it was notified of in the end.
* **miNIC transmit.** The engine goes from descriptor to descriptor, so what lies
  behind a frame decides whether it stops. Right means: it sends the frame asked
  for and nothing else.
* **Time.** Seconds in two registers and cycles in a third are read one by one
  while they run. A stamp is put together from a count captured when the frame
  passed and seconds read later. Right means: a time read is one the clock
  showed; a stamp names the second its frame passed in.
* **Mode changes** wait for a lock that may never come, on a timer that wraps,
  and can be aborted. Right means: reported mode, daemon, PLL and PPS output
  agree afterwards, whatever the outcome; the wait is bounded; no PPS without a
  lock; a slave that loses its link goes to holdover.
* **EEPROM and I2C.** Lists are written byte by byte over a bus driven line by
  line, and no result of a transfer is looked at. Right means: power failures
  and resets at any edge leave each list the old one or the new one, and the next
  start finds the chip again.
* **Shell.** One buffer is the line being edited, the line being executed and the
  line of a boot script, which may start itself. Right means: the keys edit a text
  with a cursor; the script runs in order and ends; the variables are a map.
* **Network.** Late, repeated and foreign BOOTP replies, a link that goes away.
* **1-Wire.** A search keeps its place in a tree of identifiers whose leaves come
  and go; an EEPROM is programmed by scratchpad, copy and answer. Right means: an
  undisturbed start-up takes the address stored before; a store is whole or
  reported as failed; the packet filter goes by the address in use.
* **Arithmetic.** Boundaries of formatting, dates, address sums, byte counters.

`PROJECT.json` lists these hazards one by one, at the line where each bites.

Some more, for which no property is claimed: the wait for `TX_IDLE`
(`dev/minic.c:286`) and the calibration's wait for the link
(`tests/measure_t24p.c:132`) have no timeout; a transmit stamp of another frame is
only traced (`minic.c:301`); a receive stamp keeps 31 bits of the seconds
(`minic.c:213`), a transmit stamp all; `pps_gen_adjust` (`dev/pps_gen.c:57`) may
move the clock between a frame and its stamp; the valid bit of the calibration
value is in the first byte written (`dev/eeprom.c:213`), so that a torn one is
taken; a link that is up at the first poll leaves its LED off (`wrc_main.c:83`);
leaving the monitor calls `shell_init`, which empties the environment
(`wrc_main.c:128`; `Leave` in `Shell` and `Clear` in `EnvMap` are that step).

## 2. Modules

| module | what it is | models |
|---|---|---|
| `FrameFifo` | abstract specification: a numbered FIFO with purge | what `minic_rx_frame` promises |
| `Minic` | receive path and DMA engine | `dev/minic.c` |
| `MinicTx` | transmit buffer | `dev/minic.c` |
| `MinicProofs` | the proofs of both | |
| `PpsGen`, `PpsGenProofs` | clock, reading loop, time stamps, time setting | `dev/pps_gen.c`, the stamps of `dev/minic.c`, `cmd_time.c` |
| `WrcMain`, `WrcMainProofs` | main loop, mode control, timer, mode-changing commands | `wrc_main.c`, `wrc_ptp.c`, `dev/syscon.c`, `cmd_mode/ptp/pll/calib.c` |
| `Net`, `NetProofs` | address, requests and answers of the Etherbone stack | `lib/*.c`, `cmd_ip.c`, the polls of `wrc_main.c` |
| `I2c` | line settings of every transfer, and the chip | `dev/i2c.c`, the GPIO of `dev/syscon.c` |
| `EepromStore` | abstract specification: two lists that change atomically | what the memory promises |
| `Eeprom`, `EepromProofs` | the calls on the memory, over `I2c`, and the proofs of both | `dev/eeprom.c`, `cmd_init.c`, `cmd_sfp.c` |
| `Sfp` | identification of the transceiver, over `I2c`; match | `dev/sfp.c`, `cmd_sfp.c`, `eeprom_match_sfp` |
| `EnvMap` | abstract specification: a map with a capacity | what the environment promises |
| `Environ` | the buffer of variables | `shell/environ.c` |
| `LineEditor` | abstract specification: a text with a cursor | what the shell promises |
| `Ranks` | the elements of a set of numbers by rank | the lines of a script, of `Shell` |
| `Shell`, `MCShell`, `ShellProofs` | editor, tokeniser, execution, boot script, over `Environ`, and the proofs of both | `shell/shell.c`, `eeprom_init_readcmd`, `ui_update` |
| `OneWire` | the search | `sockitowm/ownet.c` |
| `Pfilter` | filter program and its processor | `dev/ep_pfilter.c` |
| `MacAddr`, `MCMacAddr`, `MacAddrProofs` | start-up, `mac`, thermometer, endpoint, over `OneWire` and `Pfilter` | `dev/onewire.c`, `sockitowm/{findtype,eep43,temp28,owlnk,owtran}.c`, `cmd_mac.c`, `dev/endpoint.c` |
| `Induction` | least members, iteration, ranks and powers of two: what the proofs take from the natural numbers | |
| `Printf`, `Calendar`, `Sdb` | formatting, dates, discovery: functions, each with a reference definition | `lib/mprintf.c`, `lib/util.c`, `dev/sdb.c` |
| `Commands`, `MCCommands` | a session with one of `Printf`, `Calendar`, `Sdb`, `Sfp`, `MinicTx` | `cmd_time.c`, `cmd_sdb.c`, `cmd_sfp.c` |

Definitions named `<Operator>_<Fault>` are seeded faults: each is the operator
after it with a plausible mistake. They are used by nothing; substituting one
for its operator must make TLC reject the property `PROJECT.json` pairs it with.

### Minic

`mem` is `dma_rx_buf` in words; a word is zero, a descriptor or payload (byte
contents are abstracted to frame number and position). `head` is
`minic.rx_head` as an index. The driver is a program counter with one step per
access to a register or to the ring: `RxPoll` (174), `RxDesc` (179-188), `RxCopy`
(192-234), `RxZero` and `RxAvail` (`minic_rxbuf_free` and the new head), `RxCheck`
and `RxValid` (238-241), `RxFull` (243), `RxAck` (246), and `RxStop`, `RxSetup`,
`RxEnable` (`minic_new_rx_buffer`, whose return point is `after`). Copying and
clearing are one step each: their words belong to the driver, which is what
`CopyIntact`, `FreeWordsZero` and `IInv` establish rather than assume (the engine
writes wherever its own pointer is).

The engine is external. What is assumed of it is what the driver relies on: it
reserves a word for the descriptor, fills in the payload, stores the descriptor
and latches the interrupt bit at the end; it counts `RX_AVAIL` down and stops with
`RX_FULL` set when there is no word left; it sometimes loses a descriptor
(`HwFault`, the fault the comment at 133 speaks of). Whether an overflow raises
the interrupt is left open. A frame that does not fit is dropped whole.

`done`, `rd`, `out`, `faults` are history variables.

### MinicTx

`buf` is `dma_tx_buf` in words; of a word only what the engine would make of it as
a descriptor is kept: its top bit and a length. `minic_tx_frame` is the call up to
`TX_START` in one step, since the engine is idle then: the two `memset`, the copy,
the descriptor, and the word cleared at `tx_head + nwords` (281). `nwords` counts
half words and `tx_head` points to words, so that this word lies twice as far away
as the end of the frame; what ends a transmission are the 16 bytes cleared beyond
the *unpadded* size. `EngineSends` and `EngineStops` are the engine, which goes on
to the word behind a frame (external: it is what clearing that word relies on, the
repository does not contain the engine). A frame is at most half the buffer long,
as its callers' are (`lib/ipv4.c:44`). Not modelled: the frame identifier,
compared only to be traced, and the stamp itself, which is in `PpsGen`.

### PpsGen

`now`, `cyc` are the counters; `Tick` is one clock cycle and may fall between any
two register reads. The operands of `|` in lines 80 and 82 may be read in either
order, and each half separately. `GetTime` to `Check` are the loop; `Stamp` makes
a stamp's second as lines 208-211 and 307-310 of `dev/minic.c` do. `frame.sec`,
`frame.fresh`, `late`, `at`, `spent`, `tries`, `asked` are history variables. The
truncation of a receive stamp to 31 bits is left out (it bites in 2038). Writing
the time is one step: the counters take the three values together (`CNT_SET`).

Assumed: one turn of the loop takes less than half a second (`2 * MaxSpent < N`).
A real turn takes a few bus cycles of the 125 million in a second.

### WrcMain

`pc` is where the firmware is: `SetMode` is lines 81-113 of `wrc_ptp.c`, `PpsOff`
to `ModeSet` the rest, with `DelayStart` and `DelayWait` inside `timer_delay`;
`Boot`, `Started`, `Script`, `CheckLink`, `UiUpdate`, `Update` are `main`. `ret` is
the return address of a mode change. Commands that do not bear on mode, daemon,
PLL or user interface are `Nothing`.

External: the link and the lock change at any time; the timer makes at most one
step between two steps of the firmware (a tic is a millisecond). It is modelled
in the waits only: outside of them nobody holds an earlier reading. Each mode
change starts at any timer value, so every position of the wrap is covered. The
daemon may set the PLL up again while it runs as a slave.

`RoleAgrees` and `PpsFromLocked` name their exceptions: `pll init` and the
calibration command set the PLL up behind the back of the mode control
(`byHand`), and the PPS output is enabled from reset to the first mode change.

### Net

Built with `WITH_ETHERBONE=1`. `CheckLink` is the link check and the switch of the
main loop: a link that came up drops the address, one that stays up leads to
`Ipv4Poll` and `ArpPoll`; `Command` is `ip set` or anything else. One poll takes at
most one frame from the socket and then does one of three things: `Found` (a reply
with an address), `Train` (none yet: a request if one is due, and the timer), or
`AnswerEcho`. Frames are what the checks tell apart: a reply to this node, one that
fails a check of `process_bootp`, an echo or ARP request to an address. Their
layout and checksums, and `bootp_retry`, which only numbers the requests, are left
out. `WrcMain` and `Net` share the link check and nothing else: the mode control
never looks at the address, nor the stack at the mode, so they are not composed.

External: the link, the sockets (with a bound on what waits in them, and what
waits survives a link failure), and a server whose reply, once sent, may arrive at
any time, any number of times, or never, and may hold 0.0.0.0. `offered`, `chosen`,
`fresh`, `since` and `sent` are history.

### I2c and Eeprom

`I2c` writes every operation of `dev/i2c.c` as the sequence of line settings the
processor makes. `Performed` runs such a sequence against the memory chip, which
goes by the edges of the two lines and nothing else; `Along` gives all the states
it goes through, which is where a reset of the processor can leave it. The result
of `mi2c_put_byte` is 0 or 1 and never negative, so the checks `< 0` of
`eeprom.c:69` and `101` never end a call: a transfer that misses the chip is not
noticed, and a failed read yields 0xff (`init add` then overwrites the script,
`sfp add` starts the list anew). Nobody calls `mi2c_init` for this bus.

In `Eeprom`, `todo` holds the bytes a call has still to write, and `WriteByte`
does one, with the wait for the chip behind it (whose loop has no bound, line 117;
that the chip answers in the end is part of the action, and a chip that did not
would show as a deadlock). `PowerFails` is a power failure in the middle of a
byte, which is stored as a whole or not at all; `Reset` a reset of the processor
at any line setting of a transfer, with the chip left in it, and then the two
probes of the next start (`eeprom_present`), at which a chip that was storing may
be done or not. Such a reset may store a wrong byte, even at another address, and
the start after it may miss the chip or take it for present when it is not;
`lost` names the lists of whose contents nothing is promised then, until they are
emptied. (The lists are lost, too, after `init purge` and on a blank memory.)

Sizes are scaled: a byte has five bits in the run. The
addresses keep the code's formulas, the overlap of the two lists included: that
is why the passing run stores fewer entries than `SFPS_MAX`. A record of an SFP is
two bytes, what it says and its checksum. Page wrap of the chip and resets while
the boot script is read are left out. `Executed` reads the script as
`shell_boot_script` and `eeprom_init_readcmd` do, including the bound that is
compared with the offset in the script: commands behind the first
`SH_MAX_LINE_LEN + 1` bytes are never run, whereas `doc/wrpc.in:694` speaks of
adding commands without such a limit.

### Environ and Shell

`Environ` keeps the buffer byte by byte: `Removed`, `Fits` and `Put` are the three
parts of `env_set`, in that order, so that a value which does not fit costs the old
one. Bytes behind the end mark are forgotten. Names and values hold no byte 0xaa
or 0xff (ASCII from the command line).

`Shell` has one action per state of `shell_interactive`: `Prompt`, `Key` (one byte;
`Left` to `Insert` are its cases, `Idle` the ones that change nothing) and `Exec`;
`BootCommand` and `BootEnd` are a turn and the end of `shell_boot_script`; `Leave`
is the escape from a screen mode. `Moved` is `memmove`. `Tokens` cuts words as
`_shell_exec` does, with what is left in the last one. Of the commands, `set`,
`gui` and `init boot` are told apart, the ones that change this state; the others
belong to the other modules. Bytes of an earlier line stand as `STALE`, and the
line that was cut up in place is not read again.

`init boot` inside a script starts it again with the static `ptr` at zero. The run
that was interrupted finds nothing left when it resumes, and ends; so the nested
calls are not modelled, and `booted` starts again.

### OneWire, Pfilter and MacAddr

`OneWire` is the search of `ownet.c` over identifiers of a few bits: `owNext` walks
from the last discrepancy, one transaction, and a device may lose or regain
contact between two. The check byte of an identifier is taken as right, and the
branch bit of the family code and `LastFamilyDiscrepancy` are left out.

`Pfilter` assembles the program of `pfilter_init_default` instruction by
instruction, and runs it on frames (`Classify`, external: the processor described
at the head of `ep_pfilter.c`).

`MacAddr` composes them: `FindDevices` and `Search` are `findtype.c` (which stores a
device before it looks at its family, and makes one pass even with no room left);
start-up takes the address from the devices found (`get_persistent_mac`), sets the
endpoint and, with Etherbone, the filter; `MacSet`, `GetPersistent` and
`SetPersistent` are the `mac` command; `WriteScratch`, `CopyScratch`, `Answer` are
`eep43.c`, with the strong pull-up of `owlnk.c`; `TempStart` to `TempWait` are
`temp28.c`. A step of the program is a transaction of the bus; `LoseContact`,
`RegainContact`, `Reset` and failing transactions (`ok`) count as events.

What the model shows besides its properties: `mac setp` stores in the first EEPROM
found and start-up takes the last programmed one; an address that begins with
three zero bytes is taken for none; `getp` puts the low bytes of a sensor behind
the current vendor bytes; a page torn by a lost contact is read back as an
address, since the CRC is abstracted; after a loss of contact the search begins
again and lists devices twice, so that the list is overrun with few enough places
(`MacAssumption` gives each device its places). The test for the sensor's power
is the other way round than the comment in `temp28.c` says.

Not modelled: the CRCs; `set_mac_addr` writes two registers, one step here; and
what nothing calls (`temp42`, `temp10`, `owerr`, `owVerify`, overdrive,
`owProgramByte`, `owses`, `ReadScratch43`).

### Printf, Calendar, Sdb, Sfp, Commands

A format is a sequence of items (a plain character, or a directive with its flag
and width); directives the code does not know print as plain characters, the sign
goes out before the fill, and `sprintf` ignores width and sign, as in the code.
`Calendar` is the day arithmetic of `format_time`, for seconds below 2^32 (an
unsigned long, in the scaled word `LongBits`). `Sdb` is the walk over the tables,
in which an address 0 means not found; `find_device` returns nothing, and the
register that holds the callee's result is taken for its value.

`Sfp` reads 64 bytes in two transfers, of which the second gives no address; the
checksum is computed and `cmd_sfp` ignores it (`cmd_sfp.c:31`). Any transfer may
fail, and the processor be reset at any line setting. `MatchTurn` is a turn of
`eeprom_match_sfp`, with its signed index and its count in a byte, of which a count
of 128 to 254 never ends the loop. (`show` prints an error for a blank list; `sfp`
without arguments reads a NULL pointer. Both are outside of the model.)

`Commands` runs one of these, or the transmit path, in a session. They share
nothing, so their interleavings would show nothing else.

## 3. Runs

| run | configuration | result |
|---|---|---|
| `minic` | ring of 5 words, frames of 1-2 words, 4 frames, 1 lost descriptor; 52 552 states | all properties hold |
| `minic_ack` | the same without lost descriptors | `AckOnlyWhenDrained` violated |
| `pps_gen` | 8 cycles a second, 2 ns a cycle, seconds of two 1-bit halves, 3 cycles a turn; 385 214 states | hold |
| `time_set` | the same | `TimeSetAsAsked` violated |
| `wrc_main` | 4-bit timer, delay 2, timeouts 3 and 5; 65 786 states | hold |
| `net` | 2 addresses, a request every 3 polls, 1 frame in each socket; 339 270 states | hold |
| `eeprom` | bytes of 5 bits, 2 of 3 entries, 4 bytes of script, bound 6, 1 fault; 204 074 states | hold |
| `shell` | lines of 6 characters and 3 words, 12 bytes of environment, 3 scripts or no chip; 73 236 states | hold |
| `mac` | seven boards with up to 3 of 6 devices, 8 places, 1 event; 152 662 states | hold |
| `commands` | see below; 77 460 states | hold |
| `eeprom_layout` | a list of one entry, full | `RefinesStore` violated |
| `eeprom_match` | 1 fault | `MatchesIntact` violated |

Why the bounds are enough.

* *minic*: with five words and frames of two or three (descriptor included) the
  ring wraps inside a frame, is exactly full, overflows in the middle of a frame
  and before one, and holds two frames while a third arrives; four frames go
  round the ring about twice.
* *pps_gen*: every carry (cycles to low half, low to high) falls at every place of
  the loop; eight cycles distinguish the quarters of a second the stamps are
  decided by.
* *wrc_main*: the wait is longer than half the timer's range, so it wraps in
  every phase; the slave's timeout is 0.
* *net*: two addresses tell the old one from the new one; a period of three has a
  first, a middle and a last poll; a frame waits in each socket across every link
  failure. (Two frames in each socket, 4.7 million states, show nothing else.)
* *eeprom*: a fault at each line setting of each transfer of each call; two bytes
  of a size are torn; a script of two commands. Another fault after the first
  meets no call in progress. Bytes of five bits and an address that ends in zeros,
  as the real one does, let a chip that hangs pass for one that answers.
* *shell*: a full line, every place of the cursor, an arrow cut off in the middle;
  an environment that holds two entries, but not both of the larger kind; scripts
  that end at the bound, and with `init boot` on either side of it.
* *mac*: two sensors that differ in the first bit behind the family, two EEPROMs,
  a device of another family; one event anywhere in a start-up or a command.
* *commands*: numbers at zero, at each change in the number of digits and around
  the sign bit; every year from 1970 to 2148, with the ends of its February and
  of the year (a day has eight seconds); tables of two buses with two records
  each; transceivers that differ in the order of their bytes, lists with counts
  at the bound, beyond it, from the sign bit on and blank; frames shorter than,
  just below, at and above the shortest length, with every pattern of top bits.

### Findings

1. `minic_ack`: a frame completed between line 241 and line 246 of
   `dev/minic.c` has its interrupt bit cleared with it and waits until another
   frame arrives. `NotifiedIsTaken` and `RefinesFifo` show the limits of the
   damage: no order is lost and no frame is damaged.
2. `time_set`: `cmd_time.c:28` divides the nanoseconds by 8, and
   `pps_gen_set_time` divides by the clock period again.
3. `eeprom_layout`: the fourth SFP entry and the head of the boot script share
   five bytes (4212-4216).
4. `eeprom_match`: line 162 of `dev/eeprom.c` evaluates the error code for a wrong
   checksum without returning it.

## 4. Properties

*Minic.* `RingAgrees` (three counters, one ring), `FreeWordsZero` (no stale valid
bit), `CopyIntact` (whole frames under concurrent DMA), `NoSpuriousPurge` (the
"Weird" branch needs an engine fault or an overflow), `PurgeInv` (why: the
completed frames are one chain and the interrupt bit means one of them),
`RefinesFifo` (`Fifo!FifoSpec` under `sent <- done, taken <- rd`),
`NotifiedIsTaken` (liveness).

*MinicTx.* `SendsAsked`: the frame asked for, padded, and nothing behind it, except
behind a frame shorter than 52 bytes when a longer one has left a word there that
looks like a descriptor; TLC reaches that exception.

*PpsGen.* `SnapshotTrue`, `StampRight`, `TwoTurns` (the loop ends at its second
turn).

*WrcMain.* `RoleAgrees`, `PpsFromLocked`, `BoundedWait`; the action property
`StoppedForModeChange`; `ModeChangeEnds` and `Holdover` (liveness).

*Net.* `AddressOurs` (own and fresh, and the same in the Etherbone core),
`AnswersOurs` (nothing is answered for the address of before a link failure), the
action property `Paced`, and `Trained` (liveness).

*Eeprom.* `RefinesStore`: under the refinement mapping each byte written is a step
of `EepromStore` or a stutter, so the commit point of a call is a single byte.
`FoundSoon`: whatever a reset has left on the lines, no more starts than a byte has
bits free the chip, and the next one finds it. One start is not enough: a chip that
is sending zeros passes for one that acknowledges, and is left as it is. With the
real address and bytes of eight bits it can take five; with bytes of three bits,
which the run once had, it never takes more than one.

*Shell.* `TypeOK` (cursor within line within buffer), `EditsLine`
(refines `LineEditor`), `KeepsVariables` (refines `EnvMap`), `BootRunsInOrder`
(the commands run are those of the script in order, up to the bound),
`ShellReturns` (liveness; a script that starts itself is excepted).

*MacAddr.* `BootAddress` (an undisturbed start-up lists every device once and takes
the address stored before), `StoresWhole` (with `PageWhole`: no torn page without
a disturbance, one EEPROM touched, what is reported as stored is there),
`FilterFollowsMac` (after each change of the endpoint, frames are sorted by the
address in use), `OpReturns` (liveness).

*Commands.* `PrintsBack` (what is printed reads back as the arguments), `TimeShown`
(the civil calendar), `DevicesFound` (start-up finds what `sdb` lists first),
`DetectsAgain` (after a reset the detection after the next shows the transceiver
plugged in), `TakesMatching` (parameters in use belong to a counted entry with the
part number shown, with one failing transfer at most), `MatchEnds` (liveness, for
counts below 128).

### Fairness

* `Minic`: `WF(Driver)`. The daemon and the main loop poll the receive path
  without end, and no step of it waits. Nothing is assumed of the engine.
* `WrcMain`: weak fairness of the firmware's and the timer's steps, and strong
  fairness of the end of a script, since a script is finite. (A script that calls
  `init boot` runs itself again without end and is outside of this assumption.)
  Nothing is assumed of the link, the PLL, the user, or of a calibration, which
  waits without a timeout; `Holdover` says so.
* `Net`: weak fairness of the main loop, which none of its commands stops here.
  Of the network: if requests are made without end one is served with an address,
  and if a reply with an address can arrive again and again, one does (strong
  fairness). `Trained` also assumes that the link stays up in the end. It needs
  the repetition of requests: any of them may be lost.
* `Shell`: weak fairness of `Prompt`, `Exec`, `BootCommand`, `BootEnd`: the main loop
  polls the shell for ever. Of the user nothing.
* `MacAddr`: weak fairness of the program (one thread, no waiting but the one for a
  sensor) and of the devices: an EEPROM or a sensor that has begun finishes. A bus
  on which nobody answers reads as ones, which ends the wait for a sensor.
* `Commands`: weak fairness of the loop of `eeprom_match_sfp`.
* `PpsGen`, `Eeprom`, `MinicTx`: safety only.

## 5. Proofs

All are for every value of the constants the named assumptions allow.

* **MinicProofs** (`RxSizeAssumption`: a frame with its descriptor fits in the
  ring). The invariant `IInv` describes the ring by offset from the head:
  completed frames chained back to back (`Chained`, `FirstIsNext`), then the frame
  being received (`Filling`), then zeroed free words (`FreeWordsZero`).
  `RingAgrees` alone is not inductive: that `RxAvail` moves the head by the size
  read from a descriptor is right only because that descriptor is where the last
  frame ends. One lemma per action: steps that leave the ring alone (`QuietStep`),
  steps that abort a reception (`AbortStep`), and the ones that rotate the offsets
  (`AvailStep`) or extend the chain (`DoneStep`). From it: `RingSafe`,
  `StaleWordsCleared`, `CopiesWhole`, and `ImplementsFifo` (every step is a FIFO
  step or a stutter).
  What decides the purge comes on top. As long as no descriptor was lost and no
  frame dropped (`Undisturbed`), the completed frames reach from the head to the
  engine's pointer without a hole (`NoHoles`), and where the driver takes the
  interrupt bit at its word a completed frame waits (`FrameWaits`).
  `ChainInvariant`, and from it `PurgesForCause`.
  Of the transmit path (`TxAssumption`), `Laid` says what the buffer holds after a
  call; `TxInv` adds where the engine is: at the first descriptor before anything
  was sent, behind the frame after one, and a word there that is not blank only if
  an exception of `SendsAsked` is met. `dirty` makes that inductive: without it,
  nothing is known of the word behind the shortest frame.
* **PpsGenProofs** (`ClockAssumption`). `TurnAgrees`: within one turn at most one
  second begins, so what was read before the cycles is of the earlier second if
  the cycles are, and equal readings before and after settle which.
  `StampAgrees`: how far the clock has run since the frame passed. Theorems
  `TimeRead`, `StampOfItsSecond`, `NoThirdTurn`.
* **WrcMainProofs** (`TimerAssumption`: the longest wait fits in the timer).
  `Changing` says what holds during a mode change and makes the agreement of the
  roles inductive; `Paced` bounds the wait place by place, with the case of a
  delay held up by the wrap. Theorems `RolesAgree`, `PpsLocked`, `WaitIsBounded`
  (timeout + two delays + four tics), `DaemonStopped`.
* **NetProofs** (`NetAssumption`). `IInv` adds that the timer and the number of
  polls since the last request agree, that the timer is at rest while an address
  is held, and that replies in the socket were offered. Theorems `AddressHeld`,
  `AnswersHeld`, `RequestsPaced`.
* **ShellProofs** (`ShellAssumption`: a script is text whose last line is ended;
  `EnvironAssumption`: `tolower` of a lower-case letter is itself).
  `LineInBuffer`: for a buffer and scripts of any length. Lemmas `Inserted` and
  `Deleted` say what the two `memmove` calls do to a line; that a line read from
  the script has an end takes the least new line behind `ptr`.
  * `ScriptRuns`: the reader's position is always the end of a line, and as many
    commands were run as there are line ends up to it (`BootHolds`); the ranks of
    the line ends make that the order of the script.
  * `EditsText`: the buffer implements `LineEditor`. `GuiHolds` (a screen has an
    empty line behind it) and the bounds are the invariant; each key maps to one
    edit of the text left and right of the cursor, and the loops of the tokeniser
    give the words of the text, one by one, with all that is left in the last.
  * `SetsVariables`: the buffer of the environment implements `EnvMap`. `Kept` is
    the inductive invariant: entries with different names back to back, an end
    mark, zeros behind it. From it a look-up finds its own entry and no other
    (`EntryReads`), and what a removal moves (`Shifted`) and an append writes
    (`Appended`) is again such a buffer with one entry less or more.
* **MacAddrProofs** (`MacAssumption`). `PagesWhole`: for any devices, addresses and
  disturbances. The invariant `StoreInv` says that an EEPROM programs only while the
  command that chose it waits for the answer, with that command's address in its
  scratchpad and the current turned on (`ProgramsTarget`), and that until then
  every page is as before (`StoreHolds`). It needs nothing of the search: whatever
  device it has chosen, `Write43` goes to one that answers to its number.
  * `StoresUndisturbed` does need it: without a disturbance, the command that
    fails has found no EEPROM because there is none. `CalmInv` carries what a
    search that began within a family yields, by way of the least place at which
    two identifiers of the bus differ.
  * `StartsUp`: whatever devices a board has room for in its list, and whatever was
    disturbed before, an undisturbed start-up lists those of the three families once
    and takes the address that "mac setp" stored. A search goes through the tree of
    identifiers in the order of their numbers: the first turn finds the least device
    of the family (`SearchFirst`), each further one the least device behind the last
    (`SearchGoesOn`), and where no discrepancy is left there is none behind it
    (`SearchIsOver`). `SearchAt` in the invariant `BootInv` therefore says that the
    count of the scan is the place of the device it has reached (`Place`); with it the
    list grows family by family (`ListGrows`), and since the thermometers come before
    the EEPROMs (`WellListed`) the address made of a part of the list is known at
    each device (`GeneratedNext`). `StoredHolds` keeps the stored address in an
    EEPROM of the board through resets and losses of contact.
  * `Types`: the list of devices is never written behind its end, although a search
    that loses contact begins again behind devices it has already listed. `TypeInv`
    counts: what is in the list is at most one whole board for each event that there
    has been, the families that are finished, and the place the present search has
    come to (`PlacesLeft`), which is above zero only as long as the device it stopped
    at and one on the path not taken are there (`Onward`). `GoesBehind` shows that the
    search then goes on to a device behind that one, whatever has come or gone
    elsewhere; a loss of contact pays for the rest with its event. That is why
    `MacAssumption` asks for a place for each device and each of them once more at
    every event; a list without those places can be overrun. The addresses are made
    of halves that were given (`MacTorn`), and what the endpoint holds from its start
    on reads back as such an address (`MacOfWords`).
  * `FilterSorts`: the program of the filter, run word by word, sorts each frame as
    the comments of `ep_pfilter.c` say, for every address.
* **EepromProofs** (`I2cAssumption`, `LayoutAssumption`). Every operation of the
  driver is a sequence of line settings folded over the chip, so the proofs go the
  same way up: what one setting does (`SetSdaIn`, `FallsIs`, `SclUp`, `SclDown`),
  what a bit does (`PutBit`, `GotBit`), a byte (`PutBytePhase`, `PutByteExact`), an
  operation, a transfer. `Chip` is what holds at every setting, so also where a
  reset stops the processor (`ChipAlong`), `Rest` what holds between transfers, and
  `IInv` says that it does between any two steps of `Eeprom`: `NextKeeps` has a
  lemma for each. Theorem `Typed`.
  * `Found`: `Phase` counts the clock pulses since the chip began with a byte, and
    every operation moves it on by one pulse for each bit, whatever is put. A whole
    byte is as many pulses as there are phases; so a probe, whose start adds one,
    moves a chip that is out of step on by exactly one bit, until it reads a stop
    or an acknowledgement that is none and lets go (`ProbeRest`). `Turns` is what is
    left of the byte then, and each start lowers it (`RestartedLess`). That a single
    start may not be enough is why `FoundSoon` does not say that the next one finds
    the chip.
* **Induction** holds what these need of the natural numbers in a form without
  operator parameters: a set of numbers has a least member, a function defined by
  iteration has its values, and the elements of a finite set have ranks.

The inductive invariants (`IInv` of `Minic`, `PpsGen`, `WrcMain`, `Net`; `TxInv`,
`BootInv`, `TypeInv`) hold in the runs' instances, too; naming one in the cfg as an
`INVARIANT` shows it. `PurgeInv` and the shell's `TypeOK` are checked as they stand.

Only model-checked:

* liveness (`NotifiedIsTaken`, `ModeChangeEnds`, `Holdover`, `Trained`,
  `ShellReturns`, `OpReturns`, `MatchEnds`), which is out of the prover's reach;
* `PrintsBack`, `TimeShown` and `DevicesFound`: what a function that recurses over a
  format, over the years or over nested tables computes for every input;
* `RefinesStore` and, of `Sfp`, `DetectsAgain` and `TakesMatching`: each rests on what the chip makes of a sequence of line settings
  that is folded over the edges of the bus, bit by bit, with a fault anywhere in it.

## 6. What is left

Nothing is left whose modules are planned. What could be added, in the order of its use:

1. The transmit stamp with the frame identifier, once the time stamping unit is
   described somewhere: whether a stamp may be late, and what reading it clears,
   decides what can be claimed.
2. The transfers of `I2c` proved byte by byte for any width, and on top of them
   `RefinesStore`, `FoundSoon` and `TakesMatching`.
3. The scans of 1-Wire with a check byte that may be wrong.

## 7. Not modelled

The PTP daemon, the SoftPLL and the packet sockets are submodules without files
here and appear only as external actions. Register layouts (`include/hw`), boards,
start-up code, host tools, the monitor's output, the statistics and the UART have
no behaviour to check beyond their wording. `dev/dna.c` and `dev/timer.c` are not
compiled. `pps_gen_adjust` is called only by the daemon. Of the 1-Wire kit, what
nothing calls is left out, and so are the PHY and calibration registers of the
endpoint, which no other step reads.
