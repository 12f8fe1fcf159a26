------------------------------ MODULE WrcMain ------------------------------
(***************************************************************************)
(* The main loop (wrc_main.c) and the mode of operation (wrc_ptp.c): the   *)
(* link check, the shell commands that change the mode, the wait for the   *)
(* PLL with its timeout on a timer that wraps, and the PTP daemon that is  *)
(* started and stopped around it.  The firmware is one thread; the link,   *)
(* the SoftPLL (an interrupt handler and hardware), the timer and the user *)
(* go on while it runs.                                                    *)
(***************************************************************************)
EXTENDS Integers

CONSTANTS
  W,          (* values of the timer register TVR: 2^32                     *)
  Tps,        (* TICS_PER_SECOND                                            *)
  TimeoutFM,  (* LOCK_TIMEOUT_FM, in tics                                   *)
  TimeoutGM   (* LOCK_TIMEOUT_GM                                            *)

(* What a wait may last beyond its timeout.  The longest wait fits in the  *)
(* timer.                                                                  *)
Slack == 2 * Tps + 4

ASSUME TimerAssumption ==
  /\ Tps \in Nat \ {0}
  /\ TimeoutFM \in Nat \ {0} /\ TimeoutGM \in Nat /\ TimeoutFM <= TimeoutGM
  /\ W \in Nat /\ TimeoutGM + Slack < W

VARIABLES
  pc,           (* where the firmware is                                    *)
  ret,          (* where wrc_ptp_set_mode returns to                        *)
  mode,         (* its argument                                             *)
  ptp_mode,     (* the mode reached, "unknown" while it changes             *)
  ptp_enabled,  (* the PTP daemon runs                                      *)
  rtOpts,       (* the daemon's options: the mode they are for              *)
  pll,          (* the mode the SoftPLL was last initialised for            *)
  locked,       (* spll_check_lock(0)                                       *)
  seen,         (* it was seen locked since it was initialised              *)
  byHand,       (* it was initialised by "pll init" or a calibration        *)
  pps,          (* the PPS output is enabled                                *)
  link,         (* the link, as the endpoint shows it                       *)
  prev,         (* prev_link_state                                          *)
  ui,           (* wrc_ui_mode                                              *)
  tics,         (* TVR                                                      *)
  start_tics, t_start,    (* locals of wrc_ptp_set_mode and timer_delay     *)
  waited,       (* tics since start_tics was read, counted up to W          *)
  lag           (* the timer has stepped since the firmware last did        *)

modeVars  == << ptp_mode, ptp_enabled, rtOpts >>
pllVars   == << pll, locked, seen, byHand >>
timerVars == << tics, start_tics, t_start, waited, lag >>
vars == << pc, ret, mode, modeVars, pllVars, pps, link, prev, ui, timerVars >>

Mode == {"gm", "master", "slave"}
PllMode == [gm |-> "grandmaster", master |-> "free", slave |-> "slave"]
LockTimeout == [gm |-> TimeoutGM, master |-> TimeoutFM, slave |-> 0]

(* After wrc_initialize; pps_gen_init leaves the PPS output enabled.       *)
Init ==
  /\ pc = "reset" /\ ret = "reset" /\ mode = "slave"
  /\ ptp_mode = "unknown" /\ ptp_enabled = FALSE /\ rtOpts = "slave"
  /\ pll = "none" /\ locked = FALSE /\ seen = FALSE /\ byHand = FALSE
  /\ pps = TRUE
  /\ link \in BOOLEAN /\ prev = -1
  /\ ui = "shell"
  /\ tics = 0 /\ start_tics = 0 /\ t_start = 0 /\ waited = 0 /\ lag = FALSE

Calibrating == {"callink", "callock", "calmeasure"}
Waiting == {"ppsoff", "lock", "delay", "wait", "expired", "escape"}

-----------------------------------------------------------------------------
(* What goes on around the firmware (external).  At most one timer step    *)
(* falls between two steps of the firmware.                                *)

TimerStep ==
  /\ pc \in Waiting /\ ~lag
  /\ tics' = IF tics = W - 1 THEN 0 ELSE tics + 1
  /\ waited' = IF waited < W THEN waited + 1 ELSE W
  /\ lag' = TRUE
  /\ UNCHANGED << pc, ret, mode, modeVars, pllVars, pps, link, prev, ui, start_tics, t_start >>

LinkChanges ==
  /\ link' = ~link
  /\ UNCHANGED << pc, ret, mode, modeVars, pllVars, pps, prev, ui, timerVars >>

PllLockChanges ==
  /\ pll # "none"
  /\ locked' = ~locked
  /\ UNCHANGED << pc, ret, mode, modeVars, pll, seen, byHand, pps, link, prev, ui, timerVars >>

World == TimerStep \/ LinkChanges \/ PllLockChanges

-----------------------------------------------------------------------------
(* wrc_ptp_set_mode.                                                       *)

SpllInit(m, hand) ==
  pll' = m /\ locked' = FALSE /\ seen' = FALSE /\ byHand' = hand

(* As in module Minic, <Operator>_<Fault> names a seeded fault.            *)
SetMode_StillRunning(m, back) ==
  /\ mode' = m /\ ret' = back /\ pc' = "ppsoff"
  /\ ptp_mode' = "unknown" /\ ptp_enabled' = ptp_enabled /\ rtOpts' = m
  /\ SpllInit(PllMode[m], FALSE)
  /\ tics' \in 0 .. W - 1 /\ start_tics' = tics' /\ waited' = 0 /\ lag' = FALSE
  /\ UNCHANGED << pps, link, prev, ui, t_start >>

SetMode_OldModeKept(m, back) ==
  /\ mode' = m /\ ret' = back /\ pc' = "ppsoff"
  /\ ptp_mode' = ptp_mode /\ ptp_enabled' = FALSE /\ rtOpts' = m
  /\ SpllInit(PllMode[m], FALSE)
  /\ tics' \in 0 .. W - 1 /\ start_tics' = tics' /\ waited' = 0 /\ lag' = FALSE
  /\ UNCHANGED << pps, link, prev, ui, t_start >>

(* 81-113: the daemon is stopped, its options are changed and the PLL is   *)
(* set up.  The timer has run on since it was last read.                   *)
SetMode(m, back) ==
  /\ mode' = m /\ ret' = back /\ pc' = "ppsoff"
  /\ ptp_mode' = "unknown" /\ ptp_enabled' = FALSE /\ rtOpts' = m
  /\ SpllInit(PllMode[m], FALSE)
  /\ tics' \in 0 .. W - 1 /\ start_tics' = tics' /\ waited' = 0 /\ lag' = FALSE
  /\ UNCHANGED << pps, link, prev, ui, t_start >>

(* A step of the wait, from one place to another.                          *)
Wait(from, to) ==
  /\ pc = from /\ pc' = to
  /\ lag' = FALSE
  /\ UNCHANGED << ret, mode, modeVars, pll, locked, byHand, link, prev, ui, tics, start_tics, waited >>

PpsOff_NotYet == Wait("ppsoff", "lock") /\ UNCHANGED << pps, seen, t_start >>

PpsOff == Wait("ppsoff", "lock") /\ pps' = FALSE /\ UNCHANGED << seen, t_start >>

(* 119: a slave does not wait.                                             *)
CheckLock ==
  /\ Wait("lock", IF locked \/ LockTimeout[mode] = 0 THEN "set" ELSE "delay")
  /\ seen' = (seen \/ locked)
  /\ UNCHANGED << pps, t_start >>

(* timer_delay(Tps): first past the end of the timer's range, so that the  *)
(* end of the delay can be compared without a wrap.                        *)
DelayStart_NoGuard ==
  /\ Wait("delay", "wait")
  /\ t_start' = tics
  /\ UNCHANGED << pps, seen >>

DelayStart ==
  /\ Wait("delay", IF tics > W - 1 - Tps THEN "delay" ELSE "wait")
  /\ t_start' = tics
  /\ UNCHANGED << pps, seen >>

DelayWait ==
  /\ Wait("wait", IF t_start + Tps > tics THEN "wait" ELSE "expired")
  /\ UNCHANGED << pps, seen, t_start >>

Elapsed_Signed == tics - start_tics

(* The difference of two unsigned words.                                   *)
Elapsed == IF start_tics <= tics THEN tics - start_tics ELSE tics - start_tics + W

(* The call returns; nobody looks at the timer until the next one.         *)
Done(m) ==
  /\ pc' = ret /\ ret' = "reset" /\ mode' = "slave"
  /\ ptp_mode' = m
  /\ tics' = 0 /\ start_tics' = 0 /\ t_start' = 0 /\ waited' = 0 /\ lag' = FALSE
  /\ UNCHANGED << ptp_enabled, rtOpts, pllVars, link, prev, ui >>

(* 123: -ETIMEDOUT.                                                        *)
TimedOut == pc = "expired" /\ Elapsed > LockTimeout[mode] /\ Done(ptp_mode) /\ UNCHANGED pps

NotTimedOut ==
  /\ Elapsed <= LockTimeout[mode]
  /\ Wait("expired", "escape")
  /\ UNCHANGED << pps, seen, t_start >>

(* 127: the escape key, -EINTR.                                            *)
Interrupted == pc = "escape" /\ Done(ptp_mode) /\ UNCHANGED pps

NotInterrupted == Wait("escape", "lock") /\ UNCHANGED << pps, seen, t_start >>

(* 134-139.                                                                *)
ModeSet == pc = "set" /\ Done(mode) /\ pps' = (pps \/ mode \in {"master", "gm"})

SetModeStep ==
  \/ PpsOff \/ CheckLock \/ DelayStart \/ DelayWait \/ TimedOut \/ NotTimedOut
  \/ Interrupted \/ NotInterrupted \/ ModeSet

-----------------------------------------------------------------------------
(* main and its loop.                                                      *)

Goto(from, to) ==
  /\ pc = from /\ pc' = to
  /\ UNCHANGED << ret, mode, pps, link, timerVars >>

Boot == pc = "reset" /\ SetMode("slave", "started")

Started ==
  /\ Goto("started", "script")
  /\ ptp_enabled' = TRUE
  /\ UNCHANGED << ptp_mode, rtOpts, pllVars, prev, ui >>

(* The commands that bear on the mode: "mode", "ptp start", "ptp stop",    *)
(* "pll init", "calibration", "gui", and all the others, which change      *)
(* nothing here.                                                           *)
ModeCommand(from, back) == pc = from /\ \E m \in Mode : SetMode(m, back)

PtpCommand(from, back) ==
  /\ Goto(from, back)
  /\ ptp_enabled' \in BOOLEAN
  /\ UNCHANGED << ptp_mode, rtOpts, pllVars, prev, ui >>

PllCommand(from, back) ==
  /\ Goto(from, back)
  /\ \E m \in Mode : SpllInit(PllMode[m], TRUE)
  /\ UNCHANGED << modeVars, prev, ui >>

CalibCommand(from, back) ==
  /\ pc = from /\ pc' = "callink" /\ ret' = back
  /\ UNCHANGED << mode, modeVars, pllVars, pps, link, prev, ui, timerVars >>

(* measure_t24p: it waits for the link, sets the PLL up as a slave's       *)
(* whatever the mode is, waits for its lock, and measures.                 *)
CalLink == link /\ Goto("callink", "callock") /\ SpllInit("slave", TRUE) /\ UNCHANGED << modeVars, prev, ui >>

CalLock == locked /\ Goto("callock", "calmeasure") /\ UNCHANGED << modeVars, pllVars, prev, ui >>

CalDone ==
  /\ pc = "calmeasure" /\ pc' = ret /\ ret' = "reset"
  /\ UNCHANGED << mode, modeVars, pllVars, pps, link, prev, ui, timerVars >>

Calibration == CalLink \/ CalLock \/ CalDone

(* "gui" and "stat cont"; both are left by the escape key (ui_update).     *)
UiCommand(from, back, u) ==
  /\ Goto(from, back)
  /\ ui' = u
  /\ UNCHANGED << modeVars, pllVars, prev >>

Nothing(from, back) == Goto(from, back) /\ UNCHANGED << modeVars, pllVars, prev, ui >>

(* shell_boot_script: any commands, then the loop.                         *)
Script ==
  \/ ModeCommand("script", "script") \/ PtpCommand("script", "script")
  \/ PllCommand("script", "script") \/ CalibCommand("script", "script")
  \/ UiCommand("script", "script", "gui")
  \/ Nothing("script", "link")

WentDown_OnlyFromUp == prev = 1 /\ ~link

(* wrc_check_link: any state but "down", the first one included.           *)
WentDown == prev # 0 /\ ~link

CheckLink ==
  /\ Goto("link", "ui")
  /\ prev' = IF link THEN 1 ELSE 0
  /\ IF WentDown /\ ptp_mode = "slave"
       THEN SpllInit("free", FALSE)
       ELSE UNCHANGED pllVars
  /\ UNCHANGED << modeVars, ui >>

UiUpdate ==
  \/ /\ ui = "shell"
     /\ \/ ModeCommand("ui", "update") \/ PtpCommand("ui", "update")
        \/ PllCommand("ui", "update") \/ CalibCommand("ui", "update")
        \/ UiCommand("ui", "update", "gui") \/ Nothing("ui", "update")
  \/ /\ ui = "gui"
     /\ UiCommand("ui", "update", "shell") \/ Nothing("ui", "update")

(* wrc_ptp_update: a turn of the daemon, if it is enabled.  The daemon     *)
(* (external) of a slave sets the PLL up again when it begins to lock to   *)
(* its master.                                                             *)
Update ==
  /\ Goto("update", "link")
  /\ \/ UNCHANGED pllVars
     \/ ptp_enabled /\ rtOpts = "slave" /\ link /\ SpllInit("slave", FALSE)
  /\ UNCHANGED << modeVars, prev, ui >>

Firmware == SetModeStep \/ Boot \/ Started \/ Script \/ CheckLink \/ UiUpdate \/ Update

Next == World \/ Firmware \/ Calibration

Spec == Init /\ [][Next]_vars

(* The processor runs, the timer runs, and a script ends.  Nothing says    *)
(* that a calibration does.                                                *)
FairSpec ==
  /\ Spec
  /\ WF_vars(Firmware) /\ WF_vars(TimerStep)
  /\ SF_vars(Nothing("script", "link"))

-----------------------------------------------------------------------------
(* Every variable has its type.                                            *)
TypeOK ==
  /\ pc \in Waiting \cup {"reset", "started", "script", "set", "link", "ui", "update"} \cup Calibrating
  /\ ret \in {"reset", "started", "script", "update"} /\ mode \in Mode
  /\ ptp_mode \in Mode \cup {"unknown"} /\ ptp_enabled \in BOOLEAN /\ rtOpts \in Mode
  /\ pll \in {"none", "grandmaster", "free", "slave"}
  /\ locked \in BOOLEAN /\ seen \in BOOLEAN /\ byHand \in BOOLEAN
  /\ pps \in BOOLEAN /\ link \in BOOLEAN /\ prev \in {-1, 0, 1} /\ ui \in {"shell", "gui"}
  /\ tics \in 0 .. W - 1 /\ start_tics \in 0 .. W - 1 /\ t_start \in 0 .. W - 1
  /\ waited \in 0 .. W /\ lag \in BOOLEAN

(* The mode the shell reports, the daemon's options and the PLL, changed   *)
(* at different moments of a mode change that may fail half way, agree:    *)
(* whenever a mode is reported, the daemon is set up for it, and so is the *)
(* PLL, unless the link went down under a slave or the user set the PLL up *)
(* by hand.                                                                *)
RoleAgrees ==
  ptp_mode # "unknown" =>
    /\ rtOpts = ptp_mode
    /\ pll = PllMode[ptp_mode] \/ byHand \/ (ptp_mode = "slave" /\ pll = "free")

(* A PPS comes out only of a master whose PLL was seen locked since it was *)
(* set up; but for the PPS enabled at reset, and for the moment between    *)
(* the set-up of the PLL and the write that disables the PPS.              *)
PpsFromLocked ==
  pps => \/ pc \in {"reset", "ppsoff"}
         \/ ptp_mode \in {"master", "gm"} /\ (seen \/ byHand)

(* Changing the mode takes the timeout and a delay at most, wherever the   *)
(* timer wraps meanwhile.                                                  *)
BoundedWait == pc \in Waiting => waited <= LockTimeout[mode] + Slack

(* The daemon does not run while the mode changes: it is stopped before    *)
(* and started only by a later command.                                    *)
StoppedForModeChange == [][ptp_mode' # ptp_mode => ~ptp_enabled']_vars

(* Changing the mode ends, if need be with an error, also if the PLL never *)
(* locks.                                                                  *)
ModeChangeEnds == pc \in Waiting ~> pc \notin Waiting

(* A slave that loses its link runs on a free-running PLL in the end, also *)
(* if it never had a link (prev_link_state is -1 at first); unless a       *)
(* calibration has begun, which waits with no timeout.                     *)
Holdover ==
  (ptp_mode = "slave" /\ prev # 0 /\ ~link)
    ~> (pll = "free" \/ link \/ ptp_mode # "slave" \/ byHand \/ pc \in Calibrating)

-----------------------------------------------------------------------------
(* The inductive invariant the proofs rest on.                             *)

(* A mode change in progress: no mode is reported, the daemon is stopped   *)
(* and its options and the PLL are those of the new mode; after the first  *)
(* steps the PPS output is off, and a master comes out of the wait only    *)
(* with a lock.                                                            *)
Changing ==
  /\ pc \in Waiting \cup {"set"} =>
       /\ ptp_mode = "unknown" /\ ~ptp_enabled /\ rtOpts = mode
       /\ pll = PllMode[mode] /\ ~byHand
       /\ pps => pc = "ppsoff"
  /\ pc = "set" => seen \/ mode = "slave"

(* A tic the firmware has not had a step since.                            *)
Lead == IF lag THEN 1 ELSE 0

(* How long the wait has lasted at most, place by place: the tics of one   *)
(* look at the lock, of a delay held up by the end of the timer's range,   *)
(* and of the delay itself, on top of the timeout.                         *)
Paced ==
  /\ pc \in Waiting => tics = start_tics + waited \/ tics = start_tics + waited - W
  /\ pc = "ppsoff" => waited <= Lead
  /\ pc = "lock" => waited <= LockTimeout[mode] + 1 + Lead
  /\ pc = "delay" =>
       \/ waited <= LockTimeout[mode] + 2 + Lead
       \/ tics >= W - Tps /\ waited <= LockTimeout[mode] + 3 + tics - (W - Tps)
       \/ lag /\ tics = 0 /\ waited <= LockTimeout[mode] + 3 + Tps
  /\ pc = "wait" =>
       /\ t_start <= W - 1 - Tps /\ t_start <= tics /\ tics < t_start + Tps + Lead
       /\ waited <= LockTimeout[mode] + 3 + Tps + tics - t_start
  /\ pc = "expired" => waited <= LockTimeout[mode] + 3 + 2 * Tps + Lead
  /\ pc = "escape" => waited <= LockTimeout[mode] + Lead

IInv == TypeOK /\ RoleAgrees /\ PpsFromLocked /\ Changing /\ Paced
=============================================================================
