--------------------------- MODULE WrcMainProofs ---------------------------
(***************************************************************************)
(* Proofs about module WrcMain: whatever the timeouts and the width of the *)
(* timer, a mode change leaves mode, daemon, PLL and PPS output consistent *)
(* and takes the timeout and a few delays at most.                         *)
(***************************************************************************)
EXTENDS WrcMain, TLAPS

USE TimerAssumption DEF Slack, modeVars, pllVars

(* The places from which a command can be given.                           *)
Quiet == {"reset", "started", "script", "link", "ui", "update"} \cup Calibrating

(* What the constants are.                                                 *)
LEMMA Constants ==
  /\ LockTimeout \in [Mode -> Nat] /\ PllMode \in [Mode -> {"grandmaster", "free", "slave"}]
  /\ \A m \in Mode : LockTimeout[m] + Slack < W
  /\ \A m \in Mode : LockTimeout[m] = 0 => m = "slave"
  /\ PllMode.slave = "slave"
  BY DEF LockTimeout, PllMode, Mode

(* The start of the firmware.                                              *)
LEMMA InitIInv == Init => IInv
<1>. SUFFICES ASSUME Init PROVE IInv  OBVIOUS
<1>. USE DEF Init
<1>1. TypeOK
  <2>1. 0 \in 0 .. W - 1 /\ 0 \in 0 .. W  OBVIOUS
  <2>2. ptp_enabled \in BOOLEAN /\ locked \in BOOLEAN /\ seen \in BOOLEAN /\ byHand \in BOOLEAN
        /\ pps \in BOOLEAN /\ link \in BOOLEAN /\ lag \in BOOLEAN
    BY Zenon
  <2>3. prev \in {-1, 0, 1}  OBVIOUS
  <2>. QED BY <2>1, <2>2, <2>3 DEF TypeOK, Mode
<1>2. RoleAgrees BY DEF RoleAgrees
<1>3. PpsFromLocked BY DEF PpsFromLocked
<1>4. Changing BY DEF Changing, Waiting
<1>5. Paced BY DEF Paced, Waiting
<1>. QED BY <1>1, <1>2, <1>3, <1>4, <1>5 DEF IInv

(* Beginning a mode change keeps the invariant, from wherever it is made.  *)
LEMMA SetModeInv ==
  ASSUME IInv, NEW m \in Mode, NEW back \in {"started", "script", "update"}, SetMode(m, back)
  PROVE  IInv'
<1>. USE Constants DEF SetMode, SpllInit
<1>1. TypeOK'
  <2>1. tics' \in 0 .. W - 1 /\ start_tics' \in 0 .. W - 1 /\ waited' \in 0 .. W
    OBVIOUS
  <2>2. pll' \in {"none", "grandmaster", "free", "slave"}
    OBVIOUS
  <2>3. ptp_enabled' \in BOOLEAN /\ locked' \in BOOLEAN /\ seen' \in BOOLEAN /\ byHand' \in BOOLEAN
        /\ lag' \in BOOLEAN
    OBVIOUS
  <2>. QED BY <2>1, <2>2, <2>3 DEF IInv, TypeOK, Waiting
<1>2. RoleAgrees' BY DEF RoleAgrees
<1>3. PpsFromLocked' BY DEF PpsFromLocked
<1>4. Changing' BY DEF Changing, Waiting
<1>5. Paced'
  <2>1. pc' = "ppsoff" /\ tics' = start_tics' /\ waited' = 0 /\ Lead' \in {0, 1}
    BY DEF Lead
  <2>2. tics' = start_tics' + waited'
    BY <1>1, <2>1 DEF TypeOK
  <2>3. waited' <= Lead'
    BY <2>1
  <2>. QED BY <2>1, <2>2, <2>3 DEF Paced
<1>. QED BY <1>1, <1>2, <1>3, <1>4, <1>5 DEF IInv

(* So do the timer, ...                                                    *)
LEMMA TimerInv == IInv /\ TimerStep => IInv'
<1>. SUFFICES ASSUME IInv, TimerStep PROVE IInv'  OBVIOUS
<1>. USE Constants
<1>0. TypeOK /\ lag = FALSE /\ lag' = TRUE /\ pc \in Waiting /\ pc' = pc /\ mode' = mode
  BY DEF IInv, TimerStep, TypeOK
<1>1. waited < W
  BY <1>0 DEF IInv, Paced, Lead, Waiting, TypeOK
<1>2. TypeOK'
  BY <1>0 DEF TimerStep, TypeOK
<1>3. RoleAgrees' BY DEF IInv, RoleAgrees, TimerStep
<1>4. PpsFromLocked' BY DEF IInv, PpsFromLocked, TimerStep
<1>5. Changing' BY DEF IInv, Changing, TimerStep
<1>6. Paced'
  <2>1. waited' = waited + 1 /\ start_tics' = start_tics /\ t_start' = t_start
    BY <1>0, <1>1 DEF TimerStep, TypeOK
  <2>2. tics' = tics + 1 \/ (tics = W - 1 /\ tics' = 0)
    BY DEF TimerStep
  <2>. USE <1>0, <2>1, <2>2 DEF Lead, TypeOK
  <2>3. Paced BY DEF IInv
  <2>4. tics' = start_tics' + waited' \/ tics' = start_tics' + waited' - W
    BY <2>3, <1>1 DEF Paced
  <2>5. CASE pc \in {"ppsoff", "lock", "expired", "escape"}
    BY <2>3, <2>4, <2>5 DEF Paced
  <2>6. CASE pc = "delay" BY <2>3, <2>4, <2>6 DEF Paced
  <2>7. CASE pc = "wait" BY <2>3, <2>4, <2>7 DEF Paced
  <2>. QED BY <2>5, <2>6, <2>7 DEF Waiting
<1>. QED BY <1>2, <1>3, <1>4, <1>5, <1>6 DEF IInv

(* ... the link and the lock of the PLL.                                   *)
LEMMA WorldInv == IInv /\ (LinkChanges \/ PllLockChanges) => IInv'
<1>. SUFFICES ASSUME IInv, LinkChanges \/ PllLockChanges PROVE IInv'  OBVIOUS
<1>. USE DEF LinkChanges, PllLockChanges, timerVars
<1>1. TypeOK'
  <2>1. link' \in BOOLEAN /\ locked' \in BOOLEAN
    BY Zenon DEF IInv, TypeOK
  <2>. QED BY <2>1 DEF IInv, TypeOK
<1>2. RoleAgrees' BY DEF IInv, RoleAgrees
<1>3. PpsFromLocked' BY DEF IInv, PpsFromLocked
<1>4. Changing' BY DEF IInv, Changing
<1>5. Paced' BY DEF IInv, Paced, Lead
<1>. QED BY <1>1, <1>2, <1>3, <1>4, <1>5 DEF IInv

(* The wait of wrc_ptp_set_mode.                                           *)
LEMMA WaitInv ==
  IInv /\ (PpsOff \/ CheckLock \/ DelayStart \/ DelayWait \/ NotTimedOut \/ NotInterrupted) => IInv'
<1>. SUFFICES ASSUME IInv, PpsOff \/ CheckLock \/ DelayStart \/ DelayWait \/ NotTimedOut \/ NotInterrupted
              PROVE IInv'
  OBVIOUS
<1>. USE Constants
<1>0. /\ TypeOK /\ pc \in Waiting \ {"set"}
      /\ pc' \in Waiting \cup {"set"} /\ lag' = FALSE
      /\ UNCHANGED << ret, mode, ptp_mode, ptp_enabled, rtOpts, pll, locked, byHand, link, prev, ui,
                      tics, start_tics, waited >>
  BY DEF IInv, PpsOff, CheckLock, DelayStart, DelayWait, NotTimedOut, NotInterrupted, Wait, Waiting
<1>1. seen' \in BOOLEAN /\ pps' \in BOOLEAN /\ (pps' => pps) /\ t_start' \in 0 .. W - 1
  <2>1. seen' = seen \/ seen' = (seen \/ locked)
    BY DEF PpsOff, CheckLock, DelayStart, DelayWait, NotTimedOut, NotInterrupted
  <2>2. seen' \in BOOLEAN
    BY Zenon, <2>1 DEF IInv, TypeOK
  <2>3. pps' = FALSE \/ pps' = pps
    BY DEF PpsOff, CheckLock, DelayStart, DelayWait, NotTimedOut, NotInterrupted
  <2>4. pps' \in BOOLEAN
    BY Zenon, <2>3 DEF IInv, TypeOK
  <2>6. pps' => pps
    BY <2>3
  <2>5. t_start' = tics \/ t_start' = t_start
    BY DEF PpsOff, CheckLock, DelayStart, DelayWait, NotTimedOut, NotInterrupted
  <2>. QED BY <2>2, <2>4, <2>5, <2>6 DEF IInv, TypeOK
<1>2. TypeOK'
  <2>1. /\ ptp_enabled' \in BOOLEAN /\ locked' \in BOOLEAN /\ byHand' \in BOOLEAN
        /\ link' \in BOOLEAN /\ lag' \in BOOLEAN
    BY Zenon, <1>0 DEF TypeOK
  <2>. QED BY <1>0, <1>1, <2>1 DEF TypeOK
<1>3. RoleAgrees' BY <1>0 DEF IInv, Changing, RoleAgrees
<1>4. ~pps'
  BY <1>0, <1>1 DEF IInv, Changing, Waiting, PpsOff, CheckLock, DelayStart, DelayWait, NotTimedOut,
     NotInterrupted, Wait
<1>5. Changing'
  <2>1. pc' = "set" => seen' \/ mode' = "slave"
    BY <1>0 DEF PpsOff, CheckLock, DelayStart, DelayWait, NotTimedOut, NotInterrupted, Wait, TypeOK
  <2>. QED BY <1>0, <1>4, <2>1 DEF IInv, Changing
<1>6. Paced'
  <2>. USE <1>0 DEF Lead, TypeOK
  <2>0. Paced BY DEF IInv
  <2>1. pc' \in Waiting => tics' = start_tics' + waited' \/ tics' = start_tics' + waited' - W
    BY <2>0 DEF Paced
  <2>2. CASE PpsOff BY <2>0, <2>1, <2>2 DEF Paced, PpsOff, Wait
  <2>3. CASE CheckLock BY <2>0, <2>1, <2>3 DEF Paced, CheckLock, Wait
  <2>4. CASE DelayStart BY <2>0, <2>1, <2>4 DEF Paced, DelayStart, Wait
  <2>5. CASE DelayWait BY <2>0, <2>1, <2>5 DEF Paced, DelayWait, Wait
  <2>6. CASE NotTimedOut
    <3>1. waited < W BY <2>0, <2>6 DEF Paced, NotTimedOut, Wait
    <3>2. Elapsed = waited BY <2>0, <2>6, <3>1 DEF Paced, NotTimedOut, Wait, Elapsed
    <3>. QED BY <2>1, <2>6, <3>2 DEF Paced, NotTimedOut, Wait
  <2>7. CASE NotInterrupted BY <2>0, <2>1, <2>7 DEF Paced, NotInterrupted, Wait
  <2>. QED BY <2>2, <2>3, <2>4, <2>5, <2>6, <2>7
<1>. QED BY <1>2, <1>3, <1>4, <1>5, <1>6 DEF IInv, PpsFromLocked

(* Its returns, with and without an error.                                 *)
LEMMA DoneInv == IInv /\ (TimedOut \/ Interrupted \/ ModeSet) => IInv'
<1>. SUFFICES ASSUME IInv, TimedOut \/ Interrupted \/ ModeSet PROVE IInv'  OBVIOUS
<1>. USE Constants DEF TimedOut, Interrupted, ModeSet, Done
<1>1. TypeOK'
  <2>1. pps' = pps \/ pps' = (pps \/ mode \in {"master", "gm"})
    OBVIOUS
  <2>2. pps' \in BOOLEAN
    BY Zenon, <2>1 DEF IInv, TypeOK
  <2>3. lag' \in BOOLEAN  BY Zenon
  <2>4. ret' \in {"reset", "started", "script", "update"} /\ mode' \in Mode /\ ptp_mode' \in Mode \cup {"unknown"}
        /\ pc' \in {"reset", "started", "script", "update"}
    BY DEF IInv, TypeOK, Mode
  <2>5. 0 \in 0 .. W - 1 /\ 0 \in 0 .. W  OBVIOUS
  <2>. QED BY <2>2, <2>3, <2>4, <2>5 DEF IInv, TypeOK
<1>2. RoleAgrees' BY DEF IInv, TypeOK, RoleAgrees, Changing, Waiting
<1>3. PpsFromLocked' BY DEF IInv, TypeOK, PpsFromLocked, Changing, Waiting, Mode
<1>4. pc' \in Quiet BY DEF IInv, TypeOK, Quiet
<1>5. Changing' BY <1>4 DEF Changing, Quiet, Waiting, Calibrating
<1>6. Paced' BY <1>4 DEF Paced, Quiet, Waiting, Calibrating
<1>. QED BY <1>1, <1>2, <1>3, <1>5, <1>6 DEF IInv

(* A step outside of the wait that sets neither the mode nor the PPS, and  *)
(* the PLL only by hand, for a slave, or to free running under a slave.    *)
LEMMA QuietInv ==
  ASSUME IInv, pc \in Quiet \ {"reset"}, TypeOK', pc' \in Quiet,
         UNCHANGED << mode, ptp_mode, rtOpts, pps, tics, start_tics, t_start, waited, lag >>,
         \/ UNCHANGED pllVars
         \/ byHand'
         \/ pll' = "slave" /\ rtOpts = "slave"
         \/ pll' = "free" /\ ptp_mode = "slave"
  PROVE  IInv'
<1>. USE Constants
<1>1. RoleAgrees' BY DEF IInv, RoleAgrees, TypeOK, Mode
<1>2. PpsFromLocked'
  BY DEF IInv, RoleAgrees, PpsFromLocked, TypeOK, Quiet, Waiting, Calibrating, Mode
<1>3. Changing' BY DEF Changing, Quiet, Waiting, Calibrating
<1>4. Paced' BY DEF Paced, Quiet, Waiting, Calibrating
<1>. QED BY <1>1, <1>2, <1>3, <1>4 DEF IInv

(* The commands that do not change the mode, from the script or the shell. *)
LEMMA CommandInv ==
  ASSUME IInv, NEW from \in {"script", "ui"}, NEW back \in {"script", "link", "update"}, NEW u \in {"shell", "gui"},
         \/ PtpCommand(from, back) \/ PllCommand(from, back) \/ UiCommand(from, back, u)
         \/ Nothing(from, back) \/ (back # "link" /\ CalibCommand(from, back))
  PROVE  IInv'
<1>. USE Constants DEF PtpCommand, PllCommand, UiCommand, Nothing, CalibCommand, Goto, timerVars, SpllInit
<1>1. TypeOK'
  <2>1. ptp_enabled' \in BOOLEAN
    BY Zenon DEF IInv, TypeOK
  <2>2. locked' \in BOOLEAN /\ seen' \in BOOLEAN /\ byHand' \in BOOLEAN
    BY Zenon DEF IInv, TypeOK
  <2>3. pll' \in {"none", "grandmaster", "free", "slave"}
    BY DEF IInv, TypeOK
  <2>4. pc' \in Waiting \cup {"reset", "started", "script", "set", "link", "ui", "update"} \cup Calibrating
    BY DEF Calibrating
  <2>5. ret' \in {"reset", "started", "script", "update"} /\ ui' \in {"shell", "gui"}
    BY DEF IInv, TypeOK
  <2>. QED BY <2>1, <2>2, <2>3, <2>4, <2>5 DEF IInv, TypeOK
<1>2. pc \in Quiet \ {"reset"} /\ pc' \in Quiet \ {"reset"} BY DEF Quiet, Calibrating
<1>3. UNCHANGED << mode, ptp_mode, rtOpts, pps, tics, start_tics, t_start, waited, lag >> OBVIOUS
<1>4. UNCHANGED pllVars \/ byHand' OBVIOUS
<1>. QED BY <1>1, <1>2, <1>3, <1>4, QuietInv

(* The three steps of a calibration.                                       *)
LEMMA CalibrationInv == IInv /\ Calibration => IInv'
<1>. SUFFICES ASSUME IInv, Calibration PROVE IInv'  OBVIOUS
<1>. USE DEF Calibration, CalLink, CalLock, CalDone, Goto, timerVars, SpllInit
<1>1. TypeOK'
  <2>1. locked' \in BOOLEAN /\ seen' \in BOOLEAN /\ byHand' \in BOOLEAN
    BY Zenon DEF IInv, TypeOK
  <2>2. pll' \in {"none", "grandmaster", "free", "slave"}
    BY DEF IInv, TypeOK
  <2>3. pc' \in Calibrating \cup {"reset", "started", "script", "update"}
        /\ ret' \in {"reset", "started", "script", "update"}
    BY DEF IInv, TypeOK, Calibrating
  <2>. QED BY <2>1, <2>2, <2>3 DEF IInv, TypeOK
<1>2. pc \in Quiet \ {"reset"} BY DEF Quiet, Calibrating
<1>3. UNCHANGED << mode, ptp_mode, rtOpts, pps, tics, start_tics, t_start, waited, lag >> OBVIOUS
<1>4. UNCHANGED pllVars \/ byHand' OBVIOUS
<1>5. pc' \in Quiet BY DEF IInv, TypeOK, Quiet, Calibrating
<1>. QED BY <1>1, <1>2, <1>3, <1>4, <1>5, QuietInv

(* The steps of main and its loop.                                         *)
LEMMA MainInv == IInv /\ (Boot \/ Started \/ Script \/ CheckLink \/ UiUpdate \/ Update) => IInv'
<1>. SUFFICES ASSUME IInv, Boot \/ Started \/ Script \/ CheckLink \/ UiUpdate \/ Update PROVE IInv'
  OBVIOUS
<1>1. CASE Boot BY <1>1, SetModeInv DEF Boot, Mode
<1>2. CASE Started
  <2>1. TypeOK'
    <3>1. ptp_enabled' \in BOOLEAN BY <1>2, Zenon DEF Started
    <3>. QED BY <1>2, <3>1 DEF IInv, TypeOK, Started, Goto, timerVars
  <2>. QED BY <1>2, <2>1, QuietInv DEF Started, Goto, timerVars, Quiet
<1>3. CASE Script
  <2>1. CASE ModeCommand("script", "script") BY <2>1, SetModeInv DEF ModeCommand
  <2>. QED BY <1>3, <2>1, CommandInv DEF Script
<1>4. CASE CheckLink
  <2>. USE <1>4 DEF CheckLink, Goto, timerVars, SpllInit
  <2>1. TypeOK'
    <3>1. locked' \in BOOLEAN /\ seen' \in BOOLEAN /\ byHand' \in BOOLEAN
      BY Zenon DEF IInv, TypeOK
    <3>2. pll' \in {"none", "grandmaster", "free", "slave"}
      BY DEF IInv, TypeOK
    <3>3. prev' \in {-1, 0, 1}
      OBVIOUS
    <3>. QED BY <3>1, <3>2, <3>3 DEF IInv, TypeOK
  <2>2. UNCHANGED pllVars \/ (pll' = "free" /\ ptp_mode = "slave") OBVIOUS
  <2>3. UNCHANGED << mode, ptp_mode, rtOpts, pps, tics, start_tics, t_start, waited, lag >> OBVIOUS
  <2>. QED BY <2>1, <2>2, <2>3, QuietInv DEF Quiet
<1>5. CASE UiUpdate
  <2>1. CASE ModeCommand("ui", "update") BY <2>1, SetModeInv DEF ModeCommand
  <2>. QED BY <1>5, <2>1, CommandInv DEF UiUpdate
<1>6. CASE Update
  <2>. USE <1>6 DEF Update, Goto, timerVars, SpllInit
  <2>1. TypeOK'
    <3>1. locked' \in BOOLEAN /\ seen' \in BOOLEAN /\ byHand' \in BOOLEAN
      BY Zenon DEF IInv, TypeOK
    <3>2. pll' \in {"none", "grandmaster", "free", "slave"}
      BY DEF IInv, TypeOK
    <3>. QED BY <3>1, <3>2 DEF IInv, TypeOK
  <2>2. UNCHANGED pllVars \/ (pll' = "slave" /\ rtOpts = "slave") OBVIOUS
  <2>3. UNCHANGED << mode, ptp_mode, rtOpts, pps, tics, start_tics, t_start, waited, lag >> OBVIOUS
  <2>. QED BY <2>1, <2>2, <2>3, QuietInv DEF Quiet
<1>. QED BY <1>1, <1>2, <1>3, <1>4, <1>5, <1>6

(* The invariant is inductive.                                             *)
LEMMA NextInv == IInv /\ [Next]_vars => IInv'
<1>. SUFFICES ASSUME IInv, [Next]_vars PROVE IInv'  OBVIOUS
<1>1. CASE UNCHANGED vars
  BY <1>1 DEF vars, timerVars, IInv, TypeOK, RoleAgrees, PpsFromLocked, Changing, Paced, Lead
<1>2. CASE Next
  BY <1>2, TimerInv, WorldInv, WaitInv, DoneInv, CalibrationInv, MainInv
     DEF Next, World, Firmware, SetModeStep
<1>. QED BY <1>1, <1>2

(* Mode, daemon, PLL and PPS output of the firmware, at every step.        *)
THEOREM ModeInvariant == Spec => []IInv
<1>. QED BY InitIInv, NextInv, PTL DEF Spec

(* The mode reported is the one the daemon and the PLL are set up for.     *)
THEOREM RolesAgree == Spec => []RoleAgrees
<1>1. IInv => RoleAgrees BY DEF IInv
<1>. QED BY <1>1, ModeInvariant, PTL

(* A PPS comes out only of a master seen locked.                           *)
THEOREM PpsLocked == Spec => []PpsFromLocked
<1>1. IInv => PpsFromLocked BY DEF IInv
<1>. QED BY <1>1, ModeInvariant, PTL

(* wrc_ptp_set_mode takes its timeout, two delays and four tics at most,   *)
(* for every timeout that fits in the timer and wherever the timer wraps.  *)
THEOREM WaitIsBounded == Spec => []BoundedWait
<1>1. IInv => BoundedWait
  <2>. SUFFICES ASSUME IInv, pc \in Waiting PROVE waited <= LockTimeout[mode] + Slack
    BY DEF BoundedWait
  <2>. USE Constants DEF IInv, TypeOK, Paced, Lead
  <2>1. CASE pc \in {"ppsoff", "lock", "escape", "expired"} BY <2>1
  <2>2. CASE pc = "delay" BY <2>2
  <2>3. CASE pc = "wait" BY <2>3
  <2>. QED BY <2>1, <2>2, <2>3 DEF Waiting
<1>. QED BY <1>1, ModeInvariant, PTL

(* No step changes the reported mode under a running daemon.               *)
THEOREM DaemonStopped == Spec => StoppedForModeChange
<1>1. IInv /\ [Next]_vars => [ptp_mode' # ptp_mode => ~ptp_enabled']_vars
  <2>. SUFFICES ASSUME IInv, Next, ptp_mode' # ptp_mode PROVE ~ptp_enabled'
    OBVIOUS
  <2>1. CASE SetModeStep
    <3>1. pc = "set" /\ ptp_enabled' = ptp_enabled
      BY <2>1 DEF SetModeStep, PpsOff, CheckLock, DelayStart, DelayWait, TimedOut, NotTimedOut,
         Interrupted, NotInterrupted, ModeSet, Wait, Done
    <3>. QED BY <3>1 DEF IInv, Changing
  <2>2. CASE Boot BY <2>2 DEF Boot, SetMode
  <2>3. CASE Script \/ UiUpdate
    BY <2>3 DEF Script, UiUpdate, ModeCommand, SetMode, PtpCommand, PllCommand, CalibCommand, UiCommand, Nothing
  <2>4. CASE World \/ Calibration \/ Started \/ CheckLink \/ Update
    BY <2>4 DEF World, TimerStep, LinkChanges, PllLockChanges, Calibration, CalLink, CalLock, CalDone,
       Started, CheckLink, Update
  <2>. QED BY <2>1, <2>2, <2>3, <2>4 DEF Next, Firmware
<1>. QED BY <1>1, ModeInvariant, PTL DEF Spec, StoppedForModeChange
=============================================================================
