------------------------------ MODULE Commands ------------------------------
(***************************************************************************)
(* What stands on its own beside the loop: the output routines, the date   *)
(* that "time" prints, the devices that start-up finds and "sdb" lists,    *)
(* the transceiver commands, and the sending of frames, which returns when *)
(* the engine is idle again.  A session uses one of them.                  *)
(***************************************************************************)
EXTENDS Calendar, Sdb, Sfp, MinicTx

CONSTANT Calls   (* of mprintf: a format and its arguments *)

VARIABLE session

vars == << session, printed, timeVars, busVars, sfpVars, txVars >>

Prints ==
  /\ session = "print" /\ UNCHANGED << session, timeVars, busVars, sfpVars, txVars >>
  /\ \/ printed = NoText /\ \E call \in Calls : Mprintf([NoText EXCEPT !.format = call.format, !.args = call.args])
     \/ printed # NoText /\ printed' = NoText

Time == session = "time" /\ TimeNext /\ UNCHANGED << session, printed, busVars, sfpVars, txVars >>

Discover == session = "bus" /\ sdb_find_devices /\ UNCHANGED << session, printed, timeVars, sfpVars, txVars >>

Transceiver == session = "sfp" /\ SfpNext /\ UNCHANGED << session, printed, timeVars, busVars, txVars >>

Transmits == session = "send" /\ TxNext /\ UNCHANGED << session, printed, timeVars, busVars, sfpVars >>

NoBus == map = << >> /\ bases = NotYet
NoTransceiver == SfpIdle(NoModule) /\ list = CHOOSE l \in Lists : TRUE

Init ==
  /\ PrintInit /\ TimeInit /\ TxInit
  /\ \/ session \in {"print", "time", "send"} /\ NoBus /\ NoTransceiver
     \/ session = "bus" /\ BusInit /\ NoTransceiver
     \/ session = "sfp" /\ NoBus /\ SfpInit

Next == Prints \/ Time \/ Discover \/ Transceiver \/ Transmits

(* The loop that looks for a transceiver's parameters runs until it ends.  *)
FairSpec == Init /\ [][Next]_vars /\ WF_vars(session = "sfp" /\ MatchRuns /\ Transceiver)
=============================================================================
