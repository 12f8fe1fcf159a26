---------------------------- MODULE EepromStore ----------------------------
(***************************************************************************)
(* What the configuration memory promises its user: a list of SFPs and a   *)
(* list of boot commands, which grow by one entry at a time or are emptied *)
(* at once, also when the power fails.  A list may be lost, and then it is *)
(* usable again after it has been emptied.                                 *)
(***************************************************************************)
EXTENDS Sequences

CONSTANTS Sfp, Command, Lost

VARIABLES db, script

Init == db = Lost /\ script = Lost

AddSfp == db # Lost /\ (\E s \in Sfp : db' = Append(db, s)) /\ UNCHANGED script

EraseSfps == db' = << >> /\ UNCHANGED script

AddCommand == script # Lost /\ (\E c \in Command : script' = Append(script, c)) /\ UNCHANGED db

EraseScript == script' = << >> /\ UNCHANGED db

Lose == db' \in {db, Lost} /\ script' \in {script, Lost}

Next == AddSfp \/ EraseSfps \/ AddCommand \/ EraseScript \/ Lose

StoreSpec == Init /\ [][Next]_<< db, script >>
=============================================================================
