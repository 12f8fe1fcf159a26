------------------------------ MODULE MCShell ------------------------------
(***************************************************************************)
(* A small shell: lines of six characters and three words, an environment  *)
(* of twelve bytes, which holds two entries, not both of the larger kind.   *)
(***************************************************************************)
EXTENDS Shell, TLC

MCLetters == {"D", "d", SPACE}
MCTyped   == {"D", SPACE}
MCLower   == [l \in MCLetters |-> IF l = "D" THEN "d" ELSE l]

MCCommands == (<< "d" >> :> "set") @@ (<< "d", "d" >> :> "gui") @@ (<< "d", "d", "d" >> :> "init")

(* A command that uses up the line, one that starts the script again, and  *)
(* one that would but ends behind the bound.                               *)
MCScripts == {
  << "d", SPACE, "d", SPACE, "d", NL >>,
  << "d", "d", "d", SPACE, "d", NL >>,
  << "d", "d", NL, "d", "d", "d", SPACE, "d", NL >> }
=============================================================================
