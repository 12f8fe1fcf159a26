------------------------------- MODULE Shell -------------------------------
(***************************************************************************)
(* The command shell (shell.c) with its line editor, its environment and   *)
(* the boot script, and the screens (wrc_main.c, ui_update) that take the  *)
(* keys away from it.                                                      *)
(*                                                                         *)
(* Bytes of cmd_buf that belong to an earlier line are forgotten, and      *)
(* stand as Stale.  Of the commands those that change the shell's own      *)
(* state are told apart; of "init" only "init boot".                       *)
(***************************************************************************)
EXTENDS Environ, Ranks, SequencesExt

CONSTANTS
  SH_MAX_LINE_LEN,
  SH_MAX_ARGS,
  Typed,       (* the letters that are typed (an input bound)               *)
  Commands,    (* cmds_list: the word of a command |-> what it does         *)
  Scripts,     (* the contents of the EEPROM: sequences of bytes            *)
  NoEeprom     (* ... or no chip                                            *)

ESC   == "ESC"      (* 27                                                   *)
BRA   == "["        (* 91                                                   *)
LEFT  == "D"        (* 68, KEY_LEFT with ESCAPE_FLAG                        *)
RIGHT == "C"        (* 67                                                   *)
ENTER == "CR"       (* 13                                                   *)
DEL   == "~"        (* 126, KEY_DELETE                                      *)
BS    == "DEL"      (* 127, KEY_BACKSPACE                                   *)
TAB   == "TAB"
SPACE == " "
NL    == "\n"
STALE == "?"

EE_RET_CORRPT == -3

Keys  == Typed \cup {ESC, BRA, RIGHT, LEFT, ENTER, DEL, BS, TAB}

ASSUME ShellAssumption ==
  /\ SH_MAX_LINE_LEN \in Nat \ {0} /\ SH_MAX_ARGS \in Nat \ {0}
  /\ SPACE \in Typed /\ Typed \subseteq Letters
  /\ {ESC, BRA, RIGHT, ENTER, DEL, BS, TAB, NL, STALE} \cap Letters = {}
  /\ Scripts \subseteq Seq(Letters \cup {NL}) /\ NoEeprom \notin Scripts
  /\ \A text \in Scripts : text # << >> => text[Len(text)] = NL

VARIABLES
  cmd_buf, cmd_pos, cmd_len,
  state,        (* SH_PROMPT, SH_INPUT or SH_EXEC                           *)
  escape,       (* current_key is ESCAPE_FLAG, and otherwise 0              *)
  ui,           (* wrc_ui_mode                                              *)
  eeprom,       (* what the chip holds as a script                          *)
  boot,         (* shell_boot_script is running                             *)
  ptr,          (* of eeprom_init_readcmd, without the two bytes of "used"  *)
  booted,       (* the commands run since the script was last started       *)
  ran           (* the words of the line that ran, until the next prompt    *)

editVars == << cmd_buf, cmd_pos, cmd_len >>
bootVars == << eeprom, boot, ptr, booted >>
vars == << env_buf, editVars, state, escape, ui, bootVars, ran >>

Line == 0 .. SH_MAX_LINE_LEN

Blank == [i \in Line |-> STALE]

(* After main has called shell_init; it goes on with the boot script.  The *)
(* buffers are static.                                                     *)
Init ==
  /\ env_buf = EnvInit
  /\ cmd_buf = Blank /\ cmd_pos = 0 /\ cmd_len = 0
  /\ state = "prompt" /\ escape = FALSE /\ ui = "shell"
  /\ eeprom \in Scripts \cup {NoEeprom}
  /\ boot = TRUE /\ ptr = 0 /\ booted = << >>
  /\ ran = << >>

(***************************************************************************)
(* Editing.                                                                *)
(***************************************************************************)
(* memmove within cmd_buf.                                                 *)
Moved(to, from, n) == [i \in Line |-> IF i \in to .. to + n - 1 THEN cmd_buf[i - to + from] ELSE cmd_buf[i]]

insert_NoLimit(c) ==
  /\ cmd_buf' = [Moved(cmd_pos + 1, cmd_pos, cmd_len - cmd_pos) EXCEPT ![cmd_pos] = c]
  /\ cmd_pos' = cmd_pos + 1
  /\ cmd_len' = cmd_len + 1

insert_OneShort(c) ==
  /\ cmd_len < SH_MAX_LINE_LEN
  /\ cmd_buf' = [Moved(cmd_pos + 1, cmd_pos, cmd_len - cmd_pos - 1) EXCEPT ![cmd_pos] = c]
  /\ cmd_pos' = cmd_pos + 1
  /\ cmd_len' = cmd_len + 1

insert(c) ==
  /\ cmd_len < SH_MAX_LINE_LEN
  /\ cmd_buf' = [Moved(cmd_pos + 1, cmd_pos, cmd_len - cmd_pos) EXCEPT ![cmd_pos] = c]
  /\ cmd_pos' = cmd_pos + 1
  /\ cmd_len' = cmd_len + 1

delete(where) ==
  /\ cmd_buf' = Moved(where, where + 1, cmd_len - where)
  /\ cmd_len' = cmd_len - 1

(* What a key does, with or without ESCAPE_FLAG in front of it.            *)
Left      == escape /\ cmd_pos > 0 /\ cmd_pos' = cmd_pos - 1 /\ UNCHANGED << cmd_buf, cmd_len, state >>
Right     == escape /\ cmd_pos < cmd_len /\ cmd_pos' = cmd_pos + 1 /\ UNCHANGED << cmd_buf, cmd_len, state >>
Enter     == ~escape /\ state' = "exec" /\ UNCHANGED editVars
Delete    == ~escape /\ cmd_pos # cmd_len /\ delete(cmd_pos) /\ UNCHANGED << cmd_pos, state >>
Backspace == ~escape /\ cmd_pos > 0 /\ delete(cmd_pos - 1) /\ cmd_pos' = cmd_pos - 1 /\ UNCHANGED state
Insert(c) == ~escape /\ insert(c) /\ UNCHANGED state

Acts(c) ==
  \/ c = LEFT  /\ Left
  \/ c = RIGHT /\ Right
  \/ c = ENTER /\ Enter
  \/ c = DEL   /\ Delete
  \/ c = BS    /\ Backspace
  \/ c \in Typed /\ Insert(c)

(* A key that acts on nothing is dropped.                                  *)
Idle(c) ==
  /\ \/ c = LEFT /\ escape /\ cmd_pos = 0
     \/ c = RIGHT /\ escape /\ cmd_pos = cmd_len
     \/ c \in {ENTER, DEL, BS} /\ escape
     \/ c = DEL /\ ~escape /\ cmd_pos = cmd_len
     \/ c = BS /\ ~escape /\ cmd_pos = 0
     \/ c = TAB
     \/ c \in Typed /\ (IF escape THEN c # LEFT ELSE cmd_len >= SH_MAX_LINE_LEN)
  /\ UNCHANGED << editVars, state >>

(* SH_INPUT: one byte from the UART.  The bytes of an arrow that are       *)
(* letters themselves are enumerated only behind an escape (an input       *)
(* bound), unless they are among the Letters.                              *)
Key(c) ==
  /\ ui = "shell" /\ ~boot /\ state = "input"
  /\ c \in {BRA, RIGHT} => escape
  /\ IF c = ESC \/ (escape /\ c = BRA)
       THEN escape' = TRUE /\ UNCHANGED << editVars, state >>
       ELSE escape' = FALSE /\ (Acts(c) \/ Idle(c))
  /\ UNCHANGED << env_buf, ui, bootVars, ran >>

Prompt ==
  /\ ui = "shell" /\ ~boot /\ state = "prompt"
  /\ cmd_buf' = Blank /\ cmd_pos' = 0 /\ cmd_len' = 0 /\ state' = "input"
  /\ ran' = << >>
  /\ UNCHANGED << env_buf, escape, ui, bootVars >>

(***************************************************************************)
(* Running a line.                                                         *)
(***************************************************************************)
(* The loops of _shell_exec over what lies between two words, and over a   *)
(* word, in a text that ends at n.                                         *)
Skip(text, n, i) ==
  CHOOSE j \in i .. n : (j = n \/ text[j] # SPACE) /\ \A h \in i .. j - 1 : text[h] = SPACE

Pass(text, n, i) ==
  CHOOSE j \in i .. n : (j = n \/ text[j] = SPACE) /\ \A h \in i .. j - 1 : text[h] # SPACE

(* _shell_exec: the words of the text.  The last one that still fits is    *)
(* not ended, and keeps the rest of the line.                              *)
Tokens(text, n) ==
  LET tokptr[k \in 1 .. SH_MAX_ARGS] ==
        Skip(text, n, IF k = 1 THEN 0 ELSE Pass(text, n, tokptr[k - 1]))
      Stop(k) == IF k = SH_MAX_ARGS THEN n ELSE Pass(text, n, tokptr[k])
  IN  [k \in 1 .. Cardinality({ k \in 1 .. SH_MAX_ARGS : tokptr[k] < n }) |->
        [i \in 1 .. Stop(k) - tokptr[k] |-> text[tokptr[k] + i - 1]]]

Command(args) ==
  IF args # << >> /\ Fold(args[1]) \in DOMAIN Commands THEN Commands[Fold(args[1])] ELSE "none"

StartBoot_PtrStays ==
  /\ boot' = TRUE
  /\ UNCHANGED ptr
  /\ booted' = << >>

StartBoot ==
  /\ boot' = TRUE
  /\ ptr' = 0
  /\ booted' = << >>

(* A nested start of the script begins it anew: the static ptr is shared,  *)
(* so that the run that was interrupted has nothing left when it resumes.  *)
Run(args) ==
  LET cmd == Command(args) IN
  /\ ran' = args
  /\ env_buf' = IF cmd = "set" /\ Len(args) >= 3 THEN EnvSet(env_buf, args[2], args[3]) ELSE env_buf
  /\ ui' = IF cmd = "gui" THEN "gui" ELSE ui
  /\ eeprom' = eeprom

StartsBoot(args) == Command(args) = "init" /\ Len(args) >= 2

BootsAgain(args) == StartsBoot(args) /\ eeprom # NoEeprom

(* SH_EXEC.  The line is cut up in place, and not read again.              *)
Exec ==
  /\ ui = "shell" /\ ~boot /\ state = "exec"
  /\ \E args \in { Tokens(cmd_buf, cmd_len) } :
     /\ Run(args)
     /\ IF BootsAgain(args)
          THEN StartBoot /\ UNCHANGED << editVars, state >>
          ELSE state' = "prompt" /\ UNCHANGED << editVars, boot, ptr, booted >>
  /\ UNCHANGED escape

(***************************************************************************)
(* The boot script.                                                        *)
(***************************************************************************)
(* eeprom_init_readcmd: from ptr to the end of the line.  The bound on the *)
(* line is compared with the place in the script.                          *)
LineEnd(p) == CHOOSE i \in p .. Len(eeprom) - 1 :
                eeprom[i + 1] = NL /\ \A j \in p .. i - 1 : eeprom[j + 1] # NL

ReadsLine(p) == eeprom # NoEeprom /\ p < Len(eeprom) /\ LineEnd(p) <= SH_MAX_LINE_LEN

BootCommand ==
  /\ boot /\ ReadsLine(ptr)
  /\ LET end  == LineEnd(ptr)
         line == [i \in 0 .. end - ptr - 1 |-> eeprom[ptr + i + 1]]
     IN  \E args \in { Tokens(line, end - ptr) } :
         /\ cmd_buf' = [i \in Line |-> IF i \in DOMAIN line THEN line[i] ELSE STALE]
         /\ cmd_len' = end - ptr + 1
         /\ Run(args)
         /\ IF BootsAgain(args)
              THEN StartBoot
              ELSE /\ ptr' = end + 1
                   /\ booted' = Append(booted, SubSeq(eeprom, ptr + 1, end))
                   /\ boot' = boot
  /\ UNCHANGED << cmd_pos, state, escape >>

BootEnd_TriesAgain ==
  /\ boot /\ ~ReadsLine(ptr)
  /\ IF eeprom # NoEeprom /\ ptr < Len(eeprom)
       THEN StartBoot /\ cmd_len' = EE_RET_CORRPT
       ELSE boot' = FALSE /\ cmd_len' = 0 /\ UNCHANGED << ptr, booted >>
  /\ state' = "prompt"
  /\ UNCHANGED << env_buf, cmd_buf, cmd_pos, escape, ui, eeprom, ran >>

(* No chip, no more commands, or one that ends too far behind.             *)
BootEnd ==
  /\ boot /\ ~ReadsLine(ptr)
  /\ boot' = FALSE
  /\ cmd_len' = IF eeprom = NoEeprom THEN cmd_len ELSE IF ptr < Len(eeprom) THEN EE_RET_CORRPT ELSE 0
  /\ state' = "prompt"
  /\ UNCHANGED << env_buf, cmd_buf, cmd_pos, escape, ui, eeprom, ptr, booted, ran >>

(***************************************************************************)
(* ui_update in a screen mode: only an escape counts, and it calls         *)
(* shell_init.                                                             *)
(***************************************************************************)
Leave ==
  /\ ui = "gui" /\ ~boot
  /\ ui' = "shell"
  /\ env_buf' = EnvInit
  /\ cmd_pos' = 0 /\ cmd_len' = 0 /\ state' = "prompt"
  /\ UNCHANGED << cmd_buf, escape, bootVars, ran >>

Next ==
  \/ \E c \in Keys : Key(c)
  \/ Prompt \/ Exec \/ BootCommand \/ BootEnd \/ Leave

(* The main loop calls ui_update for ever; nobody has to press a key.      *)
Spec == Init /\ [][Next]_vars
FairSpec == Spec /\ WF_vars(Prompt) /\ WF_vars(Exec) /\ WF_vars(BootCommand) /\ WF_vars(BootEnd)

(***************************************************************************)
(* Properties.                                                             *)
(***************************************************************************)
(* The cursor is within the line and the line within its buffer, whatever  *)
(* is typed and whatever the script holds; a line that is edited has no    *)
(* byte that was not typed into it (memmove moves exactly the rest of the  *)
(* line); the reader of the script does not run past its end.              *)
TypeOK ==
  /\ cmd_buf \in [Line -> Letters \cup {STALE}]
  /\ cmd_len \in EE_RET_CORRPT .. SH_MAX_LINE_LEN + 1
  /\ state \in {"prompt", "input", "exec"} /\ ui \in {"shell", "gui"}
  /\ escape \in BOOLEAN /\ boot \in BOOLEAN
  /\ eeprom \in Scripts \cup {NoEeprom} /\ (eeprom # NoEeprom => ptr \in 0 .. Len(eeprom))
  /\ state # "prompt" /\ ~boot =>
       /\ cmd_pos \in 0 .. cmd_len /\ cmd_len \in 0 .. SH_MAX_LINE_LEN
       /\ \A i \in 0 .. cmd_len - 1 : cmd_buf[i] \in Typed

Text(from, to) == [i \in 1 .. to - from |-> cmd_buf[from + i - 1]]

Edited == state # "prompt" /\ ~boot

left  == IF Edited THEN Text(0, cmd_pos) ELSE << >>
right == IF Edited THEN Text(cmd_pos, cmd_len) ELSE << >>

(* The places in a script at which its lines end.                          *)
EndsOf(text) == { i \in 1 .. Len(text) : text[i] = NL }

LinesOf(text) ==
  [k \in 1 .. Cardinality(EndsOf(text)) |->
    SubSeq(text, IF k = 1 THEN 1 ELSE Nth(EndsOf(text), k - 1) + 1, Nth(EndsOf(text), k) - 1)]

Editor == INSTANCE LineEditor WITH
  Char <- Typed, Space <- SPACE, Room <- SH_MAX_LINE_LEN, MaxWords <- SH_MAX_ARGS,
  Scripts <- UNION { Range(LinesOf(text)) : text \in Scripts }

(* The buffer with its position, its length and the pending escape is a    *)
(* text with a cursor: every key edits it as the key says, an arrow that   *)
(* arrives in three bytes included, and the words that run are those of    *)
(* the text, with all that is left in the last one.                        *)
EditsLine == Editor!LineSpec

(* What there is room for behind a command, beside the other of the two.   *)
Names  == UNION { [1 .. n -> { Lower[l] : l \in Letters \ {SPACE} }] : n \in 1 .. SH_MAX_LINE_LEN - 4 }
Values == UNION { [1 .. n -> Letters] : n \in 1 .. SH_MAX_LINE_LEN - 4 }

val  == [n \in Names |-> IF HasName(env_buf, n) THEN EnvGet(env_buf, n) ELSE << >>]
used == EnvEnd(env_buf)

Variables == INSTANCE EnvMap WITH NoValue <- << >>, Capacity <- SH_ENVIRON_SIZE - 1

(* The buffer of the environment is a map: "set" changes its own name and  *)
(* no other, whatever the case it is written in; it is refused exactly     *)
(* when there is no room, and then the old value is gone; only leaving a   *)
(* screen empties the rest.                                                *)
KeepsVariables == Variables!MapSpec

(* The commands of the script run in their order, from the first one; when *)
(* it stops, exactly those have run that end within the length of a line   *)
(* from the beginning of the script.                                       *)
BootRunsInOrder ==
  eeprom # NoEeprom =>
    /\ IsPrefix(booted, LinesOf(eeprom))
    /\ ~boot => Len(booted) = Rank(EndsOf(eeprom), SH_MAX_LINE_LEN + 1)

(* The scripts among whose commands that are reached is "init boot".       *)
SelfStarting ==
  { text \in Scripts :
      \E i \in 1 .. Rank(EndsOf(text), SH_MAX_LINE_LEN + 1) :
        LET line == LinesOf(text)[i] IN
        StartsBoot(Tokens([k \in 0 .. Len(line) - 1 |-> line[k + 1]], Len(line))) }

(* A line that was entered and a boot script come to an end, and the shell *)
(* takes keys again; unless the script starts itself.                      *)
ShellReturns ==
  (boot \/ state = "exec") /\ eeprom \notin SelfStarting ~> ~boot /\ state # "exec"
=============================================================================
