----------------------------- MODULE ShellProofs -----------------------------
(***************************************************************************)
(* Proofs about the line buffer of the shell, its boot script, its words   *)
(* and its environment, for every size of the buffers, every alphabet and  *)
(* every script.                                                           *)
(***************************************************************************)
EXTENDS Shell, Induction, SequenceTheorems

(* A line of the script that begins within it ends within it, and holds no *)
(* end of a line (eeprom_init_readcmd).                                    *)
LEMMA LineEnds ==
  ASSUME eeprom \in Scripts, NEW p \in 0 .. Len(eeprom), p < Len(eeprom)
  PROVE  /\ LineEnd(p) \in p .. Len(eeprom) - 1 /\ eeprom[LineEnd(p) + 1] = NL
         /\ \A j \in p .. LineEnd(p) - 1 : eeprom[j + 1] \in Letters
<1> DEFINE n == Len(eeprom)
           T == { i \in p .. n - 1 : eeprom[i + 1] = NL }
           Ended(i) == eeprom[i + 1] = NL /\ \A j \in p .. i - 1 : eeprom[j + 1] # NL
<1>1. eeprom \in Seq(Letters \cup {NL}) /\ n \in Nat
  BY ShellAssumption
<1>2. eeprom[n] = NL
  <2>1. eeprom # << >>
    OBVIOUS
  <2>2. QED BY <2>1, ShellAssumption
<1>3. n - 1 \in T
  BY <1>1, <1>2
<1>4. PICK i \in T : \A j \in T : i <= j
  <2>1. T \subseteq Nat /\ T # {}
    BY <1>1, <1>3
  <2> HIDE DEF T
  <2>2. QED BY <2>1, LeastMember
<1>5. \A j \in T : ~(j < i)
  BY <1>1, <1>4
<1>6. i \in p .. n - 1 /\ Ended(i)
  <2>1. i \in p .. n - 1 /\ eeprom[i + 1] = NL
    OBVIOUS
  <2>2. ASSUME NEW j \in p .. i - 1, eeprom[j + 1] = NL PROVE FALSE
    <3>1. j \in T /\ j < i
      BY <1>1, <2>1, <2>2
    <3>2. QED BY <3>1, <1>5
  <2>3. QED BY <2>1, <2>2
<1>7. LineEnd(p) \in p .. n - 1 /\ Ended(LineEnd(p))
  BY <1>6 DEF LineEnd
<1>8. \A j \in p .. LineEnd(p) - 1 : eeprom[j + 1] \in Letters
  <2> SUFFICES ASSUME NEW j \in p .. LineEnd(p) - 1 PROVE eeprom[j + 1] \in Letters
    OBVIOUS
  <2>1. j + 1 \in 1 .. n
    BY <1>1, <1>7
  <2>2. eeprom[j + 1] \in Letters \cup {NL}
    BY <1>1, <2>1
  <2>3. QED BY <1>7, <2>2
<1>9. QED BY <1>7, <1>8

(* What TypeOK says of a line that is edited.                              *)
EditOK ==
  /\ cmd_pos \in 0 .. cmd_len /\ cmd_len \in 0 .. SH_MAX_LINE_LEN
  /\ \A i \in 0 .. cmd_len - 1 : cmd_buf[i] \in Typed

BufOK == cmd_buf \in [Line -> Letters \cup {STALE}]

(* insert makes room at the cursor and moves the rest of the line.         *)
LEMMA Inserted ==
  ASSUME BufOK, EditOK, NEW c \in Typed, insert(c)
  PROVE  BufOK' /\ EditOK'
<1> USE ShellAssumption DEF BufOK, EditOK, Line
<1> DEFINE n == cmd_len - cmd_pos
           moved == Moved(cmd_pos + 1, cmd_pos, n)
<1>1. /\ cmd_len < SH_MAX_LINE_LEN /\ cmd_pos' = cmd_pos + 1 /\ cmd_len' = cmd_len + 1
      /\ cmd_buf' = [moved EXCEPT ![cmd_pos] = c]
  BY DEF insert
<1>2. \A i \in Line :
        moved[i] = IF i \in cmd_pos + 1 .. cmd_len THEN cmd_buf[i - 1] ELSE cmd_buf[i]
  BY DEF Moved
<1>3. \A i \in Line : moved[i] \in Letters \cup {STALE}
  <2>1. \A i \in cmd_pos + 1 .. cmd_len : i - 1 \in Line
    BY <1>1
  <2>2. QED BY <1>2, <2>1
<1>4. moved \in [Line -> Letters \cup {STALE}]
  BY <1>3 DEF Moved
<1> HIDE DEF moved
<1>5. BufOK'
  BY <1>1, <1>4
<1>6. \A i \in 0 .. cmd_len : cmd_buf'[i] \in Typed
  <2> SUFFICES ASSUME NEW i \in 0 .. cmd_len PROVE cmd_buf'[i] \in Typed
    OBVIOUS
  <2>1. i \in Line /\ cmd_buf'[i] = IF i = cmd_pos THEN c ELSE moved[i]
    BY <1>1, <1>4
  <2>2. CASE i < cmd_pos
    <3>1. moved[i] = cmd_buf[i] /\ i \in 0 .. cmd_len - 1
      BY <1>2, <2>1, <2>2
    <3>2. QED BY <2>1, <2>2, <3>1
  <2>3. CASE i > cmd_pos
    <3>1. moved[i] = cmd_buf[i - 1] /\ i - 1 \in 0 .. cmd_len - 1
      BY <1>2, <2>1, <2>3
    <3>2. QED BY <2>1, <2>3, <3>1
  <2>4. QED BY <2>1, <2>2, <2>3
<1>7. EditOK'
  BY <1>1, <1>6
<1>8. QED BY <1>5, <1>7

(* delete closes the gap it leaves.                                        *)
LEMMA Deleted ==
  ASSUME BufOK, EditOK, NEW w \in 0 .. cmd_len - 1, delete(w), cmd_pos' \in 0 .. cmd_len - 1
  PROVE  BufOK' /\ EditOK'
<1> USE ShellAssumption DEF BufOK, EditOK, Line
<1>1. cmd_len' = cmd_len - 1 /\ cmd_buf' = Moved(w, w + 1, cmd_len - w)
  BY DEF delete
<1>2. \A i \in Line :
        cmd_buf'[i] = IF i \in w .. cmd_len - 1 THEN cmd_buf[i + 1] ELSE cmd_buf[i]
  BY <1>1 DEF Moved
<1>3. \A i \in Line : cmd_buf'[i] \in Letters \cup {STALE}
  <2>1. \A i \in w .. cmd_len - 1 : i + 1 \in Line
    OBVIOUS
  <2>2. QED BY <1>2, <2>1
<1>4. BufOK'
  BY <1>1, <1>3 DEF Moved
<1>5. \A i \in 0 .. cmd_len - 2 : cmd_buf'[i] \in Typed
  <2> SUFFICES ASSUME NEW i \in 0 .. cmd_len - 2 PROVE cmd_buf'[i] \in Typed
    OBVIOUS
  <2>1. i \in Line /\ i \in 0 .. cmd_len - 1 /\ i + 1 \in 0 .. cmd_len - 1
    OBVIOUS
  <2>2. cmd_buf[i] \in Typed /\ cmd_buf[i + 1] \in Typed
    BY <2>1
  <2>3. QED BY <1>2, <2>1, <2>2
<1>6. EditOK'
  BY <1>1, <1>5
<1>7. QED BY <1>4, <1>6

(* What TypeOK says of everything but the line.                            *)
RestOK ==
  /\ cmd_len \in EE_RET_CORRPT .. SH_MAX_LINE_LEN + 1
  /\ state \in {"prompt", "input", "exec"} /\ ui \in {"shell", "gui"}
  /\ escape \in BOOLEAN /\ boot \in BOOLEAN
  /\ eeprom \in Scripts \cup {NoEeprom}
  /\ eeprom # NoEeprom => ptr \in 0 .. Len(eeprom)

LEMMA TypeParts == TypeOK <=> BufOK /\ RestOK /\ (state # "prompt" /\ ~boot => EditOK)
BY DEF TypeOK, BufOK, RestOK, EditOK

LEMMA PartsAfter ==
  ASSUME BufOK', RestOK', state' # "prompt" /\ ~boot' => EditOK'
  PROVE  TypeOK'
BY DEF TypeOK, BufOK, RestOK, EditOK

(* A key from the user keeps the line in its buffer.                       *)
LEMMA KeyStep == ASSUME TypeOK, NEW c \in Keys, Key(c) PROVE TypeOK'
<1>1. /\ BufOK /\ RestOK /\ EditOK /\ state = "input" /\ ~boot
      /\ UNCHANGED << ui, eeprom, boot, ptr >> /\ escape' \in BOOLEAN
  BY TypeParts DEF Key, bootVars
<1>2. state' \in {"input", "exec"} /\ BufOK' /\ EditOK'
  <2>1. CASE UNCHANGED << editVars, state >>
    BY <1>1, <2>1 DEF editVars, BufOK, EditOK
  <2>2. CASE c \in Typed /\ Insert(c)
    BY <1>1, <2>2, Inserted DEF Insert
  <2>3. CASE Left \/ Right
    BY <1>1, <2>3 DEF Left, Right, BufOK, EditOK
  <2>4. CASE Enter
    BY <1>1, <2>4 DEF Enter, editVars, BufOK, EditOK
  <2>5. CASE Delete
    <3>1. cmd_pos \in 0 .. cmd_len - 1 /\ delete(cmd_pos) /\ cmd_pos' = cmd_pos /\ state' = state
      BY <1>1, <2>5 DEF Delete, EditOK
    <3>2. QED BY <1>1, <3>1, Deleted
  <2>6. CASE Backspace
    <3>1. /\ cmd_pos - 1 \in 0 .. cmd_len - 1 /\ delete(cmd_pos - 1)
          /\ cmd_pos' = cmd_pos - 1 /\ state' = state
      BY <1>1, <2>6 DEF Backspace, EditOK
    <3>2. QED BY <1>1, <3>1, Deleted
  <2>7. QED BY <2>1, <2>2, <2>3, <2>4, <2>5, <2>6 DEF Key, Acts, Idle
<1>3. RestOK'
  <2>1. cmd_len' \in EE_RET_CORRPT .. SH_MAX_LINE_LEN + 1
    BY <1>2, ShellAssumption DEF EditOK, EE_RET_CORRPT
  <2>2. QED BY <1>1, <1>2, <2>1 DEF RestOK
<1>4. QED BY <1>2, <1>3, PartsAfter

(* So does the script that is read into the same buffer.                   *)
LEMMA BootStep == ASSUME TypeOK, BootCommand \/ BootEnd PROVE TypeOK'
<1> USE ShellAssumption
<1>1. BufOK /\ RestOK /\ boot = TRUE
  BY TypeParts DEF BootCommand, BootEnd, RestOK
<1>2. CASE BootEnd
  <2>1. /\ state' = "prompt" /\ boot' = FALSE
        /\ UNCHANGED << cmd_buf, escape, ui, eeprom, ptr >>
        /\ cmd_len' \in {cmd_len, EE_RET_CORRPT, 0}
    BY <1>2 DEF BootEnd
  <2>2. cmd_len' \in EE_RET_CORRPT .. SH_MAX_LINE_LEN + 1
    BY <1>1, <2>1 DEF RestOK, EE_RET_CORRPT
  <2>3. RestOK' /\ BufOK'
    BY <1>1, <2>1, <2>2 DEF RestOK, BufOK
  <2>4. QED BY <2>1, <2>3, PartsAfter
<1>3. CASE BootCommand
  <2> DEFINE end == LineEnd(ptr)
             line == [i \in 0 .. end - ptr - 1 |-> eeprom[ptr + i + 1]]
  <2>1. /\ eeprom \in Scripts /\ ptr \in 0 .. Len(eeprom) /\ ptr < Len(eeprom)
        /\ end <= SH_MAX_LINE_LEN
    BY <1>1, <1>3 DEF BootCommand, ReadsLine, RestOK
  <2>2. /\ end \in ptr .. Len(eeprom) - 1
        /\ \A j \in ptr .. end - 1 : eeprom[j + 1] \in Letters
    BY <2>1, LineEnds
  <2>3. /\ cmd_buf' = [i \in Line |-> IF i \in DOMAIN line THEN line[i] ELSE STALE]
        /\ cmd_len' = end - ptr + 1
        /\ eeprom' = eeprom /\ ui' \in {"gui", ui}
        /\ UNCHANGED << state, escape >>
        /\ (ptr' = 0 /\ boot' = TRUE) \/ (ptr' = end + 1 /\ boot' = boot)
    BY <1>3 DEF BootCommand, Run, StartBoot
  <2> HIDE DEF end
  <2>4. Len(eeprom) \in Nat
    BY <2>1
  <2>5. BufOK'
    <3>1. \A i \in DOMAIN line : line[i] \in Letters
      <4> SUFFICES ASSUME NEW i \in 0 .. end - ptr - 1 PROVE eeprom[ptr + i + 1] \in Letters
        OBVIOUS
      <4>1. ptr + i \in ptr .. end - 1
        BY <2>1, <2>2, <2>4
      <4>2. QED BY <2>2, <4>1
    <3> HIDE DEF line
    <3>2. QED BY <2>3, <3>1 DEF BufOK
  <2>6. cmd_len' \in EE_RET_CORRPT .. SH_MAX_LINE_LEN + 1
    BY <2>1, <2>2, <2>3, <2>4 DEF EE_RET_CORRPT
  <2>7. ptr' \in 0 .. Len(eeprom)
    BY <2>1, <2>2, <2>3, <2>4
  <2>8. boot' = TRUE
    BY <1>1, <2>3
  <2>9. RestOK'
    BY <1>1, <2>3, <2>6, <2>7, <2>8 DEF RestOK
  <2>10. QED BY <2>5, <2>8, <2>9, PartsAfter
<1>4. QED BY <1>2, <1>3

(* So does everything else.                                                *)
LEMMA OtherStep ==
  ASSUME TypeOK, Prompt \/ Exec \/ Leave \/ UNCHANGED vars
  PROVE  TypeOK'
<1> USE ShellAssumption
<1>1. BufOK /\ RestOK /\ (state # "prompt" /\ ~boot => EditOK)
  BY TypeParts
<1>2. CASE Prompt
  <2>1. /\ cmd_buf' = Blank /\ cmd_pos' = 0 /\ cmd_len' = 0 /\ state' = "input"
        /\ UNCHANGED << escape, ui, eeprom, boot, ptr >>
    BY <1>2 DEF Prompt, bootVars
  <2>2. BufOK' /\ EditOK'
    BY <2>1 DEF BufOK, EditOK, Blank
  <2>3. RestOK'
    BY <1>1, <2>1 DEF RestOK, EE_RET_CORRPT
  <2>4. QED BY <2>2, <2>3, PartsAfter
<1>3. CASE Exec
  <2>1. /\ UNCHANGED << editVars, escape, eeprom >> /\ ui' \in {"gui", ui}
        /\ \/ state' = state /\ boot' = TRUE /\ ptr' = 0 /\ eeprom # NoEeprom
           \/ state' = "prompt" /\ boot' = boot /\ ptr' = ptr
    BY <1>3 DEF Exec, Run, StartBoot, BootsAgain
  <2>2. BufOK'
    BY <1>1, <2>1 DEF editVars, BufOK
  <2>3. eeprom # NoEeprom => Len(eeprom) \in Nat
    BY <1>1 DEF RestOK
  <2>4. eeprom' # NoEeprom => ptr' \in 0 .. Len(eeprom')
    BY <1>1, <2>1, <2>3 DEF RestOK
  <2>5. RestOK'
    BY <1>1, <2>1, <2>4 DEF editVars, RestOK
  <2>6. QED BY <2>1, <2>2, <2>5, PartsAfter
<1>4. CASE Leave
  <2>1. /\ cmd_pos' = 0 /\ cmd_len' = 0 /\ state' = "prompt" /\ ui' = "shell"
        /\ UNCHANGED << cmd_buf, escape, eeprom, boot, ptr >>
    BY <1>4 DEF Leave, bootVars
  <2>2. BufOK'
    BY <1>1, <2>1 DEF BufOK
  <2>3. RestOK'
    BY <1>1, <2>1 DEF RestOK, EE_RET_CORRPT
  <2>4. QED BY <2>1, <2>2, <2>3, PartsAfter
<1>5. CASE UNCHANGED vars
  <2>1. UNCHANGED << cmd_buf, cmd_pos, cmd_len, state, escape, ui, eeprom, boot, ptr >>
    BY <1>5 DEF vars, editVars, bootVars
  <2>2. QED BY <2>1 DEF TypeOK
<1>6. QED BY <1>2, <1>3, <1>4, <1>5

LEMMA InitType == Init => TypeOK
<1> SUFFICES ASSUME Init PROVE TypeOK
  OBVIOUS
<1>1. BufOK
  BY DEF Init, BufOK, Blank
<1>2. eeprom \in Scripts \cup {NoEeprom} /\ ptr = 0
  BY DEF Init
<1>3. eeprom # NoEeprom => 0 \in 0 .. Len(eeprom)
  <2>1. eeprom # NoEeprom => eeprom \in Seq(Letters \cup {NL})
    BY <1>2, ShellAssumption
  <2> HIDE DEF Init
  <2>2. QED BY <2>1
<1>4. cmd_len \in EE_RET_CORRPT .. SH_MAX_LINE_LEN + 1
  BY ShellAssumption DEF Init, EE_RET_CORRPT
<1>5. RestOK
  BY <1>2, <1>3, <1>4 DEF Init, RestOK
<1>6. QED BY <1>1, <1>5, TypeParts DEF Init

LEMMA NextType == TypeOK /\ [Next]_vars => TypeOK'
BY KeyStep, BootStep, OtherStep DEF Next

(* The cursor stays within the line, the line within cmd_buf, and the      *)
(* reader of the boot script within the script, whatever is typed, run or  *)
(* stored; a line that is edited holds nothing but what was typed.         *)
THEOREM LineInBuffer == Spec => []TypeOK
BY InitType, NextType, PTL DEF Spec

(* The end of the line that begins at p is the next one in the script.     *)
LEMMA NextEnd ==
  ASSUME eeprom \in Scripts, NEW p \in 0 .. Len(eeprom), p < Len(eeprom)
  PROVE  LET e == LineEnd(p) + 1 IN
         /\ e \in EndsOf(eeprom) /\ p < e
         /\ \A j \in EndsOf(eeprom) : j <= p \/ e <= j
<1> DEFINE e == LineEnd(p)
<1>1. /\ e \in p .. Len(eeprom) - 1 /\ eeprom[e + 1] = NL
      /\ \A j \in p .. e - 1 : eeprom[j + 1] \in Letters
  BY LineEnds
<1>2. NL \notin Letters /\ Len(eeprom) \in Nat
  BY ShellAssumption
<1> HIDE DEF e
<1>3. e + 1 \in EndsOf(eeprom) /\ p < e + 1
  BY <1>1, <1>2 DEF EndsOf
<1>4. ASSUME NEW j \in EndsOf(eeprom), p < j, j < e + 1 PROVE FALSE
  <2>1. j \in 1 .. Len(eeprom) /\ eeprom[j] = NL
    BY DEF EndsOf
  <2>2. j - 1 \in p .. e - 1 /\ (j - 1) + 1 = j
    BY <1>1, <1>2, <1>4, <2>1
  <2>3. eeprom[j] \in Letters
    BY <1>1, <2>2
  <2>4. QED BY <1>2, <2>1, <2>3
<1>5. \A j \in EndsOf(eeprom) : j <= p \/ e + 1 <= j
  <2>1. \A j \in EndsOf(eeprom) : j \in Nat
    BY DEF EndsOf
  <2>2. QED BY <1>1, <1>2, <1>4, <2>1
<1>6. QED BY <1>3, <1>5 DEF e

(* Nothing ends before the beginning.                                      *)
LEMMA RankZero == ASSUME NEW n \in Nat, NEW S, S \subseteq 1 .. n PROVE Rank(S, 0) = 0
<1>1. \A i \in S : ~(i <= 0)
  OBVIOUS
<1>2. { i \in S : i <= 0 } = {}
  BY <1>1, Zenon
<1>3. QED BY <1>2, FS_EmptySet DEF Rank

LEMMA EndsFinite ==
  ASSUME NEW text \in Seq(Letters \cup {NL})
  PROVE  /\ Len(text) \in Nat /\ EndsOf(text) \subseteq 1 .. Len(text)
         /\ IsFiniteSet(EndsOf(text)) /\ Cardinality(EndsOf(text)) \in Nat
<1>1. Len(text) \in Nat
  BY LenProperties
<1>2. EndsOf(text) \subseteq 1 .. Len(text)
  BY DEF EndsOf
<1>3. IsFiniteSet(EndsOf(text))
  <2>1. IsFiniteSet(1 .. Len(text))
    BY <1>1, FS_Interval
  <2>2. QED BY <1>2, <2>1, FS_Subset
<1>4. QED BY <1>1, <1>2, <1>3, FS_CardinalityType

(* What stands between the beginning, or an end of a line, and the next    *)
(* end is a line, and they are numbered in their order.                    *)
LEMMA LineAt ==
  ASSUME NEW text \in Seq(Letters \cup {NL}), NEW e \in EndsOf(text),
         NEW d \in EndsOf(text) \cup {0}, d < e, \A j \in EndsOf(text) : j <= d \/ e <= j
  PROVE  LET ends == EndsOf(text) IN
         /\ Rank(ends, e) = Rank(ends, d) + 1 /\ Rank(ends, d) \in Nat
         /\ Rank(ends, e) \in 1 .. Cardinality(ends)
         /\ LinesOf(text)[Rank(ends, e)] = SubSeq(text, d + 1, e - 1)
<1> DEFINE ends == EndsOf(text)
           n    == Len(text)
           k    == Rank(ends, e)
<1>1. n \in Nat /\ ends \subseteq 1 .. n
  BY EndsFinite
<1> HIDE DEF ends, n
<1>2. d \in Nat /\ e \in Nat
  BY <1>1 DEF ends
<1>3. Rank(ends, e) = Rank(ends, d) + 1
  BY <1>1, <1>2, RankNext DEF ends
<1> HIDE DEF k
<1>4. Rank(ends, 0) = 0
  BY <1>1, RankZero
<1>5. Rank(ends, d) \in Nat
  <2>1. CASE d = 0
    BY <1>4, <2>1
  <2>2. CASE d \in ends
    <3>1. Rank(ends, d) \in 1 .. Cardinality(ends)
      BY <1>1, <2>2, NthRank
    <3>2. QED BY <3>1
  <2>3. QED BY <2>1, <2>2 DEF ends
<1>6. k \in 1 .. Cardinality(ends) /\ Nth(ends, k) = e
  BY <1>1, NthRank DEF ends, k
<1>7. (IF k = 1 THEN 1 ELSE Nth(ends, k - 1) + 1) = d + 1
  <2>1. CASE d = 0
    <3>1. k = 1
      BY <1>3, <1>4, <2>1 DEF k
    <3>2. QED BY <2>1, <3>1
  <2>2. CASE d \in ends
    <3>1. Rank(ends, d) \in 1 .. Cardinality(ends) /\ Nth(ends, Rank(ends, d)) = d
      BY <1>1, <2>2, NthRank
    <3>2. k # 1 /\ k - 1 = Rank(ends, d)
      BY <1>3, <3>1 DEF k
    <3>3. QED BY <3>1, <3>2
  <2>3. QED BY <2>1, <2>2 DEF ends
<1>8. LinesOf(text)[k] = SubSeq(text, IF k = 1 THEN 1 ELSE Nth(ends, k - 1) + 1, Nth(ends, k) - 1)
  BY <1>6 DEF LinesOf, ends
<1>9. LinesOf(text)[k] = SubSeq(text, d + 1, e - 1)
  BY <1>6, <1>7, <1>8
<1>10. QED BY <1>3, <1>5, <1>6, <1>9 DEF k, ends

(* The lines of a script, as a sequence of whatever they are.              *)
LEMMA LinesSeq ==
  ASSUME NEW text \in Seq(Letters \cup {NL})
  PROVE  LET lines == LinesOf(text) IN
         /\ lines \in Seq(Range(lines)) /\ Len(lines) = Cardinality(EndsOf(text))
         /\ \A k \in 1 .. Cardinality(EndsOf(text)) : lines[k] \in Range(lines)
<1> DEFINE lines == LinesOf(text)
           N     == Cardinality(EndsOf(text))
<1>1. N \in Nat
  BY EndsFinite
<1>2. DOMAIN lines = 1 .. N /\ lines = [k \in 1 .. N |-> lines[k]]
  BY DEF LinesOf
<1> HIDE DEF N, lines
<1>3. \A k \in 1 .. N : lines[k] \in Range(lines)
  BY <1>2 DEF Range
<1>4. lines \in [1 .. N -> Range(lines)]
  BY <1>2, <1>3
<1>5. lines \in Seq(Range(lines))
  BY <1>1, <1>4, SeqDef
<1>6. Len(lines) = N
  BY <1>1, <1>2, <1>5, LenProperties
<1>7. QED BY <1>3, <1>5, <1>6 DEF N, lines

(* The commands of the script that have run, and how far it was read.      *)
BootHolds ==
  eeprom # NoEeprom =>
    /\ ptr \in EndsOf(eeprom) \cup {0} /\ ptr <= SH_MAX_LINE_LEN + 1
    /\ booted = SubSeq(LinesOf(eeprom), 1, Rank(EndsOf(eeprom), ptr))
    /\ ~boot => \A e \in EndsOf(eeprom) : e <= SH_MAX_LINE_LEN + 1 => e <= ptr

LEMMA ScriptSeq == eeprom \in Scripts => eeprom \in Seq(Letters \cup {NL})
BY ShellAssumption

(* Nothing has run at the beginning.                                       *)
LEMMA BootBegins ==
  ASSUME eeprom' \in Scripts \cup {NoEeprom}, boot', ptr' = 0, booted' = << >>
  PROVE  BootHolds'
<1> SUFFICES ASSUME eeprom' # NoEeprom
             PROVE  /\ ptr' \in EndsOf(eeprom') \cup {0} /\ ptr' <= SH_MAX_LINE_LEN + 1
                    /\ booted' = SubSeq(LinesOf(eeprom'), 1, Rank(EndsOf(eeprom'), ptr'))
  BY DEF BootHolds
<1>1. eeprom' \in Seq(Letters \cup {NL})
  BY ShellAssumption
<1>2. Rank(EndsOf(eeprom'), 0) = 0
  BY <1>1, EndsFinite, RankZero
<1>3. SubSeq(LinesOf(eeprom'), 1, 0) = << >>
  BY SubSeqEmpty
<1>4. QED BY <1>2, <1>3, ShellAssumption

(* A command of the script is the next of its lines.                       *)
LEMMA BootRuns == ASSUME TypeOK, BootHolds, BootCommand PROVE BootHolds'
<1> DEFINE end   == LineEnd(ptr)
           ends  == EndsOf(eeprom)
           lines == LinesOf(eeprom)
           r     == Rank(ends, ptr)
<1>1. /\ boot = TRUE /\ eeprom \in Scripts /\ eeprom # NoEeprom /\ eeprom' = eeprom
      /\ ptr \in 0 .. Len(eeprom) /\ ptr < Len(eeprom) /\ end <= SH_MAX_LINE_LEN
  BY DEF BootCommand, ReadsLine, TypeOK, Run
<1>2. \/ boot' = TRUE /\ ptr' = 0 /\ booted' = << >>
      \/ boot' = boot /\ ptr' = end + 1 /\ booted' = Append(booted, SubSeq(eeprom, ptr + 1, end))
  BY DEF BootCommand, StartBoot
<1>3. CASE boot' = TRUE /\ ptr' = 0 /\ booted' = << >>
  BY <1>1, <1>3, BootBegins
<1>4. CASE boot' = boot /\ ptr' = end + 1 /\ booted' = Append(booted, SubSeq(eeprom, ptr + 1, end))
  <2>1. /\ end + 1 \in ends /\ ptr < end + 1 /\ \A j \in ends : j <= ptr \/ end + 1 <= j
        /\ end \in ptr .. Len(eeprom) - 1
    BY <1>1, NextEnd, LineEnds
  <2>2. eeprom \in Seq(Letters \cup {NL}) /\ Len(eeprom) \in Nat
    BY <1>1, ShellAssumption
  <2>3. ptr \in ends \cup {0} /\ booted = SubSeq(lines, 1, r)
    BY <1>1 DEF BootHolds
  <2> HIDE DEF end, ends, lines, r
  <2>4. (end + 1) - 1 = end
    BY <2>1, <2>2
  <2>5. /\ Rank(ends, end + 1) = r + 1 /\ r \in Nat
        /\ r + 1 \in 1 .. Cardinality(ends)
        /\ lines[r + 1] = SubSeq(eeprom, ptr + 1, end)
    <3> DEFINE e == end + 1
    <3>1. e \in ends /\ ptr < e /\ e - 1 = end /\ \A j \in ends : j <= ptr \/ e <= j
      BY <2>1, <2>4
    <3> HIDE DEF e
    <3>2. /\ Rank(ends, e) = r + 1 /\ r \in Nat /\ Rank(ends, e) \in 1 .. Cardinality(ends)
          /\ lines[Rank(ends, e)] = SubSeq(eeprom, ptr + 1, e - 1)
      BY <2>2, <2>3, <3>1, LineAt DEF ends, lines, r
    <3>3. QED BY <3>1, <3>2 DEF e
  <2>6. lines \in Seq(Range(lines)) /\ Len(lines) = Cardinality(ends) /\ lines[r + 1] \in Range(lines)
    BY <2>2, <2>5, LinesSeq DEF lines, ends
  <2>7. booted' = SubSeq(lines, 1, r + 1)
    <3>1. \A i \in 1 .. r : lines[i] \in Range(lines)
      BY <2>5, <2>6, ElementOfSeq
    <3>2. booted \in Seq(Range(lines))
      BY <2>3, <2>5, <3>1, SubSeqProperties
    <3>3. SubSeq(lines, 1, r + 1) = booted \o << lines[r + 1] >>
      <4>1. 1 \in 1 .. Len(lines) /\ r + 1 \in 1 .. Len(lines) /\ (r + 1) - 1 = r
        BY <2>5, <2>6
      <4>2. SubSeq(lines, 1, r + 1) = SubSeq(lines, 1, (r + 1) - 1) \o << lines[r + 1] >>
        BY <2>6, <4>1, SubSeqRecursiveSecond
      <4>3. QED BY <2>3, <4>1, <4>2
    <3>4. booted' = booted \o << lines[r + 1] >>
      BY <1>4, <2>5, <2>6, <3>2, AppendIsConcat
    <3>5. QED BY <3>3, <3>4
  <2>8. end + 1 <= SH_MAX_LINE_LEN + 1
    BY <1>1, <2>1, <2>2, ShellAssumption
  <2>9. QED BY <1>1, <1>4, <2>1, <2>5, <2>7, <2>8 DEF BootHolds, ends, lines
<1>5. QED BY <1>2, <1>3, <1>4

(* The script stops where no line is left that may be read.                *)
LEMMA BootStops == ASSUME TypeOK, BootHolds, BootEnd PROVE BootHolds'
<1>1. boot' = FALSE /\ ~ReadsLine(ptr) /\ UNCHANGED << eeprom, ptr, booted >>
  BY DEF BootEnd
<1>2. SUFFICES ASSUME eeprom # NoEeprom, NEW e \in EndsOf(eeprom), e <= SH_MAX_LINE_LEN + 1, e > ptr
               PROVE  FALSE
  <2>1. ASSUME eeprom # NoEeprom, NEW e \in EndsOf(eeprom), e <= SH_MAX_LINE_LEN + 1 PROVE e <= ptr
    <3>1. e \in Nat /\ ptr \in Nat
      BY <2>1 DEF EndsOf, TypeOK
    <3>2. QED BY <1>2, <2>1, <3>1
  <2>2. QED BY <1>1, <2>1 DEF BootHolds
<1>3. eeprom \in Scripts /\ ptr \in 0 .. Len(eeprom) /\ Len(eeprom) \in Nat
  BY <1>2, ScriptSeq, LenProperties DEF TypeOK
<1>4. e \in 1 .. Len(eeprom) /\ ptr < Len(eeprom)
  BY <1>2, <1>3 DEF EndsOf
<1>5. LineEnd(ptr) + 1 <= e /\ LineEnd(ptr) \in Nat
  <2>1. \A j \in EndsOf(eeprom) : j <= ptr \/ LineEnd(ptr) + 1 <= j
    BY <1>3, <1>4, NextEnd
  <2>2. LineEnd(ptr) \in ptr .. Len(eeprom) - 1
    BY <1>3, <1>4, LineEnds
  <2>3. QED BY <1>2, <1>3, <1>4, <2>1, <2>2
<1>6. LineEnd(ptr) <= SH_MAX_LINE_LEN
  BY <1>2, <1>4, <1>5, ShellAssumption
<1>7. QED BY <1>1, <1>2, <1>4, <1>6 DEF ReadsLine

(* The other steps leave the script alone or begin it.                     *)
LEMMA BootElse ==
  ASSUME TypeOK, BootHolds, (\E c \in Keys : Key(c)) \/ Prompt \/ Exec \/ Leave \/ UNCHANGED vars
  PROVE  BootHolds'
<1>1. \/ UNCHANGED bootVars
      \/ eeprom' = eeprom /\ boot' = TRUE /\ ptr' = 0 /\ booted' = << >>
  BY DEF Key, Prompt, Exec, Leave, vars, bootVars, StartBoot, Run
<1>2. CASE UNCHANGED bootVars
  BY <1>2 DEF bootVars, BootHolds
<1>3. CASE eeprom' = eeprom /\ boot' = TRUE /\ ptr' = 0 /\ booted' = << >>
  BY <1>3, BootBegins DEF TypeOK
<1>4. QED BY <1>1, <1>2, <1>3

LEMMA InitHolds == Init => TypeOK /\ BootHolds
<1> SUFFICES ASSUME Init PROVE TypeOK /\ BootHolds
  OBVIOUS
<1>1. TypeOK
  BY InitType
<1>2. eeprom \in Scripts \cup {NoEeprom} /\ boot = TRUE /\ ptr = 0 /\ booted = << >>
  BY DEF Init
<1>3. ASSUME eeprom # NoEeprom PROVE SubSeq(LinesOf(eeprom), 1, Rank(EndsOf(eeprom), 0)) = << >>
  <2>1. eeprom \in Seq(Letters \cup {NL})
    BY <1>2, <1>3, ScriptSeq
  <2>2. Rank(EndsOf(eeprom), 0) = 0
    BY <2>1, EndsFinite, RankZero
  <2>3. QED BY <2>2, SubSeqEmpty
<1>4. 0 <= SH_MAX_LINE_LEN + 1
  BY ShellAssumption
<1>5. BootHolds
  BY <1>2, <1>3, <1>4 DEF BootHolds
<1>6. QED BY <1>1, <1>5

LEMMA NextHolds == TypeOK /\ BootHolds /\ [Next]_vars => (TypeOK /\ BootHolds)'
BY NextType, BootRuns, BootStops, BootElse DEF Next

(* The script's commands run in their order, and to the last one that ends *)
(* within the length of a line from the beginning of the script.           *)
THEOREM ScriptRuns == Spec => []BootRunsInOrder
<1>1. Init => TypeOK /\ BootHolds
  BY InitHolds
<1>2. TypeOK /\ BootHolds /\ [Next]_vars => (TypeOK /\ BootHolds)'
  BY NextHolds
<1>3. TypeOK /\ BootHolds => BootRunsInOrder
  <2> SUFFICES ASSUME TypeOK, BootHolds, eeprom # NoEeprom
               PROVE  /\ IsPrefix(booted, LinesOf(eeprom))
                      /\ ~boot => Len(booted) = Rank(EndsOf(eeprom), SH_MAX_LINE_LEN + 1)
    BY DEF BootRunsInOrder
  <2> DEFINE ends  == EndsOf(eeprom)
             lines == LinesOf(eeprom)
             r     == Rank(ends, ptr)
             n     == Len(eeprom)
  <2>1. eeprom \in Seq(Letters \cup {NL}) /\ ptr \in Nat
    BY ScriptSeq DEF TypeOK
  <2>2. /\ booted = SubSeq(lines, 1, r) /\ ptr <= SH_MAX_LINE_LEN + 1
        /\ ~boot => \A e \in ends : e <= SH_MAX_LINE_LEN + 1 => e <= ptr
    BY DEF BootHolds
  <2>3. lines \in Seq(Range(lines)) /\ Len(lines) = Cardinality(ends)
    BY <2>1, LinesSeq
  <2>4. n \in Nat /\ ends \subseteq 1 .. n /\ IsFiniteSet(ends) /\ Cardinality(ends) \in Nat
    BY <2>1, EndsFinite
  <2> HIDE DEF ends, lines, n
  <2>5. r \in 0 .. Cardinality(ends)
    BY <2>1, <2>4, Counted
  <2> HIDE DEF r
  <2>6. Len(booted) = r /\ booted \in Seq(Range(lines))
    <3>1. \A i \in 1 .. r : lines[i] \in Range(lines)
      BY <2>3, <2>4, <2>5, ElementOfSeq
    <3>2. QED BY <2>2, <2>4, <2>5, <3>1, SubSeqProperties
  <2>7. IsPrefix(booted, lines)
    <3>1. SubSeq(booted, 1, Len(booted)) = booted
      BY <2>6, SubSeqFull
    <3>2. QED BY <2>2, <2>3, <2>4, <2>5, <2>6, <3>1 DEF IsPrefix
  <2>8. ASSUME ~boot PROVE r = Rank(ends, SH_MAX_LINE_LEN + 1)
    <3>1. \A e \in ends : e \in Nat
      BY <2>4
    <3>2. \A e \in ends : e <= ptr <=> e <= SH_MAX_LINE_LEN + 1
      BY <2>1, <2>2, <2>8, <3>1, ShellAssumption
    <3>3. { e \in ends : e <= ptr } = { e \in ends : e <= SH_MAX_LINE_LEN + 1 }
      BY <3>2, Zenon
    <3>4. QED BY <3>3 DEF Rank, r
  <2>9. QED BY <2>6, <2>7, <2>8 DEF ends, lines
<1>4. QED BY <1>1, <1>2, <1>3, PTL DEF Spec

(* The bytes that the two loops of _shell_exec look for.                   *)
Reaches(text, n, i, j, stop) ==
  /\ j \in i .. n
  /\ j = n \/ (text[j] = SPACE) = stop
  /\ \A h \in i .. j - 1 : (text[h] = SPACE) # stop

(* Each loop comes to an end at one place.                                 *)
LEMMA Loops ==
  ASSUME NEW text, NEW n \in Nat, NEW i \in 0 .. n, NEW stop \in BOOLEAN
  PROVE  \E j \in i .. n : Reaches(text, n, i, j, stop)
<1> DEFINE T == { j \in i .. n : j = n \/ (text[j] = SPACE) = stop }
<1>1. PICK j \in T : \A h \in T : j <= h
  <2>1. n \in T /\ T \subseteq Nat
    OBVIOUS
  <2> HIDE DEF T
  <2>2. QED BY <2>1, LeastMember
<1>2. ASSUME NEW h \in i .. j - 1 PROVE (text[h] = SPACE) # stop
  <2>1. h \in i .. n /\ h < j /\ h \in Int /\ j \in Int
    BY <1>1
  <2>2. h \notin T
    <3> HIDE DEF T
    <3>1. QED BY <1>1, <2>1
  <2>3. QED BY <2>1, <2>2
<1>3. Reaches(text, n, i, j, stop)
  BY <1>1, <1>2 DEF Reaches
<1>4. QED BY <1>1, <1>3

LEMMA LoopEnd ==
  ASSUME NEW text, NEW n \in Nat, NEW i \in 0 .. n, NEW stop \in BOOLEAN,
         NEW j, NEW k, Reaches(text, n, i, j, stop), Reaches(text, n, i, k, stop)
  PROVE  j = k
<1>1. j \in i .. n /\ k \in i .. n
  BY DEF Reaches
<1>2. CASE j < k
  <2>1. j \in i .. k - 1 /\ j # n
    BY <1>1, <1>2
  <2>2. QED BY <2>1 DEF Reaches
<1>3. CASE k < j
  <2>1. k \in i .. j - 1 /\ k # n
    BY <1>1, <1>3
  <2>2. QED BY <2>1 DEF Reaches
<1>4. QED BY <1>1, <1>2, <1>3

LEMMA Looping ==
  ASSUME NEW text, NEW n \in Nat, NEW i \in 0 .. n
  PROVE  /\ Reaches(text, n, i, Skip(text, n, i), FALSE) /\ Skip(text, n, i) \in i .. n
         /\ Reaches(text, n, i, Pass(text, n, i), TRUE) /\ Pass(text, n, i) \in i .. n
<1>1. \E j \in i .. n : Reaches(text, n, i, j, FALSE)
  BY Loops
<1>2. \E j \in i .. n : Reaches(text, n, i, j, TRUE)
  BY Loops
<1>3. \A j : Reaches(text, n, i, j, FALSE) <=>
             /\ j \in i .. n /\ (j = n \/ text[j] # SPACE)
             /\ \A h \in i .. j - 1 : text[h] = SPACE
  BY DEF Reaches
<1>4. \A j : Reaches(text, n, i, j, TRUE) <=>
             /\ j \in i .. n /\ (j = n \/ text[j] = SPACE)
             /\ \A h \in i .. j - 1 : text[h] # SPACE
  BY DEF Reaches
<1>5. QED BY <1>1, <1>2, <1>3, <1>4 DEF Skip, Pass

(* Where each word begins.                                                 *)
Begins(text, n, f) ==
  /\ f \in [1 .. SH_MAX_ARGS -> 0 .. n]
  /\ \A k \in 1 .. SH_MAX_ARGS :
       f[k] = Skip(text, n, IF k = 1 THEN 0 ELSE Pass(text, n, f[k - 1]))

LEMMA BeginsExists ==
  ASSUME NEW text, NEW n \in Nat
  PROVE  \E f : Begins(text, n, f)
<1> DEFINE M == SH_MAX_ARGS
           S == 0 .. n
           step == [k \in 1 .. M |-> [x \in S |-> Skip(text, n, IF k = 1 THEN 0 ELSE Pass(text, n, x))]]
<1>1. M \in Nat
  BY ShellAssumption
<1>2. ASSUME NEW k \in 1 .. M, NEW x \in S
      PROVE  Skip(text, n, IF k = 1 THEN 0 ELSE Pass(text, n, x)) \in S
  <2>1. (IF k = 1 THEN 0 ELSE Pass(text, n, x)) \in S
    <3>1. Pass(text, n, x) \in x .. n
      BY Looping
    <3>2. QED BY <3>1
  <2>2. \A y \in S : Skip(text, n, y) \in S
    <3> SUFFICES ASSUME NEW y \in S PROVE Skip(text, n, y) \in S
      OBVIOUS
    <3>1. Skip(text, n, y) \in y .. n
      BY Looping
    <3>2. QED BY <3>1
  <2>3. QED BY <2>1, <2>2
<1>3. step \in [1 .. M -> [S -> S]]
  <2> HIDE DEF S, M
  <2>1. QED BY <1>2
<1>4. PICK f : Iterates(f, M, S, 0, step)
  <2> HIDE DEF M, step
  <2>1. 0 \in S
    OBVIOUS
  <2> HIDE DEF S
  <2>2. QED BY <1>1, <1>3, <2>1, Iteration
<1>5. f \in [0 .. M -> S] /\ \A k \in 1 .. M : f[k] = step[k][f[k - 1]]
  BY <1>4 DEF Iterates
<1> DEFINE g == [k \in 1 .. M |-> f[k]]
<1>6. ASSUME NEW k \in 1 .. M
      PROVE  g[k] \in S /\ g[k] = Skip(text, n, IF k = 1 THEN 0 ELSE Pass(text, n, g[k - 1]))
  <2>1. k - 1 \in 0 .. M /\ k \in 0 .. M
    BY <1>1
  <2>2. f[k - 1] \in S /\ g[k] = f[k] /\ f[k] \in S
    <3> HIDE DEF S
    <3>1. QED BY <1>5, <2>1
  <2>3. f[k] = Skip(text, n, IF k = 1 THEN 0 ELSE Pass(text, n, f[k - 1]))
    <3>1. f[k] = step[k][f[k - 1]]
      BY <1>5
    <3> HIDE DEF S, M
    <3>2. QED BY <2>2, <3>1
  <2>4. k # 1 => g[k - 1] = f[k - 1]
    BY <1>1
  <2>5. QED BY <2>2, <2>3, <2>4
<1>7. g \in [1 .. M -> S]
  BY <1>6
<1> HIDE DEF g
<1>8. QED BY <1>6, <1>7 DEF Begins

(* The function that Tokens defines is one.                                *)
LEMMA Recurses ==
  ASSUME NEW text, NEW n \in Nat, NEW tokptr,
         tokptr = CHOOSE f : f = [k \in 1 .. SH_MAX_ARGS |->
                    Skip(text, n, IF k = 1 THEN 0 ELSE Pass(text, n, f[k - 1]))]
  PROVE  Begins(text, n, tokptr)
<1> DEFINE M == SH_MAX_ARGS
           S == 0 .. n
           Body(f) == [k \in 1 .. M |-> Skip(text, n, IF k = 1 THEN 0 ELSE Pass(text, n, f[k - 1]))]
<1>1. PICK f : Begins(text, n, f)
  BY BeginsExists
<1>2. f = Body(f)
  BY <1>1 DEF Begins
<1>3. tokptr = Body(tokptr)
  <2>1. tokptr = CHOOSE g : g = Body(g)
    OBVIOUS
  <2>2. QED BY <1>2, <2>1
<1>4. \A k \in 1 .. M : tokptr[k] = Skip(text, n, IF k = 1 THEN 0 ELSE Pass(text, n, tokptr[k - 1]))
  BY <1>3
<1>5. M \in Nat
  BY ShellAssumption
<1> HIDE DEF M, S, Body
<1>6. \A k \in 1 .. M : tokptr[k] \in S
  <2> DEFINE T == { k \in 1 .. M : tokptr[k] \notin S }
  <2> SUFFICES ASSUME T # {} PROVE FALSE
    OBVIOUS
  <2>1. PICK k \in T : \A h \in T : k <= h
    <3>1. T \subseteq Nat
      OBVIOUS
    <3> HIDE DEF T
    <3>2. QED BY <3>1, LeastMember
  <2>2. ASSUME NEW x \in 0 .. n PROVE Skip(text, n, x) \in S /\ Pass(text, n, x) \in 0 .. n
    <3>1. Skip(text, n, x) \in x .. n /\ Pass(text, n, x) \in x .. n
      BY Looping
    <3>2. QED BY <3>1 DEF S
  <2>3. k \in 1 .. M /\ tokptr[k] \notin S
    BY <2>1
  <2>4. CASE k = 1
    BY <1>4, <2>2, <2>3, <2>4
  <2>5. CASE k # 1
    <3>1. k - 1 \in 1 .. M /\ k - 1 < k
      BY <1>5, <2>3, <2>5
    <3>2. tokptr[k - 1] \in S
      <4>1. k - 1 \notin T
        <5>1. k \in Int /\ k - 1 \in Int
          BY <2>3
        <5> HIDE DEF T
        <5>2. QED BY <2>1, <3>1, <5>1
      <4>2. QED BY <3>1, <4>1
    <3>3. Pass(text, n, tokptr[k - 1]) \in 0 .. n
      BY <2>2, <3>2 DEF S
    <3>4. QED BY <1>4, <2>2, <2>3, <2>5, <3>3
  <2>6. QED BY <2>4, <2>5
<1>7. tokptr \in [1 .. M -> S]
  <2>1. tokptr = [k \in 1 .. M |-> tokptr[k]]
    BY <1>3 DEF Body
  <2>2. QED BY <1>6, <2>1
<1>8. QED BY <1>4, <1>7 DEF Begins, M, S

(* The words of a sequence, in the terms of the model that edits it.       *)
LEMMA StartsAre ==
  ASSUME NEW t
  PROVE  Editor!Starts(t) = { i \in DOMAIN t : t[i] # SPACE /\ (i = 1 \/ t[i - 1] = SPACE) }
BY DEF Editor!Starts

LEMMA SameCount == ASSUME NEW S PROVE Editor!Cardinality(S) = Cardinality(S)
BY DEF Editor!Cardinality, Cardinality

LEMMA SameNth == ASSUME NEW S, NEW k PROVE Editor!Nth(S, k) = Nth(S, k)
BY SameCount DEF Editor!Nth, Editor!Rank, Nth, Rank

(* t is what stands in the buffer before n.                                *)
Holds(text, n, t) ==
  /\ n \in Nat /\ DOMAIN t = 1 .. n /\ \A i \in 1 .. n : t[i] = text[i - 1]

(* No word begins in what is passed or skipped.                            *)
LEMMA NoneSkipped ==
  ASSUME NEW text, NEW n, NEW t, Holds(text, n, t), NEW i \in 0 .. n, NEW s, Reaches(text, n, i, s, FALSE),
         NEW j \in Editor!Starts(t)
  PROVE  j <= i \/ s + 1 <= j
<1>1. n \in Nat /\ j \in 1 .. n /\ text[j - 1] # SPACE
  BY StartsAre DEF Holds
<1>2. s \in i .. n /\ \A h \in i .. s - 1 : text[h] = SPACE
  BY DEF Reaches
<1>3. ASSUME i < j, j < s + 1 PROVE FALSE
  <2>1. j - 1 \in i .. s - 1
    BY <1>1, <1>2, <1>3
  <2>2. QED BY <1>1, <1>2, <2>1
<1>4. QED BY <1>1, <1>2, <1>3

LEMMA NonePassed ==
  ASSUME NEW text, NEW n, NEW t, Holds(text, n, t), NEW i \in 0 .. n, NEW s, Reaches(text, n, i, s, TRUE),
         NEW j \in Editor!Starts(t)
  PROVE  j <= i + 1 \/ s + 1 <= j
<1>1. n \in Nat /\ j \in 1 .. n /\ (j = 1 \/ t[j - 1] = SPACE)
  BY StartsAre DEF Holds
<1>2. s \in i .. n /\ \A h \in i .. s - 1 : text[h] # SPACE
  BY DEF Reaches
<1>3. ASSUME i + 1 < j, j < s + 1 PROVE FALSE
  <2>1. j - 1 \in 1 .. n /\ (j - 1) - 1 \in i .. s - 1
    BY <1>1, <1>2, <1>3
  <2>2. t[j - 1] = text[(j - 1) - 1]
    BY <2>1 DEF Holds
  <2>3. j # 1
    BY <2>1
  <2>4. QED BY <1>1, <1>2, <2>1, <2>2, <2>3
<1>4. QED BY <1>1, <1>2, <1>3

(* Where skipping stops before the end, a word begins, if it started at    *)
(* the beginning or at a space.                                            *)
LEMMA BeginsWord ==
  ASSUME NEW text, NEW n, NEW t, Holds(text, n, t), NEW i \in 0 .. n, NEW s, Reaches(text, n, i, s, FALSE),
         s < n, i = 0 \/ text[i] = SPACE
  PROVE  s + 1 \in Editor!Starts(t)
<1>1. n \in Nat /\ s \in i .. n /\ text[s] # SPACE
  BY DEF Reaches, Holds
<1>2. s + 1 \in 1 .. n /\ (s + 1) - 1 = s
  BY <1>1
<1>3. t[s + 1] # SPACE
  BY <1>1, <1>2 DEF Holds
<1>4. s = 0 \/ t[s] = SPACE
  <2>1. CASE s = i
    BY <1>1, <2>1
  <2>2. CASE s # i
    <3>1. s - 1 \in i .. s - 1 /\ s \in 1 .. n
      BY <1>1, <2>2
    <3>2. text[s - 1] = SPACE
      BY <3>1 DEF Reaches
    <3>3. QED BY <3>1, <3>2 DEF Holds
  <2>3. QED BY <2>1, <2>2
<1>5. s + 1 \in DOMAIN t
  BY <1>2 DEF Holds
<1>6. s + 1 = 1 \/ t[(s + 1) - 1] = SPACE
  BY <1>1, <1>2, <1>4
<1>7. QED BY <1>3, <1>5, <1>6, StartsAre

LEMMA StartsFinite ==
  ASSUME NEW text, NEW n, NEW t, Holds(text, n, t)
  PROVE  LET S == Editor!Starts(t) IN
         n \in Nat /\ S \subseteq 1 .. n /\ IsFiniteSet(S) /\ Cardinality(S) \in Nat
<1> DEFINE S == Editor!Starts(t)
<1>1. n \in Nat /\ S \subseteq 1 .. n
  BY StartsAre DEF Holds
<1> HIDE DEF S
<1>2. IsFiniteSet(S)
  <2>1. IsFiniteSet(1 .. n)
    BY <1>1, FS_Interval
  <2>2. QED BY <1>1, <2>1, FS_Subset
<1>3. QED BY <1>1, <1>2, FS_CardinalityType DEF S

(* The place k stands at the word k of t, or behind all the words.         *)
Stands(n, t, s, k) ==
  /\ s < n => s + 1 \in Editor!Starts(t) /\ Rank(Editor!Starts(t), s + 1) = k
  /\ s = n => Cardinality(Editor!Starts(t)) < k

LEMMA FirstWord ==
  ASSUME NEW text, NEW n, NEW t, Holds(text, n, t), NEW s, Reaches(text, n, 0, s, FALSE)
  PROVE  Stands(n, t, s, 1)
<1> DEFINE S == Editor!Starts(t)
<1>1. n \in Nat /\ S \subseteq 1 .. n /\ IsFiniteSet(S) /\ 0 \in 0 .. n
  BY StartsFinite
<1>2. s \in 0 .. n
  BY DEF Reaches
<1>3. \A j \in S : s + 1 <= j
  <2>1. \A j \in S : j <= 0 \/ s + 1 <= j
    BY <1>1, NoneSkipped
  <2> HIDE DEF S
  <2>2. QED BY <1>1, <2>1
<1>4. s < n => s + 1 \in S
  BY <1>1, BeginsWord
<1> HIDE DEF S
<1>5. s < n => Rank(S, s + 1) = 1
  BY <1>1, <1>3, <1>4, RankFirst
<1>6. s = n => Cardinality(S) = 0
  <2>1. s = n => S = {}
    BY <1>1, <1>3
  <2>2. QED BY <2>1, FS_EmptySet
<1>7. QED BY <1>4, <1>5, <1>6 DEF Stands, S

LEMMA NextWord ==
  ASSUME NEW text, NEW n, NEW t, Holds(text, n, t), NEW k \in Nat,
         NEW p \in 0 .. n, Stands(n, t, p, k),
         NEW e, Reaches(text, n, p, e, TRUE), NEW s, Reaches(text, n, e, s, FALSE)
  PROVE  Stands(n, t, s, k + 1)
<1> DEFINE S == Editor!Starts(t)
<1>1. n \in Nat /\ S \subseteq 1 .. n /\ IsFiniteSet(S) /\ Cardinality(S) \in Nat
  BY StartsFinite
<1>2. e \in p .. n /\ s \in e .. n /\ e \in 0 .. n
  BY <1>1 DEF Reaches
<1>3. CASE p = n
  <2>1. s = n /\ Cardinality(S) < k
    BY <1>1, <1>2, <1>3 DEF Stands
  <2> HIDE DEF S
  <2>2. ~(s < n) /\ Cardinality(S) < k + 1
    BY <1>1, <2>1
  <2>3. QED BY <2>2 DEF Stands, S
<1>4. CASE p < n
  <2>1. p + 1 \in S /\ Rank(S, p + 1) = k
    BY <1>4 DEF Stands
  <2>2. \A j \in S : j <= p + 1 \/ s + 1 <= j
    <3>1. \A j \in S : (j <= p + 1 \/ e + 1 <= j) /\ (j <= e \/ s + 1 <= j)
      BY <1>2, NoneSkipped, NonePassed
    <3> HIDE DEF S
    <3>2. \A j \in S : j \in Int
      BY <1>1
    <3>3. QED BY <1>1, <1>2, <3>1, <3>2
  <2>3. ASSUME s < n PROVE s + 1 \in S /\ p + 1 < s + 1
    <3>1. text[s] # SPACE
      BY <2>3 DEF Reaches
    <3>2. e # n /\ text[e] = SPACE
      BY <1>1, <1>2, <2>3 DEF Reaches
    <3>3. s + 1 \in S
      BY <1>2, <2>3, <3>2, BeginsWord
    <3>4. text[p] # SPACE
      <4>1. t[p + 1] # SPACE
        BY <2>1, StartsAre
      <4>2. p + 1 \in 1 .. n /\ (p + 1) - 1 = p
        BY <1>1, <1>4
      <4>3. t[p + 1] = text[(p + 1) - 1]
        BY <4>2 DEF Holds
      <4>4. QED BY <4>1, <4>2, <4>3
    <3>5. p # e
      BY <3>2, <3>4
    <3>6. QED BY <1>1, <1>2, <3>3, <3>5
  <2> HIDE DEF S
  <2>4. ASSUME s < n PROVE Rank(S, s + 1) = k + 1
    <3>1. p + 1 \in Nat /\ s + 1 \in S /\ p + 1 < s + 1
      BY <1>1, <2>3, <2>4
    <3> DEFINE f == s + 1
               d == p + 1
    <3> HIDE DEF f, d
    <3>2. d \in Nat /\ f \in S /\ d < f /\ \A j \in S : j <= d \/ f <= j
      BY <2>2, <3>1 DEF f, d
    <3>3. Rank(S, f) = Rank(S, d) + 1
      BY <1>1, <3>2, RankNext
    <3>4. QED BY <2>1, <3>3 DEF f, d
  <2>5. ASSUME s = n PROVE Cardinality(S) < k + 1
    <3> DEFINE d == p + 1
    <3>1. d \in Nat /\ \A j \in S : j <= d
      <4>1. \A j \in S : j \in 1 .. n
        BY <1>1
      <4>2. QED BY <1>1, <2>2, <2>5, <4>1
    <3> HIDE DEF d
    <3>2. Rank(S, d) = Cardinality(S)
      BY <1>1, <3>1, RankLast
    <3>3. QED BY <2>1, <3>2 DEF d
  <2>6. QED BY <2>3, <2>4, <2>5 DEF Stands, S
<1>5. QED BY <1>1, <1>3, <1>4

LEMMA AllStand ==
  ASSUME NEW text, NEW n, NEW t, Holds(text, n, t), NEW f, Begins(text, n, f)
  PROVE  \A k \in 1 .. SH_MAX_ARGS : Stands(n, t, f[k], k)
<1> DEFINE M == SH_MAX_ARGS
           T == { k \in 1 .. M : ~Stands(n, t, f[k], k) }
<1>1. n \in Nat /\ M \in Nat
  BY ShellAssumption DEF Holds
<1> HIDE DEF M
<1>2. \A k \in 1 .. M : /\ f[k] \in 0 .. n
                        /\ f[k] = Skip(text, n, IF k = 1 THEN 0 ELSE Pass(text, n, f[k - 1]))
  BY DEF Begins, M
<1>3. SUFFICES ASSUME T # {} PROVE FALSE
  BY DEF M
<1>4. PICK k \in T : \A h \in T : k <= h
  <2>1. T \subseteq Nat
    OBVIOUS
  <2> HIDE DEF T
  <2>2. QED BY <1>3, <2>1, LeastMember
<1>5. k \in 1 .. M /\ ~Stands(n, t, f[k], k)
  BY <1>4
<1>6. CASE k = 1
  <2>1. f[k] = Skip(text, n, 0) /\ 0 \in 0 .. n
    BY <1>1, <1>2, <1>5, <1>6
  <2>2. Reaches(text, n, 0, f[k], FALSE)
    BY <1>1, <2>1, Looping
  <2>3. QED BY <1>5, <1>6, <2>2, FirstWord
<1>7. CASE k # 1
  <2> DEFINE h == k - 1
             e == Pass(text, n, f[h])
  <2>1. h \in 1 .. M /\ h < k /\ h \in Nat /\ h + 1 = k
    BY <1>1, <1>5, <1>7
  <2>2. Stands(n, t, f[h], h)
    <3>1. h \notin T
      <4>1. k \in Int /\ h \in Int
        BY <1>5, <2>1
      <4> HIDE DEF T, h
      <4>2. QED BY <1>4, <2>1, <4>1
    <3> HIDE DEF h
    <3>2. QED BY <2>1, <3>1
  <2>3. f[k] = Skip(text, n, e)
    BY <1>2, <1>5, <1>7
  <2> HIDE DEF h
  <2>4. f[h] \in 0 .. n
    BY <1>2, <2>1
  <2>5. Reaches(text, n, f[h], e, TRUE) /\ e \in f[h] .. n
    BY <1>1, <2>4, Looping
  <2> HIDE DEF e
  <2>6. e \in 0 .. n
    BY <1>1, <2>4, <2>5
  <2>7. Reaches(text, n, e, f[k], FALSE)
    BY <1>1, <2>3, <2>6, Looping
  <2>8. Stands(n, t, f[k], h + 1)
    BY <2>1, <2>2, <2>4, <2>5, <2>7, NextWord
  <2>9. QED BY <1>5, <2>1, <2>8
<1>8. QED BY <1>6, <1>7

(* The word that begins at s.                                              *)
LEMMA WordEnds ==
  ASSUME NEW text, NEW n, NEW t, Holds(text, n, t), NEW s, s + 1 \in Editor!Starts(t), s \in 0 .. n,
         NEW e, Reaches(text, n, s, e, TRUE)
  PROVE  e = CHOOSE j \in s + 1 .. n : /\ j = n \/ t[j + 1] = SPACE
                                      /\ \A h \in s + 1 .. j : t[h] # SPACE
<1> DEFINE Ends(j) == (j = n \/ t[j + 1] = SPACE) /\ \A h \in s + 1 .. j : t[h] # SPACE
<1>1. n \in Nat /\ s + 1 \in 1 .. n /\ t[s + 1] # SPACE
  BY StartsAre DEF Holds
<1>2. e \in s .. n /\ (e = n \/ text[e] = SPACE) /\ \A h \in s .. e - 1 : text[h] # SPACE
  BY DEF Reaches
<1>3. \A h \in 1 .. n : t[h] = text[h - 1]
  BY DEF Holds
<1>4. s < n /\ text[s] # SPACE
  <2>1. (s + 1) - 1 = s
    OBVIOUS
  <2>2. QED BY <1>1, <1>3, <2>1
<1>5. e \in s + 1 .. n
  BY <1>1, <1>2, <1>4
<1>6. Ends(e)
  <2>1. e # n => t[e + 1] = SPACE
    <3>1. ASSUME e # n PROVE e + 1 \in 1 .. n /\ (e + 1) - 1 = e
      BY <1>1, <1>5, <3>1
    <3>2. QED BY <1>2, <1>3, <3>1
  <2>2. ASSUME NEW h \in s + 1 .. e PROVE t[h] # SPACE
    <3>1. h - 1 \in s .. e - 1 /\ h \in 1 .. n
      BY <1>1, <1>5
    <3>2. QED BY <1>2, <1>3, <3>1
  <2>3. QED BY <2>1, <2>2
<1>7. ASSUME NEW j \in s + 1 .. n, Ends(j) PROVE j = e
  <2>1. CASE j < e
    <3>1. j + 1 \in s + 1 .. e /\ j # n
      BY <1>1, <1>5, <2>1
    <3>2. QED BY <1>6, <1>7, <3>1
  <2>2. CASE e < j
    <3>1. e + 1 \in s + 1 .. j /\ e # n
      BY <1>1, <1>5, <2>2
    <3>2. QED BY <1>6, <1>7, <3>1
  <2>3. QED BY <1>1, <1>5, <2>1, <2>2
<1> HIDE DEF Ends
<1>8. e = CHOOSE j \in s + 1 .. n : Ends(j)
  BY <1>5, <1>6, <1>7
<1>9. QED BY <1>8 DEF Ends

(* The bytes of a word.                                                    *)
LEMMA Bytes ==
  ASSUME NEW text, NEW n, NEW t, Holds(text, n, t), NEW s \in 0 .. n, NEW e \in s .. n
  PROVE  [i \in 1 .. e - s |-> text[s + i - 1]] = SubSeq(t, s + 1, e)
<1> DEFINE T == { t[i] : i \in 1 .. n }
           a == s + 1
           u == SubSeq(t, a, e)
           w == [i \in 1 .. e - s |-> text[s + i - 1]]
<1>1. n \in Nat /\ \A i \in 1 .. n : t[i] = text[i - 1]
  BY DEF Holds
<1>2. a \in Int /\ e \in Int /\ e - a + 1 = e - s /\ e - s \in Nat
  BY <1>1
<1>3. \A i \in a .. e : t[i] \in T
  <2>1. \A i \in a .. e : i \in 1 .. n
    BY <1>1
  <2>2. QED BY <2>1
<1> HIDE DEF T, a
<1>4. u \in Seq(T) /\ Len(u) = e - s /\ \A i \in 1 .. e - s : u[i] = t[a + i - 1]
  <2>1. /\ u \in Seq(T) /\ Len(u) = IF a <= e THEN e - a + 1 ELSE 0
        /\ \A i \in 1 .. e - a + 1 : u[i] = t[a + i - 1]
    BY <1>2, <1>3, SubSeqProperties
  <2>2. a <= e \/ e - s = 0
    BY <1>1, <1>2
  <2> HIDE DEF u
  <2>3. QED BY <1>2, <2>1, <2>2
<1>5. DOMAIN u = 1 .. e - s
  <2>1. DOMAIN u = 1 .. Len(u)
    BY <1>4, LenProperties
  <2>2. QED BY <1>4, <2>1
<1>6. u = [i \in 1 .. e - s |-> u[i]]
  <2>1. u \in [1 .. e - s -> T]
    <3>1. u \in [1 .. Len(u) -> T]
      BY <1>4, LenProperties
    <3>2. QED BY <1>4, <3>1
  <2> HIDE DEF u
  <2>2. QED BY <2>1
<1> HIDE DEF u
<1>7. \A i \in 1 .. e - s : u[i] = text[s + i - 1]
  <2> SUFFICES ASSUME NEW i \in 1 .. e - s PROVE u[i] = text[s + i - 1]
    OBVIOUS
  <2>1. a + i - 1 \in 1 .. n /\ (a + i - 1) - 1 = s + i - 1
    BY <1>1 DEF a
  <2>2. u[i] = t[a + i - 1]
    BY <1>4
  <2> DEFINE j == a + i - 1
  <2>3. j \in 1 .. n /\ j - 1 = s + i - 1 /\ u[i] = t[j]
    BY <2>1, <2>2
  <2> HIDE DEF j
  <2>4. QED BY <1>1, <2>3
<1>8. u = w
  BY <1>6, <1>7
<1>9. QED BY <1>8 DEF u, a

(* Counting the words.                                                     *)
LEMMA WordCount ==
  ASSUME NEW text, NEW n, NEW t, Holds(text, n, t), NEW f, Begins(text, n, f)
  PROVE  LET all == { k \in 1 .. SH_MAX_ARGS : k <= Cardinality(Editor!Starts(t)) } IN
         /\ { k \in 1 .. SH_MAX_ARGS : f[k] < n } = all
         /\ 1 .. Cardinality(all) = all
<1> DEFINE M == SH_MAX_ARGS
           S == Editor!Starts(t)
           c == Cardinality(S)
           all == { k \in 1 .. M : k <= c }
<1>1. n \in Nat /\ S \subseteq 1 .. n /\ c \in Nat
  BY StartsFinite
<1>2. M \in Nat
  BY ShellAssumption
<1>3. \A k \in 1 .. M : f[k] \in 0 .. n /\ Stands(n, t, f[k], k)
  BY AllStand DEF Begins
<1> HIDE DEF M, S, c
<1>4. ASSUME NEW k \in 1 .. M PROVE f[k] < n <=> k <= c
  <2>1. CASE f[k] < n
    <3>1. f[k] + 1 \in S /\ Rank(S, f[k] + 1) = k
      BY <1>3, <2>1 DEF Stands, S
    <3> DEFINE e == f[k] + 1
    <3>2. e \in S /\ Rank(S, e) = k
      BY <3>1
    <3> HIDE DEF e
    <3>3. k \in 1 .. Cardinality(S)
      BY <1>1, <3>2, NthRank
    <3>4. QED BY <2>1, <3>3 DEF c
  <2>2. CASE f[k] = n
    <3>1. Cardinality(S) < k
      BY <1>3, <2>2 DEF Stands, S
    <3>2. QED BY <1>1, <2>2, <3>1 DEF c
  <2>3. QED BY <1>1, <1>3, <2>1, <2>2
<1>5. { k \in 1 .. M : f[k] < n } = all
  BY <1>4, Zenon
<1> DEFINE m == IF M <= c THEN M ELSE c
<1>6. m \in Nat /\ all = 1 .. m
  <2>1. \A k \in Int : k \in all <=> k \in 1 .. m
    BY <1>1, <1>2
  <2>2. all \subseteq Int /\ 1 .. m \subseteq Int
    OBVIOUS
  <2> HIDE DEF all, m
  <2>3. all = 1 .. m
    BY <2>1, <2>2
  <2>4. QED BY <1>1, <1>2, <2>3 DEF m
<1> HIDE DEF m, all
<1>7. Cardinality(1 .. m) = m
  BY <1>6, FS_Interval
<1>8. 1 .. Cardinality(all) = all
  BY <1>6, <1>7
<1>9. QED BY <1>5, <1>8 DEF all, M, c, S

(* The words that _shell_exec finds in the buffer are those of the text.   *)
LEMMA TokensAre ==
  ASSUME NEW text, NEW t, Holds(text, Len(t), t)
  PROVE  Tokens(text, Len(t)) = Editor!Words(t)
<1> DEFINE n == Len(t)
           M == SH_MAX_ARGS
           S == Editor!Starts(t)
           all == { k \in 1 .. M : k <= Cardinality(S) }
           f == CHOOSE g : g = [k \in 1 .. SH_MAX_ARGS |->
                  Skip(text, n, IF k = 1 THEN 0 ELSE Pass(text, n, g[k - 1]))]
           Stop(k) == IF k = M THEN n ELSE Pass(text, n, f[k])
           End(i) == CHOOSE j \in i .. n : /\ j = n \/ t[j + 1] = SPACE
                                           /\ \A h \in i .. j : t[h] # SPACE
           Found(k) == [i \in 1 .. Stop(k) - f[k] |-> text[f[k] + i - 1]]
           Meant(k) == SubSeq(t, Nth(S, k), IF k = M THEN n ELSE End(Nth(S, k)))
           number == 1 .. Cardinality({ k \in 1 .. M : f[k] < n })
<1>1. Tokens(text, n) = [k \in number |-> Found(k)]
  BY DEF Tokens
<1>2. Editor!Words(t) = [k \in all |-> Meant(k)]
  <2>1. Editor!Words(t) = [k \in { k \in 1 .. M : k <= Editor!Cardinality(S) } |->
          SubSeq(t, Editor!Nth(S, k), IF k = M THEN n ELSE End(Editor!Nth(S, k)))]
    BY DEF Editor!Words
  <2> HIDE DEF End, S, M, n
  <2>2. Editor!Cardinality(S) = Cardinality(S) /\ \A k : Editor!Nth(S, k) = Nth(S, k)
    BY SameNth, SameCount
  <2>3. QED BY <2>1, <2>2
<1>3. n \in Nat /\ S \subseteq 1 .. n
  BY StartsFinite
<1>4. Begins(text, n, f)
  BY <1>3, Recurses
<1> HIDE DEF f
<1>5. number = all /\ { k \in 1 .. M : f[k] < n } = all
  BY <1>4, WordCount
<1> HIDE DEF number
<1>6. ASSUME NEW k \in all PROVE Found(k) = Meant(k)
  <2>1. k \in 1 .. M /\ f[k] < n
    BY <1>5
  <2>2. f[k] \in 0 .. n /\ Stands(n, t, f[k], k)
    BY <1>4, <2>1, AllStand DEF Begins
  <2> DEFINE s == f[k]
             e == Pass(text, n, s)
             w == s + 1
  <2>3. w \in S /\ Rank(S, w) = k
    BY <2>1, <2>2 DEF Stands
  <2> HIDE DEF S, w, s
  <2>4. Nth(S, k) = w
    BY <1>3, <2>3, NthRank
  <2>5. Reaches(text, n, s, e, TRUE) /\ e \in s .. n /\ s \in 0 .. n
    BY <1>3, <2>2, Looping DEF s
  <2> HIDE DEF e
  <2>6. e = End(w)
    BY <2>3, <2>5, WordEnds DEF S, w
  <2> HIDE DEF End
  <2>7. CASE k = M
    <3>1. Found(k) = [i \in 1 .. n - s |-> text[s + i - 1]] /\ Meant(k) = SubSeq(t, w, n)
      BY <2>4, <2>7 DEF s
    <3>2. n \in s .. n
      BY <1>3, <2>5
    <3>3. [i \in 1 .. n - s |-> text[s + i - 1]] = SubSeq(t, s + 1, n)
      BY <2>5, <3>2, Bytes
    <3> HIDE DEF Found, Meant
    <3>4. QED BY <3>1, <3>3 DEF w
  <2>8. CASE k # M
    <3>1. Found(k) = [i \in 1 .. e - s |-> text[s + i - 1]] /\ Meant(k) = SubSeq(t, w, e)
      BY <2>4, <2>6, <2>8 DEF s, e
    <3>2. [i \in 1 .. e - s |-> text[s + i - 1]] = SubSeq(t, s + 1, e)
      BY <2>5, Bytes
    <3> HIDE DEF Found, Meant
    <3>3. QED BY <3>1, <3>2 DEF w
  <2>9. QED BY <2>7, <2>8
<1> HIDE DEF Found, Meant, all
<1>7. QED BY <1>1, <1>2, <1>5, <1>6

(* t is the part of a buffer of letters from a up to b.                    *)
Piece(t, buf, a, b) ==
  t \in Seq(Typed) /\ Len(t) = b - a /\ \A i \in 1 .. b - a : t[i] = buf[a + i - 1]

LEMMA PieceOf ==
  ASSUME NEW buf, NEW a \in Nat, NEW b \in Nat, a <= b, \A i \in a .. b - 1 : buf[i] \in Typed,
         NEW t, t = [i \in 1 .. b - a |-> buf[a + i - 1]]
  PROVE  Piece(t, buf, a, b)
<1>1. b - a \in Nat
  OBVIOUS
<1>2. \A i \in 1 .. b - a : t[i] = buf[a + i - 1] /\ buf[a + i - 1] \in Typed
  <2>1. \A i \in 1 .. b - a : a + i - 1 \in a .. b - 1
    OBVIOUS
  <2>2. QED BY <2>1
<1>3. t \in [1 .. b - a -> Typed]
  BY <1>2
<1>4. t \in Seq(Typed)
  BY <1>1, <1>3, SeqDef
<1>5. Len(t) = b - a
  <2>1. DOMAIN t = 1 .. b - a /\ DOMAIN t = 1 .. Len(t) /\ Len(t) \in Nat
    BY <1>3, <1>4, LenProperties
  <2>2. QED BY <1>1, <2>1
<1>6. QED BY <1>2, <1>4, <1>5 DEF Piece

(* Two that agree are equal.                                               *)
LEMMA SamePiece ==
  ASSUME NEW t \in Seq(Typed), NEW u \in Seq(Typed), Len(t) = Len(u), \A i \in 1 .. Len(t) : t[i] = u[i]
  PROVE  t = u
BY SeqEqual

(* The line that is edited, on both sides of the cursor.                   *)
Halves(l, r, buf, pos, len) ==
  /\ pos \in 0 .. len /\ len \in 0 .. SH_MAX_LINE_LEN
  /\ Piece(l, buf, 0, pos) /\ Piece(r, buf, pos, len)

LEMMA HalvesOf ==
  ASSUME NEW buf, NEW len \in 0 .. SH_MAX_LINE_LEN, NEW pos \in 0 .. len,
         \A i \in 0 .. len - 1 : buf[i] \in Typed,
         NEW l, l = [i \in 1 .. pos - 0 |-> buf[0 + i - 1]],
         NEW r, r = [i \in 1 .. len - pos |-> buf[pos + i - 1]]
  PROVE  Halves(l, r, buf, pos, len)
<1>1. /\ pos \in Nat /\ len \in Nat /\ 0 <= pos /\ pos <= len
      /\ \A i \in 0 .. pos - 1 : buf[i] \in Typed
      /\ \A i \in pos .. len - 1 : buf[i] \in Typed
  BY ShellAssumption
<1>2. Piece(l, buf, 0, pos)
  BY <1>1, PieceOf
<1>3. Piece(r, buf, pos, len)
  BY <1>1, PieceOf
<1>4. QED BY <1>2, <1>3 DEF Halves

Sides(l, r, buf, pos, len) ==
  /\ pos \in 0 .. len /\ len \in 0 .. SH_MAX_LINE_LEN /\ len \in Nat /\ pos \in Nat
  /\ l \in Seq(Typed) /\ Len(l) = pos /\ \A i \in 1 .. pos : l[i] = buf[i - 1]
  /\ r \in Seq(Typed) /\ Len(r) = len - pos /\ \A i \in 1 .. len - pos : r[i] = buf[pos + i - 1]

LEMMA SidesOf ==
  ASSUME NEW l, NEW r, NEW buf, NEW pos, NEW len, Halves(l, r, buf, pos, len)
  PROVE  Sides(l, r, buf, pos, len)
<1>1. pos \in 0 .. len /\ len \in 0 .. SH_MAX_LINE_LEN /\ len \in Nat /\ pos \in Nat
  BY ShellAssumption DEF Halves
<1>2. pos - 0 = pos /\ \A i \in 1 .. pos : 0 + i - 1 = i - 1
  BY <1>1
<1>3. QED BY <1>1, <1>2 DEF Halves, Piece, Sides

(* The front of a line, and one that has got a letter in front of it.      *)
LEMMA FrontIs ==
  ASSUME NEW t \in Seq(Typed), NEW n \in Nat, n > 0, Len(t) = n,
         NEW u \in Seq(Typed), Len(u) = n - 1, \A i \in 1 .. n - 1 : u[i] = t[i]
  PROVE  u = SubSeq(t, 1, Len(t) - 1)
<1> DEFINE v == SubSeq(t, 1, n - 1)
<1>1. n - 1 \in Int /\ \A i \in 1 .. n - 1 : t[i] \in Typed
  BY ElementOfSeq
<1>2. /\ v \in Seq(Typed) /\ Len(v) = (IF 1 <= n - 1 THEN n - 1 - 1 + 1 ELSE 0)
      /\ \A i \in 1 .. n - 1 - 1 + 1 : v[i] = t[1 + i - 1]
  BY <1>1, SubSeqProperties
<1> HIDE DEF v
<1>3. Len(v) = n - 1 /\ \A i \in 1 .. n - 1 : v[i] = t[i]
  <2>1. n - 1 - 1 + 1 = n - 1 /\ (~(1 <= n - 1) => n - 1 = 0)
    OBVIOUS
  <2>2. \A i \in 1 .. n - 1 : 1 + i - 1 = i
    OBVIOUS
  <2>3. QED BY <1>2, <2>1, <2>2
<1>4. u = v
  BY <1>2, <1>3, SamePiece
<1>5. QED BY <1>4 DEF v

LEMMA PrefixIs ==
  ASSUME NEW c \in Typed, NEW t \in Seq(Typed)
  PROVE  LET u == << c >> \o t IN
         /\ u \in Seq(Typed) /\ Len(u) = 1 + Len(t) /\ u[1] = c
         /\ \A i \in 2 .. 1 + Len(t) : u[i] = t[i - 1]
<1> DEFINE s == << c >>
           u == s \o t
<1>1. s \in Seq(Typed) /\ Len(s) = 1 /\ s[1] = c
  OBVIOUS
<1>2. Len(t) \in Nat
  BY LenProperties
<1> HIDE DEF s
<1>3. /\ u \in Seq(Typed) /\ Len(u) = Len(s) + Len(t)
      /\ \A i \in 1 .. Len(s) + Len(t) : u[i] = IF i <= Len(s) THEN s[i] ELSE t[i - Len(s)]
  BY <1>1, ConcatProperties
<1> HIDE DEF u
<1>4. u[1] = c /\ \A i \in 2 .. 1 + Len(t) : u[i] = t[i - 1]
  BY <1>1, <1>2, <1>3
<1>5. QED BY <1>1, <1>3, <1>4 DEF u, s

LEMMA HalvesNow == ASSUME TypeOK, Edited PROVE Halves(left, right, cmd_buf, cmd_pos, cmd_len)
<1>1. /\ cmd_pos \in 0 .. cmd_len /\ cmd_len \in 0 .. SH_MAX_LINE_LEN
      /\ \A i \in 0 .. cmd_len - 1 : cmd_buf[i] \in Typed
  BY DEF TypeOK, Edited
<1>2. /\ left = [i \in 1 .. cmd_pos - 0 |-> cmd_buf[0 + i - 1]]
      /\ right = [i \in 1 .. cmd_len - cmd_pos |-> cmd_buf[cmd_pos + i - 1]]
  BY DEF left, right, Text
<1>3. QED BY <1>1, <1>2, HalvesOf

LEMMA HalvesThen == ASSUME TypeOK', Edited' PROVE Halves(left', right', cmd_buf', cmd_pos', cmd_len')
<1>1. /\ cmd_pos' \in 0 .. cmd_len' /\ cmd_len' \in 0 .. SH_MAX_LINE_LEN
      /\ \A i \in 0 .. cmd_len' - 1 : cmd_buf'[i] \in Typed
  BY DEF TypeOK, Edited
<1>2. /\ left' = [i \in 1 .. cmd_pos' - 0 |-> cmd_buf'[0 + i - 1]]
      /\ right' = [i \in 1 .. cmd_len' - cmd_pos' |-> cmd_buf'[cmd_pos' + i - 1]]
  BY DEF left, right, Text
<1>3. QED BY <1>1, <1>2, HalvesOf

(* What memmove leaves in the buffer.                                      *)
LEMMA InsertMoves ==
  ASSUME BufOK, cmd_pos \in 0 .. cmd_len, cmd_len \in 0 .. SH_MAX_LINE_LEN, NEW c, insert(c)
  PROVE  \A i \in 0 .. cmd_len :
           cmd_buf'[i] = IF i = cmd_pos THEN c ELSE IF i > cmd_pos THEN cmd_buf[i - 1] ELSE cmd_buf[i]
<1> DEFINE moved == Moved(cmd_pos + 1, cmd_pos, cmd_len - cmd_pos)
<1> USE ShellAssumption
<1>1. cmd_len < SH_MAX_LINE_LEN /\ cmd_buf' = [moved EXCEPT ![cmd_pos] = c]
  BY DEF insert
<1>2. \A i \in Line :
        moved[i] = IF i \in cmd_pos + 1 .. cmd_len THEN cmd_buf[i - 1] ELSE cmd_buf[i]
  BY DEF Moved, Line
<1>3. DOMAIN moved = Line
  BY DEF Moved
<1> HIDE DEF moved
<1>4. \A i \in 0 .. cmd_len : i \in Line
  BY DEF Line
<1>5. \A i \in 0 .. cmd_len : cmd_buf'[i] = IF i = cmd_pos THEN c ELSE moved[i]
  BY <1>1, <1>3, <1>4
<1>6. QED BY <1>2, <1>4, <1>5

LEMMA DeleteMoves ==
  ASSUME BufOK, cmd_len \in 0 .. SH_MAX_LINE_LEN, NEW w \in 0 .. cmd_len - 1, delete(w)
  PROVE  \A i \in 0 .. cmd_len - 1 :
           cmd_buf'[i] = IF i >= w THEN cmd_buf[i + 1] ELSE cmd_buf[i]
BY ShellAssumption DEF delete, Moved, Line

(* A letter goes before the cursor.                                        *)
LEMMA TypeMaps ==
  ASSUME TypeOK, TypeOK', Edited, Edited', NEW c \in Typed, insert(c), UNCHANGED ran
  PROVE  Editor!Type
<1>1. Halves(left, right, cmd_buf, cmd_pos, cmd_len) /\ Halves(left', right', cmd_buf', cmd_pos', cmd_len')
  BY HalvesNow, HalvesThen
<1>2. cmd_len < SH_MAX_LINE_LEN /\ cmd_pos' = cmd_pos + 1 /\ cmd_len' = cmd_len + 1
  BY DEF insert
<1>3. cmd_pos \in 0 .. cmd_len /\ cmd_len \in 0 .. SH_MAX_LINE_LEN
  BY <1>1 DEF Halves
<1>4. \A i \in 0 .. cmd_len :
        cmd_buf'[i] = IF i = cmd_pos THEN c ELSE IF i > cmd_pos THEN cmd_buf[i - 1] ELSE cmd_buf[i]
  BY <1>3, InsertMoves DEF TypeOK, BufOK
<1> DEFINE app == Append(left, c)
<1>5. /\ app \in Seq(Typed) /\ Len(app) = Len(left) + 1 /\ app[Len(left) + 1] = c
      /\ \A i \in 1 .. Len(left) : app[i] = left[i]
  BY <1>1, AppendProperties DEF Halves, Piece
<1> HIDE DEF app
<1>6. left' = app
  <2>1. /\ Len(left') = cmd_pos + 1 /\ Len(app) = cmd_pos + 1 /\ left' \in Seq(Typed)
        /\ \A i \in 1 .. cmd_pos + 1 : left'[i] = cmd_buf'[i - 1]
    <3>1. /\ left' \in Seq(Typed) /\ Len(left') = cmd_pos' - 0 /\ Len(left) = cmd_pos - 0
          /\ \A i \in 1 .. cmd_pos' - 0 : left'[i] = cmd_buf'[0 + i - 1]
      BY <1>1 DEF Halves, Piece
    <3>2. cmd_pos' - 0 = cmd_pos + 1 /\ cmd_pos - 0 = cmd_pos
      BY <1>2, <1>3, ShellAssumption
    <3>3. \A i \in 1 .. cmd_pos + 1 : 0 + i - 1 = i - 1
      OBVIOUS
    <3>4. QED BY <1>5, <3>1, <3>2, <3>3
  <2>2. \A i \in 1 .. cmd_pos : app[i] = cmd_buf[i - 1]
    BY <1>1, <1>3, <1>5, ShellAssumption DEF Halves, Piece
  <2>3. app[cmd_pos + 1] = c
    BY <1>1, <1>3, <1>5, ShellAssumption DEF Halves, Piece
  <2>4. ASSUME NEW i \in 1 .. cmd_pos + 1 PROVE left'[i] = app[i]
    <3>1. i - 1 \in 0 .. cmd_len /\ left'[i] = cmd_buf'[i - 1]
      BY <1>3, <2>1, <2>4, ShellAssumption
    <3>2. CASE i = cmd_pos + 1
      BY <1>3, <1>4, <2>3, <3>1, <3>2, ShellAssumption
    <3>3. CASE i # cmd_pos + 1
      <4>1. i \in 1 .. cmd_pos /\ i - 1 < cmd_pos
        BY <1>3, <3>3, ShellAssumption
      <4>2. cmd_buf'[i - 1] = cmd_buf[i - 1]
        BY <1>3, <1>4, <3>1, <4>1, ShellAssumption
      <4>3. QED BY <2>2, <3>1, <4>1, <4>2
    <3>4. QED BY <3>2, <3>3
  <2>5. QED BY <1>5, <2>1, <2>4, SamePiece
<1>7. right' = right
  <2>1. /\ Len(right') = cmd_len - cmd_pos /\ Len(right) = cmd_len - cmd_pos
        /\ right \in Seq(Typed) /\ right' \in Seq(Typed)
        /\ \A i \in 1 .. cmd_len - cmd_pos : right[i] = cmd_buf[cmd_pos + i - 1]
        /\ \A i \in 1 .. cmd_len - cmd_pos : right'[i] = cmd_buf'[cmd_pos + 1 + i - 1]
    <3>1. cmd_len' - cmd_pos' = cmd_len - cmd_pos
      BY <1>2, <1>3, ShellAssumption
    <3>2. QED BY <1>1, <1>2, <3>1 DEF Halves, Piece
  <2>2. ASSUME NEW i \in 1 .. cmd_len - cmd_pos PROVE right'[i] = right[i]
    <3> DEFINE j == cmd_pos + 1 + i - 1
    <3>1. j \in 0 .. cmd_len /\ j > cmd_pos /\ j - 1 = cmd_pos + i - 1 /\ j # cmd_pos
      BY <1>3, <2>2, ShellAssumption
    <3>2. right'[i] = cmd_buf'[j]
      BY <2>1
    <3> HIDE DEF j
    <3>3. cmd_buf'[j] = cmd_buf[j - 1]
      BY <1>4, <3>1
    <3>4. QED BY <2>1, <3>1, <3>2, <3>3
  <2>3. QED BY <2>1, <2>2, SamePiece
<1>8. Len(left) + Len(right) < SH_MAX_LINE_LEN
  BY <1>1, <1>2, <1>3, ShellAssumption DEF Halves, Piece
<1>9. QED BY <1>6, <1>7, <1>8 DEF Editor!Type, app

(* What the cursor passes over moves from one side to the other.           *)
LEMMA BackMaps ==
  ASSUME TypeOK, TypeOK', Edited, Edited', cmd_pos > 0, cmd_pos' = cmd_pos - 1,
         UNCHANGED << cmd_buf, cmd_len, ran >>
  PROVE  Editor!Back
<1>1. Sides(left, right, cmd_buf, cmd_pos, cmd_len) /\ Sides(left', right', cmd_buf, cmd_pos - 1, cmd_len)
  <2>1. Sides(left', right', cmd_buf', cmd_pos', cmd_len')
    BY HalvesThen, SidesOf
  <2>2. QED BY <2>1, HalvesNow, SidesOf
<1>2. cmd_pos \in 1 .. cmd_len /\ cmd_len \in Nat
  BY <1>1 DEF Sides
<1>3. /\ left \in Seq(Typed) /\ Len(left) = cmd_pos /\ \A i \in 1 .. cmd_pos : left[i] = cmd_buf[i - 1]
      /\ right \in Seq(Typed) /\ Len(right) = cmd_len - cmd_pos
      /\ \A i \in 1 .. cmd_len - cmd_pos : right[i] = cmd_buf[cmd_pos + i - 1]
  BY <1>1 DEF Sides
<1>4. /\ left' \in Seq(Typed) /\ Len(left') = cmd_pos - 1
      /\ \A i \in 1 .. cmd_pos - 1 : left'[i] = cmd_buf[i - 1]
      /\ right' \in Seq(Typed) /\ Len(right') = cmd_len - (cmd_pos - 1)
      /\ \A i \in 1 .. cmd_len - (cmd_pos - 1) : right'[i] = cmd_buf[cmd_pos - 1 + i - 1]
  BY <1>1 DEF Sides
<1>5. left' = SubSeq(left, 1, Len(left) - 1)
  <2>1. cmd_pos \in Nat /\ cmd_pos > 0
    BY <1>2
  <2>2. ASSUME NEW i \in 1 .. cmd_pos - 1 PROVE left'[i] = left[i]
    <3>1. i \in 1 .. cmd_pos
      BY <2>1
    <3>2. left[i] = cmd_buf[i - 1]
      BY <1>3, <3>1
    <3>3. left'[i] = cmd_buf[i - 1]
      BY <1>4
    <3>4. QED BY <3>2, <3>3
  <2>3. QED BY <1>3, <1>4, <2>1, <2>2, FrontIs
<1> DEFINE u == << left[Len(left)] >> \o right
<1>6. left[Len(left)] \in Typed /\ left[Len(left)] = cmd_buf[cmd_pos - 1]
  BY <1>2, <1>3, ElementOfSeq
<1>7. right' = u
  <2>1. /\ u \in Seq(Typed) /\ Len(u) = 1 + Len(right) /\ u[1] = left[Len(left)]
        /\ \A i \in 2 .. 1 + Len(right) : u[i] = right[i - 1]
    BY <1>3, <1>6, PrefixIs
  <2> HIDE DEF u
  <2>2. Len(right') = Len(u) /\ Len(u) = cmd_len - cmd_pos + 1
    BY <1>2, <1>3, <1>4, <2>1
  <2>3. ASSUME NEW i \in 1 .. Len(right') PROVE right'[i] = u[i]
    <3>1. right'[i] = cmd_buf[cmd_pos - 1 + i - 1]
      BY <1>4
    <3>2. CASE i = 1
      <4>1. cmd_pos - 1 + i - 1 = cmd_pos - 1
        BY <1>2, <3>2
      <4>2. QED BY <1>6, <2>1, <3>1, <3>2, <4>1
    <3>3. CASE i # 1
      <4> DEFINE j == i - 1
      <4>1. i \in 2 .. 1 + Len(right) /\ j \in 1 .. cmd_len - cmd_pos /\ cmd_pos - 1 + i - 1 = cmd_pos + j - 1
        BY <1>2, <1>3, <1>4, <2>2, <3>3
      <4>2. u[i] = right[j]
        BY <2>1, <4>1
      <4> HIDE DEF j
      <4>3. right[j] = cmd_buf[cmd_pos + j - 1]
        BY <1>3, <4>1
      <4>4. QED BY <3>1, <4>1, <4>2, <4>3
    <3>4. QED BY <3>2, <3>3
  <2>4. QED BY <1>4, <2>1, <2>2, <2>3, SamePiece
<1>8. left # << >>
  BY <1>2, <1>3, EmptySeq
<1>9. QED BY <1>5, <1>7, <1>8 DEF Editor!Back, Editor!Front, Editor!Last

LEMMA TailIs ==
  ASSUME NEW t \in Seq(Typed), NEW n \in Nat, n > 0, Len(t) = n,
         NEW u \in Seq(Typed), Len(u) = n - 1, \A i \in 1 .. n - 1 : u[i] = t[i + 1]
  PROVE  u = Tail(t) /\ Head(t) = t[1] /\ t # << >>
<1>1. t # << >>
  BY EmptySeq
<1> DEFINE v == Tail(t)
<1>2. v \in Seq(Typed) /\ Len(v) = Len(t) - 1 /\ \A i \in 1 .. Len(v) : v[i] = t[i + 1]
  BY <1>1, HeadTailProperties
<1>3. Head(t) = t[1]
  BY <1>1
<1> HIDE DEF v
<1>4. u = v
  <2>1. Len(u) = Len(v) /\ \A i \in 1 .. Len(u) : u[i] = v[i]
    BY <1>2
  <2>2. QED BY <1>2, <2>1, SamePiece
<1>5. QED BY <1>1, <1>3, <1>4 DEF v

LEMMA AppendIs ==
  ASSUME NEW t \in Seq(Typed), NEW n \in Nat, Len(t) = n, NEW c \in Typed,
         NEW u \in Seq(Typed), Len(u) = n + 1, u[n + 1] = c, \A i \in 1 .. n : u[i] = t[i]
  PROVE  u = Append(t, c)
<1> DEFINE v == Append(t, c)
<1>1. /\ v \in Seq(Typed) /\ Len(v) = Len(t) + 1
      /\ \A i \in 1 .. Len(t) : v[i] = t[i] /\ v[Len(t) + 1] = c
  BY AppendProperties
<1>2. v[Len(t) + 1] = c
  BY AppendProperties
<1> HIDE DEF v
<1>3. ASSUME NEW i \in 1 .. Len(u) PROVE u[i] = v[i]
  <2>1. i \in 1 .. n \/ i = n + 1
    OBVIOUS
  <2>2. QED BY <1>1, <1>2, <2>1
<1>4. u = v
  BY <1>1, <1>3, SamePiece
<1>5. QED BY <1>4 DEF v

(* The two sides of the cursor, before and after a key.                    *)
LEMMA SidesNow ==
  ASSUME TypeOK, TypeOK', Edited, Edited'
  PROVE  Sides(left, right, cmd_buf, cmd_pos, cmd_len) /\ Sides(left', right', cmd_buf', cmd_pos', cmd_len')
BY HalvesNow, HalvesThen, SidesOf

LEMMA ForwardMaps ==
  ASSUME TypeOK, TypeOK', Edited, Edited', cmd_pos < cmd_len, cmd_pos' = cmd_pos + 1,
         UNCHANGED << cmd_buf, cmd_len, ran >>
  PROVE  Editor!Forward
<1>1. Sides(left, right, cmd_buf, cmd_pos, cmd_len) /\ Sides(left', right', cmd_buf, cmd_pos + 1, cmd_len)
  BY SidesNow
<1>2. cmd_pos \in Nat /\ cmd_len \in Nat
  BY <1>1 DEF Sides
<1>3. /\ left \in Seq(Typed) /\ Len(left) = cmd_pos /\ \A i \in 1 .. cmd_pos : left[i] = cmd_buf[i - 1]
      /\ right \in Seq(Typed) /\ Len(right) = cmd_len - cmd_pos
      /\ \A i \in 1 .. cmd_len - cmd_pos : right[i] = cmd_buf[cmd_pos + i - 1]
  BY <1>1 DEF Sides
<1>4. /\ left' \in Seq(Typed) /\ Len(left') = cmd_pos + 1
      /\ \A i \in 1 .. cmd_pos + 1 : left'[i] = cmd_buf[i - 1]
      /\ right' \in Seq(Typed) /\ Len(right') = cmd_len - (cmd_pos + 1)
      /\ \A i \in 1 .. cmd_len - (cmd_pos + 1) : right'[i] = cmd_buf[cmd_pos + 1 + i - 1]
  BY <1>1 DEF Sides
<1> DEFINE n == cmd_len - cmd_pos
<1>5. n \in Nat /\ n > 0 /\ n - 1 = cmd_len - (cmd_pos + 1)
  BY <1>2
<1>6. \A i \in 1 .. n - 1 : right'[i] = right[i + 1]
  <2> SUFFICES ASSUME NEW i \in 1 .. n - 1 PROVE right'[i] = right[i + 1]
    OBVIOUS
  <2> DEFINE j == i + 1
  <2>1. j \in 1 .. n /\ i \in 1 .. cmd_len - (cmd_pos + 1) /\ cmd_pos + 1 + i - 1 = cmd_pos + j - 1
    BY <1>2, <1>5
  <2>2. right'[i] = cmd_buf[cmd_pos + j - 1]
    <3>1. right'[i] = cmd_buf[cmd_pos + 1 + i - 1]
      BY <1>4, <2>1
    <3>2. QED BY <2>1, <3>1
  <2> HIDE DEF j
  <2>3. right[j] = cmd_buf[cmd_pos + j - 1]
    BY <1>3, <2>1
  <2>4. QED BY <2>2, <2>3 DEF j
<1>7. 1 \in 1 .. n /\ right[1] \in Typed /\ right[1] = cmd_buf[cmd_pos]
  <2>1. 1 \in 1 .. n /\ cmd_pos + 1 - 1 = cmd_pos
    BY <1>2, <1>5
  <2>2. right[1] = cmd_buf[cmd_pos + 1 - 1]
    BY <1>3, <2>1
  <2>3. right[1] \in Typed
    BY <1>3, <2>1, ElementOfSeq
  <2>4. QED BY <2>1, <2>2, <2>3
<1> HIDE DEF n
<1>8. Len(right) = n /\ Len(right') = n - 1
  BY <1>3, <1>4, <1>5 DEF n
<1>9. right' = Tail(right) /\ Head(right) = right[1] /\ right # << >>
  BY <1>3, <1>4, <1>5, <1>6, <1>8, TailIs
<1>10. left' = Append(left, right[1])
  <2>1. ASSUME NEW i \in 1 .. cmd_pos PROVE left'[i] = left[i]
    <3>1. i \in 1 .. cmd_pos + 1
      BY <1>2
    <3>2. QED BY <1>3, <1>4, <3>1
  <2>2. left'[cmd_pos + 1] = right[1]
    <3>1. cmd_pos + 1 \in 1 .. cmd_pos + 1 /\ (cmd_pos + 1) - 1 = cmd_pos
      BY <1>2
    <3>2. left'[cmd_pos + 1] = cmd_buf[(cmd_pos + 1) - 1]
      BY <1>4, <3>1
    <3>3. QED BY <1>7, <3>1, <3>2
  <2>3. QED BY <1>2, <1>3, <1>4, <1>7, <2>1, <2>2, AppendIs
<1>11. QED BY <1>9, <1>10 DEF Editor!Forward

(* Erasing takes the byte before the cursor, or the one under it.          *)
LEMMA EraseUnderMaps ==
  ASSUME TypeOK, TypeOK', Edited, Edited', cmd_pos # cmd_len, delete(cmd_pos), UNCHANGED << cmd_pos, ran >>
  PROVE  Editor!EraseUnder
<1>1. Sides(left, right, cmd_buf, cmd_pos, cmd_len) /\ Sides(left', right', cmd_buf', cmd_pos, cmd_len - 1)
  BY SidesNow DEF delete
<1>2. cmd_pos \in Nat /\ cmd_len \in Nat /\ cmd_pos \in 0 .. cmd_len - 1 /\ cmd_len \in 0 .. SH_MAX_LINE_LEN
  BY <1>1 DEF Sides
<1>3. /\ left \in Seq(Typed) /\ Len(left) = cmd_pos /\ \A i \in 1 .. cmd_pos : left[i] = cmd_buf[i - 1]
      /\ right \in Seq(Typed) /\ Len(right) = cmd_len - cmd_pos
      /\ \A i \in 1 .. cmd_len - cmd_pos : right[i] = cmd_buf[cmd_pos + i - 1]
  BY <1>1 DEF Sides
<1>4. /\ left' \in Seq(Typed) /\ Len(left') = cmd_pos
      /\ \A i \in 1 .. cmd_pos : left'[i] = cmd_buf'[i - 1]
      /\ right' \in Seq(Typed) /\ Len(right') = (cmd_len - 1) - cmd_pos
      /\ \A i \in 1 .. (cmd_len - 1) - cmd_pos : right'[i] = cmd_buf'[cmd_pos + i - 1]
  BY <1>1 DEF Sides
<1>5. \A i \in 0 .. cmd_len - 1 : cmd_buf'[i] = IF i >= cmd_pos THEN cmd_buf[i + 1] ELSE cmd_buf[i]
  BY <1>2, DeleteMoves DEF TypeOK, BufOK
<1>6. left' = left
  <2>1. \A i \in 1 .. cmd_pos : cmd_buf'[i - 1] = cmd_buf[i - 1]
    <3> SUFFICES ASSUME NEW i \in 1 .. cmd_pos PROVE cmd_buf'[i - 1] = cmd_buf[i - 1]
      OBVIOUS
    <3>1. i - 1 \in 0 .. cmd_len - 1 /\ ~(i - 1 >= cmd_pos)
      BY <1>2
    <3>2. QED BY <1>5, <3>1
  <2>2. QED BY <1>3, <1>4, <2>1, SamePiece
<1> DEFINE n == cmd_len - cmd_pos
<1>7. n \in Nat /\ n > 0 /\ n - 1 = (cmd_len - 1) - cmd_pos
  BY <1>2
<1>8. \A i \in 1 .. n - 1 : right'[i] = right[i + 1]
  <2> SUFFICES ASSUME NEW i \in 1 .. n - 1 PROVE right'[i] = right[i + 1]
    OBVIOUS
  <2> DEFINE j == cmd_pos + i - 1
             k == i + 1
  <2>1. /\ j \in 0 .. cmd_len - 1 /\ j >= cmd_pos /\ i \in 1 .. (cmd_len - 1) - cmd_pos
        /\ k \in 1 .. n /\ j + 1 = cmd_pos + k - 1
    BY <1>2, <1>7
  <2>2. right'[i] = cmd_buf'[j]
    BY <1>4, <2>1
  <2> HIDE DEF j, k
  <2>3. cmd_buf'[j] = cmd_buf[j + 1]
    BY <1>5, <2>1
  <2>4. right[k] = cmd_buf[cmd_pos + k - 1]
    BY <1>3, <2>1
  <2>5. QED BY <2>1, <2>2, <2>3, <2>4 DEF k
<1> HIDE DEF n
<1>9. Len(right) = n /\ Len(right') = n - 1
  BY <1>3, <1>4, <1>7 DEF n
<1>10. right' = Tail(right) /\ right # << >>
  BY <1>3, <1>4, <1>7, <1>8, <1>9, TailIs
<1>11. QED BY <1>6, <1>10 DEF Editor!EraseUnder

LEMMA EraseBeforeMaps ==
  ASSUME TypeOK, TypeOK', Edited, Edited', cmd_pos > 0, delete(cmd_pos - 1), cmd_pos' = cmd_pos - 1,
         UNCHANGED ran
  PROVE  Editor!EraseBefore
<1>1. Sides(left, right, cmd_buf, cmd_pos, cmd_len) /\ Sides(left', right', cmd_buf', cmd_pos - 1, cmd_len - 1)
  BY SidesNow DEF delete
<1>2. /\ cmd_pos \in Nat /\ cmd_len \in Nat /\ cmd_pos \in 1 .. cmd_len /\ cmd_len \in 0 .. SH_MAX_LINE_LEN
      /\ cmd_pos - 1 \in 0 .. cmd_len - 1
  BY <1>1 DEF Sides
<1>3. /\ left \in Seq(Typed) /\ Len(left) = cmd_pos /\ \A i \in 1 .. cmd_pos : left[i] = cmd_buf[i - 1]
      /\ right \in Seq(Typed) /\ Len(right) = cmd_len - cmd_pos
      /\ \A i \in 1 .. cmd_len - cmd_pos : right[i] = cmd_buf[cmd_pos + i - 1]
  BY <1>1 DEF Sides
<1>4. /\ left' \in Seq(Typed) /\ Len(left') = cmd_pos - 1
      /\ \A i \in 1 .. cmd_pos - 1 : left'[i] = cmd_buf'[i - 1]
      /\ right' \in Seq(Typed) /\ Len(right') = (cmd_len - 1) - (cmd_pos - 1)
      /\ \A i \in 1 .. (cmd_len - 1) - (cmd_pos - 1) : right'[i] = cmd_buf'[cmd_pos - 1 + i - 1]
  BY <1>1 DEF Sides
<1> DEFINE w == cmd_pos - 1
<1>5. \A i \in 0 .. cmd_len - 1 : cmd_buf'[i] = IF i >= w THEN cmd_buf[i + 1] ELSE cmd_buf[i]
  BY <1>2, DeleteMoves DEF TypeOK, BufOK
<1>6. left' = SubSeq(left, 1, Len(left) - 1)
  <2>1. ASSUME NEW i \in 1 .. cmd_pos - 1 PROVE left'[i] = left[i]
    <3>1. i - 1 \in 0 .. cmd_len - 1 /\ ~(i - 1 >= w) /\ i \in 1 .. cmd_pos
      BY <1>2
    <3> HIDE DEF w
    <3>2. cmd_buf'[i - 1] = cmd_buf[i - 1]
      BY <1>5, <3>1
    <3>3. QED BY <1>3, <1>4, <3>1, <3>2
  <2>2. QED BY <1>2, <1>3, <1>4, <2>1, FrontIs
<1>7. right' = right
  <2>1. Len(right') = Len(right) /\ (cmd_len - 1) - (cmd_pos - 1) = cmd_len - cmd_pos
    BY <1>2, <1>3, <1>4
  <2>2. ASSUME NEW i \in 1 .. cmd_len - cmd_pos PROVE right'[i] = right[i]
    <3> DEFINE j == cmd_pos - 1 + i - 1
    <3>1. j \in 0 .. cmd_len - 1 /\ j >= w /\ j + 1 = cmd_pos + i - 1
      BY <1>2
    <3>2. right'[i] = cmd_buf'[j]
      BY <1>4, <2>1
    <3> HIDE DEF j, w
    <3>3. cmd_buf'[j] = cmd_buf[j + 1]
      BY <1>5, <3>1
    <3>4. QED BY <1>3, <3>1, <3>2, <3>3
  <2>3. QED BY <1>3, <1>4, <2>1, <2>2, SamePiece
<1>8. left # << >>
  BY <1>2, <1>3, EmptySeq
<1>9. QED BY <1>6, <1>7, <1>8 DEF Editor!EraseBefore, Editor!Front

(* A key edits the text as it says, or not at all.                         *)
LEMMA KeyEdits ==
  ASSUME TypeOK, TypeOK', NEW c \in Keys, Key(c)
  PROVE  [Editor!Next]_<< left, right, ran >>
<1>1. /\ ~boot /\ state = "input" /\ boot' = boot /\ ran' = ran
      /\ \/ UNCHANGED << editVars, state >> \/ Acts(c)
  BY DEF Key, Idle, bootVars
<1>2. Edited
  BY <1>1 DEF Edited
<1>3. CASE UNCHANGED << editVars, state >>
  <2>1. UNCHANGED << left, right >>
    BY <1>1, <1>3 DEF left, right, Edited, Text, editVars
  <2>2. QED BY <1>1, <2>1
<1>4. CASE Enter
  <2>1. state' = "exec" /\ Edited' /\ UNCHANGED editVars
    BY <1>1, <1>4 DEF Enter, Edited
  <2>2. UNCHANGED << left, right >>
    BY <1>2, <2>1 DEF left, right, Text, editVars
  <2>3. QED BY <1>1, <2>2
<1>5. CASE Left \/ Right \/ Delete \/ Backspace \/ (c \in Typed /\ Insert(c))
  <2>1. Edited'
    BY <1>1, <1>5 DEF Left, Right, Delete, Backspace, Insert, Edited
  <2>2. Halves(left, right, cmd_buf, cmd_pos, cmd_len)
    BY <1>2, HalvesNow
  <2>3. CASE Left
    <3>1. Editor!Back
      BY <1>1, <1>2, <2>1, <2>3, BackMaps DEF Left
    <3>2. QED BY <3>1 DEF Editor!Next
  <2>4. CASE Right
    <3>1. Editor!Forward
      BY <1>1, <1>2, <2>1, <2>4, ForwardMaps DEF Right
    <3>2. QED BY <3>1 DEF Editor!Next
  <2>5. CASE Delete
    <3>1. Editor!EraseUnder
      BY <1>1, <1>2, <2>1, <2>5, EraseUnderMaps DEF Delete
    <3>2. QED BY <3>1 DEF Editor!Next
  <2>6. CASE Backspace
    <3>1. Editor!EraseBefore
      BY <1>1, <1>2, <2>1, <2>6, EraseBeforeMaps DEF Backspace
    <3>2. QED BY <3>1 DEF Editor!Next
  <2>7. CASE c \in Typed /\ Insert(c)
    <3>1. Editor!Type
      BY <1>1, <1>2, <2>1, <2>7, TypeMaps DEF Insert
    <3>2. QED BY <3>1 DEF Editor!Next
  <2>8. QED BY <1>5, <2>3, <2>4, <2>5, <2>6, <2>7
<1>6. QED BY <1>1, <1>3, <1>4, <1>5 DEF Acts

(* The line that runs has the words of the text.                           *)
LEMMA ExecEnters ==
  ASSUME TypeOK, Exec
  PROVE  Editor!Enter
<1>1. Edited
  BY DEF Exec, Edited
<1>2. ran' = Tokens(cmd_buf, cmd_len) /\ ~Edited'
  <2>1. ran' = Tokens(cmd_buf, cmd_len) /\ (boot' = TRUE \/ state' = "prompt")
    BY DEF Exec, Run, StartBoot
  <2>2. QED BY <2>1 DEF Edited
<1>3. left' = << >> /\ right' = << >>
  BY <1>2 DEF left, right
<1>4. Sides(left, right, cmd_buf, cmd_pos, cmd_len)
  BY <1>1, HalvesNow, SidesOf
<1> DEFINE t == left \o right
<1>5. /\ cmd_pos \in 0 .. cmd_len /\ cmd_len \in Nat /\ cmd_pos \in Nat
      /\ left \in Seq(Typed) /\ Len(left) = cmd_pos /\ \A i \in 1 .. cmd_pos : left[i] = cmd_buf[i - 1]
      /\ right \in Seq(Typed) /\ Len(right) = cmd_len - cmd_pos
      /\ \A i \in 1 .. cmd_len - cmd_pos : right[i] = cmd_buf[cmd_pos + i - 1]
  BY <1>4 DEF Sides
<1>6. /\ t \in Seq(Typed) /\ Len(t) = Len(left) + Len(right)
      /\ \A i \in 1 .. Len(left) + Len(right) : t[i] =
           IF i <= Len(left) THEN left[i] ELSE right[i - Len(left)]
  BY <1>5, ConcatProperties
<1> HIDE DEF t
<1>7. Len(t) = cmd_len /\ DOMAIN t = 1 .. cmd_len
  BY <1>5, <1>6, LenProperties
<1>8. ASSUME NEW i \in 1 .. cmd_len PROVE t[i] = cmd_buf[i - 1]
  <2>1. t[i] = IF i <= cmd_pos THEN left[i] ELSE right[i - cmd_pos]
    BY <1>5, <1>6
  <2>2. CASE i <= cmd_pos
    BY <1>5, <2>1, <2>2
  <2>3. CASE ~(i <= cmd_pos)
    <3> DEFINE j == i - cmd_pos
    <3>1. j \in 1 .. cmd_len - cmd_pos /\ cmd_pos + j - 1 = i - 1
      BY <1>5, <2>3
    <3>2. t[i] = right[j]
      BY <2>1, <2>3
    <3> HIDE DEF j
    <3>3. right[j] = cmd_buf[cmd_pos + j - 1]
      BY <1>5, <3>1
    <3>4. QED BY <3>1, <3>2, <3>3
  <2>4. QED BY <2>2, <2>3
<1>9. Holds(cmd_buf, Len(t), t)
  BY <1>5, <1>7, <1>8 DEF Holds
<1>10. Tokens(cmd_buf, Len(t)) = Editor!Words(t)
  BY <1>9, TokensAre
<1>11. QED BY <1>2, <1>3, <1>7, <1>10 DEF Editor!Enter, t

(* A command of the script runs as a line that nobody typed.               *)
LEMMA BootCommandRuns ==
  ASSUME TypeOK, BootHolds, BootCommand
  PROVE  Editor!RunScript
<1> DEFINE end  == LineEnd(ptr)
           line == [i \in 0 .. end - ptr - 1 |-> eeprom[ptr + i + 1]]
           t    == SubSeq(eeprom, ptr + 1, end)
<1>1. /\ boot = TRUE /\ eeprom \in Scripts /\ eeprom # NoEeprom
      /\ ptr \in 0 .. Len(eeprom) /\ ptr < Len(eeprom)
  BY DEF BootCommand, ReadsLine, TypeOK
<1>2. ran' = Tokens(line, end - ptr) /\ boot' = TRUE
  <2>1. ran' = Tokens(line, end - ptr) /\ (boot' = TRUE \/ boot' = boot)
    BY DEF BootCommand, Run, StartBoot
  <2>2. QED BY <1>1, <2>1
<1>3. UNCHANGED << left, right >>
  BY <1>1, <1>2 DEF left, right, Edited
<1>4. /\ end + 1 \in EndsOf(eeprom) /\ ptr < end + 1
      /\ \A j \in EndsOf(eeprom) : j <= ptr \/ end + 1 <= j
      /\ end \in ptr .. Len(eeprom) - 1
  BY <1>1, NextEnd, LineEnds
<1>5. eeprom \in Seq(Letters \cup {NL}) /\ Len(eeprom) \in Nat /\ ptr \in EndsOf(eeprom) \cup {0}
  BY <1>1, ShellAssumption DEF BootHolds
<1> HIDE DEF end
<1>6. t \in Range(LinesOf(eeprom))
  <2> DEFINE e == end + 1
             k == Rank(EndsOf(eeprom), e)
  <2>1. e \in EndsOf(eeprom) /\ ptr < e /\ e - 1 = end /\ \A j \in EndsOf(eeprom) : j <= ptr \/ e <= j
    BY <1>4, <1>5
  <2> HIDE DEF e
  <2>2. k \in 1 .. Cardinality(EndsOf(eeprom)) /\ LinesOf(eeprom)[k] = SubSeq(eeprom, ptr + 1, e - 1)
    BY <1>5, <2>1, LineAt
  <2>3. LinesOf(eeprom)[k] \in Range(LinesOf(eeprom))
    BY <1>5, <2>2, LinesSeq
  <2>4. QED BY <2>1, <2>2, <2>3
<1>7. t \in UNION { Range(LinesOf(text)) : text \in Scripts }
  <2> HIDE DEF t
  <2>1. QED BY <1>1, <1>6
<1>8. Len(t) = end - ptr /\ Holds(line, Len(t), t)
  <2> DEFINE a == ptr + 1
             T == Letters \cup {NL}
  <2>1. a \in Int /\ end \in Int /\ end - a + 1 = end - ptr /\ end - ptr \in Nat /\ ptr \in Nat
    BY <1>1, <1>4, <1>5
  <2>2. \A i \in a .. end : eeprom[i] \in T
    <3>1. \A i \in a .. end : i \in 1 .. Len(eeprom)
      BY <1>4, <1>5, <2>1
    <3>2. QED BY <1>5, <3>1, ElementOfSeq
  <2> HIDE DEF a, T
  <2> DEFINE u == SubSeq(eeprom, a, end)
  <2>3. /\ u \in Seq(T) /\ Len(u) = IF a <= end THEN end - a + 1 ELSE 0
        /\ \A i \in 1 .. end - a + 1 : u[i] = eeprom[a + i - 1]
    BY <2>1, <2>2, SubSeqProperties
  <2> HIDE DEF u
  <2>4. Len(u) = end - ptr
    BY <2>1, <2>3 DEF a
  <2>5. DOMAIN u = 1 .. end - ptr
    BY <2>3, <2>4, LenProperties
  <2>6. ASSUME NEW i \in 1 .. end - ptr PROVE u[i] = line[i - 1]
    <3> DEFINE j == i - 1
    <3>1. j \in 0 .. end - ptr - 1 /\ a + i - 1 = ptr + j + 1
      BY <2>1 DEF a
    <3>2. u[i] = eeprom[a + i - 1]
      BY <2>1, <2>3
    <3> HIDE DEF j
    <3>3. line[j] = eeprom[ptr + j + 1]
      BY <3>1
    <3> HIDE DEF line
    <3>4. QED BY <3>1, <3>2, <3>3 DEF j
  <2>7. t = u
    BY DEF u, a
  <2> HIDE DEF t, line
  <2>8. QED BY <2>1, <2>4, <2>5, <2>6, <2>7 DEF Holds
<1> HIDE DEF t, line
<1>9. ran' = Editor!Words(t)
  BY <1>2, <1>8, TokensAre
<1>10. QED BY <1>3, <1>7, <1>9 DEF Editor!RunScript

(* A screen is entered by a command, which ends the line.                  *)
GuiHolds == ui = "gui" /\ ~boot => state = "prompt"

LEMMA GuiStep == ASSUME TypeOK, GuiHolds, [Next]_vars PROVE GuiHolds'
<1>1. CASE Exec
  <2>1. boot' = TRUE \/ state' = "prompt"
    BY <1>1 DEF Exec, StartBoot
  <2>2. QED BY <2>1 DEF GuiHolds
<1>2. CASE BootCommand
  <2>1. boot' = TRUE
    BY <1>2 DEF BootCommand, StartBoot, TypeOK
  <2>2. QED BY <2>1 DEF GuiHolds
<1>3. CASE (\E c \in Keys : Key(c)) \/ Prompt
  <2>1. ui' # "gui"
    BY <1>3 DEF Key, Prompt
  <2>2. QED BY <2>1 DEF GuiHolds
<1>4. CASE BootEnd \/ Leave
  <2>1. state' = "prompt"
    BY <1>4 DEF BootEnd, Leave
  <2>2. QED BY <2>1 DEF GuiHolds
<1>5. CASE UNCHANGED vars
  BY <1>5 DEF GuiHolds, vars, bootVars
<1>6. QED BY <1>1, <1>2, <1>3, <1>4, <1>5 DEF Next

(* The other steps do not touch the text.                                  *)
LEMMA RestEdits ==
  ASSUME TypeOK, TypeOK', GuiHolds, Prompt \/ BootEnd \/ Leave \/ UNCHANGED vars
  PROVE  [Editor!Next]_<< left, right, ran >>
<1>1. CASE Prompt
  <2>1. ~Edited /\ Edited' /\ ran' = << >> /\ cmd_pos' = 0 /\ cmd_len' = 0
    BY <1>1 DEF Prompt, Edited, bootVars
  <2>2. left = << >> /\ right = << >>
    BY <2>1 DEF left, right
  <2>3. Sides(left', right', cmd_buf', 0, 0)
    BY <2>1, HalvesThen, SidesOf
  <2>4. left' = << >> /\ right' = << >>
    BY <2>3, EmptySeq DEF Sides
  <2>5. Editor!NextLine
    BY <2>1, <2>2, <2>4 DEF Editor!NextLine
  <2>6. QED BY <2>5 DEF Editor!Next
<1>2. CASE BootEnd \/ Leave
  <2>1. ~Edited /\ ~Edited' /\ ran' = ran
    BY <1>2 DEF BootEnd, Leave, Edited, GuiHolds
  <2>2. UNCHANGED << left, right >>
    BY <2>1 DEF left, right
  <2>3. QED BY <2>1, <2>2
<1>3. CASE UNCHANGED vars
  <2>1. UNCHANGED << cmd_buf, cmd_pos, cmd_len, state, boot, ran >>
    BY <1>3 DEF vars, editVars, bootVars
  <2>2. QED BY <2>1 DEF left, right, Edited, Text
<1>4. QED BY <1>1, <1>2, <1>3

(* Whatever is typed, read from a script or left in a screen, the buffer   *)
(* with its cursor, its length and the pending escape implements a text    *)
(* that is edited around a cursor, and what runs are the words of it.      *)
THEOREM EditsText == Spec => EditsLine
<1>1. Init => TypeOK /\ BootHolds /\ GuiHolds /\ Editor!Init
  <2>1. Init => TypeOK /\ BootHolds
    BY InitHolds
  <2>2. Init => GuiHolds /\ Editor!Init
    BY DEF Init, GuiHolds, Editor!Init, left, right, Edited
  <2>3. QED BY <2>1, <2>2
<1>2. TypeOK /\ BootHolds /\ GuiHolds /\ [Next]_vars => (TypeOK /\ BootHolds /\ GuiHolds)'
  BY NextHolds, GuiStep
<1>3. TypeOK /\ BootHolds /\ GuiHolds /\ TypeOK' /\ [Next]_vars => [Editor!Next]_<< left, right, ran >>
  <2> SUFFICES ASSUME TypeOK, BootHolds, GuiHolds, TypeOK', [Next]_vars
               PROVE  [Editor!Next]_<< left, right, ran >>
    OBVIOUS
  <2>1. CASE \E c \in Keys : Key(c)
    BY <2>1, KeyEdits
  <2>2. CASE Exec
    BY <2>2, ExecEnters DEF Editor!Next
  <2>3. CASE BootCommand
    BY <2>3, BootCommandRuns DEF Editor!Next
  <2>4. CASE Prompt \/ BootEnd \/ Leave \/ UNCHANGED vars
    BY <2>4, RestEdits
  <2>5. QED BY <2>1, <2>2, <2>3, <2>4 DEF Next
<1>4. QED BY <1>1, <1>2, <1>3, PTL DEF Spec, EditsLine, Editor!LineSpec

(* A value stands at i in the environment, with its name.                  *)
EntryIs(buf, i, m, l, nm, vl) ==
  /\ i \in Nat /\ m \in Nat /\ l \in Nat /\ l > 0 /\ i + m + l + 3 < SH_ENVIRON_SIZE
  /\ nm \in [1 .. m -> Letters] /\ vl \in [1 .. l -> Letters]
  /\ buf[i] = MARK /\ \A k \in 1 .. m : buf[i + k] = nm[k]
  /\ buf[i + m + 1] = NUL /\ \A k \in 1 .. l : buf[i + m + 1 + k] = vl[k]
  /\ buf[i + m + l + 2] = NUL /\ buf[i + m + l + 3] \in {MARK, END}

EntryFrom(buf, i) ==
  \E m, l \in Nat : \E nm \in [1 .. m -> Letters], vl \in [1 .. l -> Letters] : EntryIs(buf, i, m, l, nm, vl)

(* The buffer holds entries with names that differ, and ends at e.         *)
Kept(buf, e) ==
  /\ e \in Index /\ buf[e] = END
  /\ \A j \in Index : (j < e => buf[j] # END) /\ (j > e => buf[j] = NUL)
  /\ \A i \in Index : buf[i] = MARK => EntryFrom(buf, i)
  /\ \A i, j \in Index : buf[i] = MARK /\ buf[j] = MARK
                          /\ Fold(StringAt(buf, i + 1)) = Fold(StringAt(buf, j + 1)) => i = j

(* The first place is the next one.                                        *)
LEMMA NextIs ==
  ASSUME NEW buf, NEW bytes, NEW i \in Nat, NEW j \in i .. SH_ENVIRON_SIZE - 1, buf[j] \in bytes,
         \A h \in i .. j - 1 : buf[h] \notin bytes
  PROVE  NextAt(buf, bytes, i) = j
<1> DEFINE P(k) == buf[k] \in bytes /\ \A h \in i .. k - 1 : buf[h] \notin bytes
<1>1. \A k \in i .. SH_ENVIRON_SIZE - 1 : P(k) => k = j
  BY EnvironAssumption
<1>2. P(j) /\ NextAt(buf, bytes, i) = CHOOSE k \in i .. SH_ENVIRON_SIZE - 1 : P(k)
  BY DEF NextAt
<1> HIDE DEF P
<1>3. QED BY <1>1, <1>2

(* The kinds of bytes in an entry.                                         *)
LEMMA EntryBytes ==
  ASSUME NEW buf, NEW i, NEW m, NEW l, NEW nm, NEW vl, EntryIs(buf, i, m, l, nm, vl)
  PROVE  /\ \A j \in i + 1 .. i + m : buf[j] \in Letters
         /\ \A j \in i + m + 2 .. i + m + l + 1 : buf[j] \in Letters
         /\ \A j \in i + 1 .. i + m + l + 2 : buf[j] \in Letters \cup {NUL}
<1>1. /\ i \in Nat /\ m \in Nat /\ l \in Nat
      /\ nm \in [1 .. m -> Letters] /\ vl \in [1 .. l -> Letters]
  BY DEF EntryIs
<1>2. ASSUME NEW j \in i + 1 .. i + m PROVE buf[j] \in Letters
  <2> DEFINE k == j - i
  <2>1. k \in 1 .. m /\ i + k = j
    BY <1>1
  <2> HIDE DEF k
  <2>2. buf[i + k] = nm[k] /\ nm[k] \in Letters
    BY <1>1, <2>1 DEF EntryIs
  <2>3. QED BY <2>1, <2>2
<1>3. ASSUME NEW j \in i + m + 2 .. i + m + l + 1 PROVE buf[j] \in Letters
  <2> DEFINE k == j - (i + m + 1)
  <2>1. k \in 1 .. l /\ i + m + 1 + k = j
    BY <1>1
  <2> HIDE DEF k
  <2>2. buf[i + m + 1 + k] = vl[k] /\ vl[k] \in Letters
    BY <1>1, <2>1 DEF EntryIs
  <2>3. QED BY <2>1, <2>2
<1>4. ASSUME NEW j \in i + 1 .. i + m + l + 2 PROVE buf[j] \in Letters \cup {NUL}
  <2>1. j \in i + 1 .. i + m \/ j = i + m + 1 \/ j \in i + m + 2 .. i + m + l + 1 \/ j = i + m + l + 2
    BY <1>1
  <2>2. buf[i + m + 1] = NUL /\ buf[i + m + l + 2] = NUL
    BY DEF EntryIs
  <2>3. QED BY <1>2, <1>3, <2>1, <2>2
<1>5. QED BY <1>2, <1>3, <1>4

LEMMA NoLetters ==
  /\ MARK # END /\ MARK # NUL /\ END # NUL
  /\ \A b \in Letters : b # MARK /\ b # END /\ b # NUL
BY EnvironAssumption DEF MARK, END, NUL

(* What is read of an entry, and where the next one begins.                *)
LEMMA EntryReads ==
  ASSUME NEW buf, NEW i, NEW m, NEW l, NEW nm, NEW vl, EntryIs(buf, i, m, l, nm, vl)
  PROVE  /\ StringAt(buf, i + 1) = nm /\ StringAt(buf, i + 2 + m) = vl
         /\ NextAt(buf, {MARK, END}, i + 1) = i + m + l + 3
<1>1. /\ i \in Nat /\ m \in Nat /\ l \in Nat /\ l > 0 /\ i + m + l + 3 < SH_ENVIRON_SIZE
      /\ nm \in [1 .. m -> Letters] /\ vl \in [1 .. l -> Letters] /\ SH_ENVIRON_SIZE \in Nat
  BY EnvironAssumption DEF EntryIs
<1>2. /\ \A k \in 1 .. m : buf[i + k] = nm[k]
      /\ \A k \in 1 .. l : buf[i + m + 1 + k] = vl[k]
      /\ buf[i + m + 1] = NUL /\ buf[i + m + l + 2] = NUL /\ buf[i + m + l + 3] \in {MARK, END}
  BY DEF EntryIs
<1>3. NextAt(buf, {NUL}, i + 1) = i + m + 1
  <2>1. \A h \in i + 1 .. (i + m + 1) - 1 : buf[h] \notin {NUL}
    <3> SUFFICES ASSUME NEW h \in i + 1 .. (i + m + 1) - 1 PROVE buf[h] \notin {NUL}
      OBVIOUS
    <3>1. h \in i + 1 .. i + m
      BY <1>1
    <3>2. buf[h] \in Letters
      BY <3>1, EntryBytes
    <3>3. QED BY <3>2, NoLetters
  <2>2. i + 1 \in Nat /\ i + m + 1 \in i + 1 .. SH_ENVIRON_SIZE - 1
    BY <1>1
  <2>3. QED BY <1>2, <2>1, <2>2, NextIs
<1>4. NextAt(buf, {NUL}, i + 2 + m) = i + m + l + 2
  <2>1. \A h \in i + 2 + m .. (i + m + l + 2) - 1 : buf[h] \notin {NUL}
    <3> SUFFICES ASSUME NEW h \in i + 2 + m .. (i + m + l + 2) - 1 PROVE buf[h] \notin {NUL}
      OBVIOUS
    <3>1. h \in i + m + 2 .. i + m + l + 1
      BY <1>1
    <3>2. buf[h] \in Letters
      BY <3>1, EntryBytes
    <3>3. QED BY <3>2, NoLetters
  <2>2. i + 2 + m \in Nat /\ i + m + l + 2 \in i + 2 + m .. SH_ENVIRON_SIZE - 1
    BY <1>1
  <2>3. QED BY <1>2, <2>1, <2>2, NextIs
<1>5. NextAt(buf, {MARK, END}, i + 1) = i + m + l + 3
  <2>1. \A h \in i + 1 .. (i + m + l + 3) - 1 : buf[h] \notin {MARK, END}
    <3> SUFFICES ASSUME NEW h \in i + 1 .. (i + m + l + 3) - 1 PROVE buf[h] \notin {MARK, END}
      OBVIOUS
    <3>1. h \in i + 1 .. i + m + l + 2
      BY <1>1
    <3>2. buf[h] \in Letters \cup {NUL}
      BY <3>1, EntryBytes
    <3>3. QED BY <3>2, NoLetters
  <2>2. i + 1 \in Nat /\ i + m + l + 3 \in i + 1 .. SH_ENVIRON_SIZE - 1
    BY <1>1
  <2>3. QED BY <1>2, <2>1, <2>2, NextIs
<1>6. StringAt(buf, i + 1) = nm
  <2>1. StringAt(buf, i + 1) = [k \in 1 .. m |-> buf[i + 1 + k - 1]]
    <3>1. i + m + 1 - (i + 1) = m
      BY <1>1
    <3> DEFINE q == NextAt(buf, {NUL}, i + 1)
    <3>2. StringAt(buf, i + 1) = [k \in 1 .. q - (i + 1) |-> buf[i + 1 + k - 1]]
      BY DEF StringAt
    <3> HIDE DEF q
    <3>3. q = i + m + 1
      BY <1>3 DEF q
    <3>4. q - (i + 1) = m
      BY <1>1, <3>1, <3>3
    <3>5. QED BY <3>2, <3>4, Zenon
  <2>2. ASSUME NEW k \in 1 .. m PROVE buf[i + 1 + k - 1] = nm[k]
    <3>1. i + 1 + k - 1 = i + k
      BY <1>1
    <3>2. QED BY <1>2, <3>1
  <2>3. QED BY <1>1, <2>1, <2>2
<1>7. StringAt(buf, i + 2 + m) = vl
  <2>1. StringAt(buf, i + 2 + m) = [k \in 1 .. l |-> buf[i + 2 + m + k - 1]]
    <3>1. i + m + l + 2 - (i + 2 + m) = l
      BY <1>1
    <3> DEFINE q == NextAt(buf, {NUL}, i + 2 + m)
    <3>2. StringAt(buf, i + 2 + m) = [k \in 1 .. q - (i + 2 + m) |-> buf[i + 2 + m + k - 1]]
      BY DEF StringAt
    <3> HIDE DEF q
    <3>3. q = i + m + l + 2
      BY <1>4 DEF q
    <3>4. q - (i + 2 + m) = l
      BY <1>1, <3>1, <3>3
    <3>5. QED BY <3>2, <3>4, Zenon
  <2>2. ASSUME NEW k \in 1 .. l PROVE buf[i + 2 + m + k - 1] = vl[k]
    <3>1. i + 2 + m + k - 1 = i + m + 1 + k
      BY <1>1
    <3>2. QED BY <1>2, <3>1
  <2>3. QED BY <1>1, <2>1, <2>2
<1>8. QED BY <1>5, <1>6, <1>7

(* An entry lies before the next mark.                                     *)
LEMMA EntryBefore ==
  ASSUME NEW buf, NEW i, NEW m, NEW l, NEW nm, NEW vl, EntryIs(buf, i, m, l, nm, vl),
         NEW j \in Nat, i < j, buf[j] \in {MARK, END}
  PROVE  i + m + l + 3 <= j
<1>1. i \in Nat /\ m \in Nat /\ l \in Nat
  BY DEF EntryIs
<1>2. ASSUME j < i + m + l + 3 PROVE FALSE
  <2>1. j \in i + 1 .. i + m + l + 2
    BY <1>1, <1>2
  <2>2. buf[j] \in Letters \cup {NUL}
    BY <2>1, EntryBytes
  <2>3. QED BY <2>2, NoLetters
<1>3. QED BY <1>1, <1>2

LEMMA LenIs ==
  ASSUME NEW S, NEW c \in Nat, NEW t \in [1 .. c -> S]
  PROVE  t \in Seq(S) /\ Len(t) = c
<1>1. t \in Seq(S)
  BY SeqDef
<1>2. Len(t) \in Nat /\ 1 .. c = 1 .. Len(t)
  BY <1>1, LenProperties
<1>3. (c \in 1 .. c \/ c = 0) /\ (Len(t) \in 1 .. Len(t) \/ Len(t) = 0)
  BY <1>2
<1>4. QED BY <1>1, <1>2, <1>3

(* A name is looked up by its folded form, which has its length.           *)
LEMMA FoldLen ==
  ASSUME NEW q \in Nat, NEW n \in [1 .. q -> Letters], NEW m \in Nat, NEW nm \in [1 .. m -> Letters],
         Fold(n) = Fold(nm)
  PROVE  q = m /\ Len(n) = m
<1>1. DOMAIN Fold(n) = 1 .. q /\ DOMAIN Fold(nm) = 1 .. m
  BY DEF Fold
<1>2. q = m
  <2>1. 1 .. q = 1 .. m
    BY <1>1
  <2>2. q \in 1 .. q \/ q = 0
    OBVIOUS
  <2>3. m \in 1 .. m \/ m = 0
    OBVIOUS
  <2>4. QED BY <2>1, <2>2, <2>3
<1>3. Len(n) = q
  BY LenIs
<1>4. QED BY <1>2, <1>3

LEMMA FoldsOnce ==
  ASSUME NEW q \in Nat, NEW n \in [1 .. q -> Letters]
  PROVE  Fold(n) \in [1 .. q -> Letters] /\ Fold(Fold(n)) = Fold(n)
<1>1. Fold(n) = [k \in 1 .. q |-> Lower[n[k]]]
  BY DEF Fold
<1>2. \A k \in 1 .. q : n[k] \in Letters /\ Lower[n[k]] \in Letters /\ Lower[Lower[n[k]]] = Lower[n[k]]
  BY EnvironAssumption
<1>3. Fold(n) \in [1 .. q -> Letters]
  BY <1>1, <1>2
<1>4. Fold(Fold(n)) = [k \in 1 .. q |-> Lower[Lower[n[k]]]]
  <2> DEFINE u == Fold(n)
  <2>1. DOMAIN u = 1 .. q /\ \A k \in 1 .. q : u[k] = Lower[n[k]]
    BY <1>1
  <2>2. Fold(u) = [k \in DOMAIN u |-> Lower[u[k]]]
    BY DEF Fold
  <2> HIDE DEF u
  <2>3. QED BY <2>1, <2>2 DEF u
<1>5. QED BY <1>1, <1>2, <1>3, <1>4

Shows(buf, n, i, m, l, nm, vl) ==
  /\ EntryIs(buf, i, m, l, nm, vl) /\ Fold(nm) = Fold(n) /\ Len(n) = m
  /\ HasName(buf, n) /\ EntryAt(buf, n) = i /\ EnvGet(buf, n) = vl

Lacks(buf, n) ==
  /\ ~HasName(buf, n)
  /\ \A i \in Index : buf[i] = MARK => Fold(StringAt(buf, i + 1)) # Fold(n)

(* What is looked up is the entry with the name.                           *)
LEMMA Shown ==
  ASSUME NEW buf, NEW e, Kept(buf, e), NEW q \in Nat, NEW n \in [1 .. q -> Letters],
         NEW i, NEW m, NEW l, NEW nm, NEW vl, EntryIs(buf, i, m, l, nm, vl), Fold(nm) = Fold(n)
  PROVE  Shows(buf, n, i, m, l, nm, vl)
<1>1. /\ i \in Nat /\ m \in Nat /\ l \in Nat /\ i \in Index /\ buf[i] = MARK
      /\ nm \in [1 .. m -> Letters]
  BY EnvironAssumption DEF EntryIs, Index
<1>2. StringAt(buf, i + 1) = nm /\ StringAt(buf, i + 2 + m) = vl
  BY EntryReads
<1>3. Len(n) = m
  BY <1>1, FoldLen
<1>4. ASSUME NEW j \in EntryOf(buf, n) PROVE j = i
  <2>1. j \in Index /\ buf[j] = MARK /\ Fold(StringAt(buf, j + 1)) = Fold(n)
    BY DEF EntryOf
  <2>2. QED BY <1>1, <1>2, <2>1 DEF Kept
<1>5. i \in EntryOf(buf, n)
  BY <1>1, <1>2 DEF EntryOf
<1>6. HasName(buf, n)
  BY <1>5 DEF HasName
<1>7. EntryAt(buf, n) = i
  <2> DEFINE S == EntryOf(buf, n)
  <2>1. EntryAt(buf, n) = CHOOSE j \in S : \A h \in S : j <= h
    BY DEF EntryAt
  <2>2. i \in S /\ \A j \in S : j = i
    BY <1>4, <1>5
  <2> HIDE DEF S
  <2>3. \A h \in S : i <= h
    BY <1>1, <2>2
  <2>4. QED BY <2>1, <2>2, <2>3
<1>8. EnvGet(buf, n) = vl
  <2>1. EnvGet(buf, n) = StringAt(buf, i + 2 + m)
    BY <1>3, <1>7 DEF EnvGet
  <2>2. QED BY <1>2, <2>1
<1>9. QED BY <1>3, <1>6, <1>7, <1>8 DEF Shows

LEMMA Known ==
  ASSUME NEW buf, NEW e, Kept(buf, e), NEW q \in Nat, NEW n \in [1 .. q -> Letters]
  PROVE  Lacks(buf, n) \/ \E i, m, l, nm, vl : Shows(buf, n, i, m, l, nm, vl)
<1>1. CASE EntryOf(buf, n) = {}
  <2>1. ~HasName(buf, n)
    BY <1>1 DEF HasName
  <2>2. \A i \in Index : buf[i] = MARK => Fold(StringAt(buf, i + 1)) # Fold(n)
    BY <1>1 DEF EntryOf
  <2>3. QED BY <2>1, <2>2 DEF Lacks
<1>2. CASE EntryOf(buf, n) # {}
  <2>1. PICK i : i \in EntryOf(buf, n)
    BY <1>2
  <2>2. i \in Index /\ buf[i] = MARK /\ Fold(StringAt(buf, i + 1)) = Fold(n)
    BY <2>1 DEF EntryOf
  <2>3. EntryFrom(buf, i)
    BY <2>2 DEF Kept
  <2>4. PICK m, l, nm, vl : EntryIs(buf, i, m, l, nm, vl)
    BY <2>3 DEF EntryFrom
  <2>5. StringAt(buf, i + 1) = nm
    BY <2>4, EntryReads
  <2>6. Fold(nm) = Fold(n)
    BY <2>2, <2>5
  <2>7. Shows(buf, n, i, m, l, nm, vl)
    BY <2>4, <2>6, Shown
  <2>8. QED BY <2>7
<1>3. QED BY <1>1, <1>2

(* An entry whose bytes stand elsewhere is an entry there.                 *)
LEMMA SameEntry ==
  ASSUME NEW buf, NEW i, NEW m, NEW l, NEW nm, NEW vl, EntryIs(buf, i, m, l, nm, vl),
         NEW new, NEW h \in Nat, h + m + l + 3 < SH_ENVIRON_SIZE,
         \A k \in 0 .. m + l + 2 : new[h + k] = buf[i + k], new[h + m + l + 3] \in {MARK, END}
  PROVE  EntryIs(new, h, m, l, nm, vl)
<1>1. /\ i \in Nat /\ m \in Nat /\ l \in Nat /\ l > 0
      /\ nm \in [1 .. m -> Letters] /\ vl \in [1 .. l -> Letters]
      /\ buf[i] = MARK /\ buf[i + m + 1] = NUL /\ buf[i + m + l + 2] = NUL
  BY DEF EntryIs
<1>2. new[h] = MARK
  <2>1. 0 \in 0 .. m + l + 2 /\ h + 0 = h /\ i + 0 = i
    BY <1>1
  <2>2. QED BY <1>1, <2>1
<1>3. new[h + m + 1] = NUL
  <2>1. m + 1 \in 0 .. m + l + 2 /\ h + (m + 1) = h + m + 1 /\ i + (m + 1) = i + m + 1
    BY <1>1
  <2>2. new[h + (m + 1)] = buf[i + (m + 1)]
    BY <2>1
  <2>3. QED BY <1>1, <2>1, <2>2
<1>4. new[h + m + l + 2] = NUL
  <2>1. m + l + 2 \in 0 .. m + l + 2 /\ h + (m + l + 2) = h + m + l + 2 /\ i + (m + l + 2) = i + m + l + 2
    BY <1>1
  <2>2. new[h + (m + l + 2)] = buf[i + (m + l + 2)]
    BY <2>1
  <2>3. QED BY <1>1, <2>1, <2>2
<1>5. ASSUME NEW k \in 1 .. m PROVE new[h + k] = nm[k]
  <2>1. k \in 0 .. m + l + 2
    BY <1>1
  <2>2. buf[i + k] = nm[k]
    BY DEF EntryIs
  <2>3. QED BY <2>1, <2>2
<1>6. ASSUME NEW k \in 1 .. l PROVE new[h + m + 1 + k] = vl[k]
  <2>1. m + 1 + k \in 0 .. m + l + 2 /\ h + (m + 1 + k) = h + m + 1 + k /\ i + (m + 1 + k) = i + m + 1 + k
    BY <1>1
  <2>2. new[h + (m + 1 + k)] = buf[i + (m + 1 + k)]
    BY <2>1
  <2>3. buf[i + m + 1 + k] = vl[k]
    BY DEF EntryIs
  <2>4. QED BY <2>1, <2>2, <2>3
<1>7. QED BY <1>1, <1>2, <1>3, <1>4, <1>5, <1>6 DEF EntryIs

(* The bytes behind the entry at v have moved over its w bytes.            *)
Shifted(buf, new, v, w, e) ==
  /\ v \in Nat /\ w \in Nat /\ w > 0 /\ v + w <= e /\ e < SH_ENVIRON_SIZE /\ e \in Nat
  /\ buf[v] = MARK /\ buf[v + w] \in {MARK, END}
  /\ \A j \in v + 1 .. v + w - 1 : buf[j] \notin {MARK, END}
  /\ \A j \in Index : /\ j < v => new[j] = buf[j]
                      /\ v <= j => new[j] = IF j + w < SH_ENVIRON_SIZE THEN buf[j + w] ELSE NUL

LEMMA RemovedShifts ==
  ASSUME NEW buf, NEW e, Kept(buf, e),
         NEW v, NEW m, NEW l, NEW nm, NEW vl, EntryIs(buf, v, m, l, nm, vl)
  PROVE  Shifted(buf, Removed(buf, v), v, m + l + 3, e)
<1> DEFINE w == m + l + 3
           p == NextAt(buf, {MARK, END}, v + 1)
           new == Removed(buf, v)
<1>1. /\ v \in Nat /\ m \in Nat /\ l \in Nat /\ w \in Nat /\ w > 0 /\ v + m + l + 3 = v + w
      /\ v + w < SH_ENVIRON_SIZE /\ SH_ENVIRON_SIZE \in Nat
      /\ buf[v] = MARK /\ buf[v + m + l + 3] \in {MARK, END}
  BY EnvironAssumption DEF EntryIs
<1>2. e \in Nat /\ e < SH_ENVIRON_SIZE /\ buf[e] = END
  BY EnvironAssumption DEF Kept, Index
<1>3. v + w <= e
  <2>1. v < e
    <3>1. v \in Index /\ e \in Index
      BY <1>1, <1>2 DEF Index
    <3>2. v # e /\ ~(v > e)
      BY <1>1, <1>2, <3>1, NoLetters DEF Kept
    <3>3. QED BY <1>1, <1>2, <3>2
  <2>2. v + m + l + 3 <= e
    BY <1>2, <2>1, EntryBefore
  <2>3. QED BY <1>1, <2>2
<1>4. p = v + w
  BY <1>1, EntryReads
<1>5. ASSUME NEW j \in v + 1 .. v + w - 1 PROVE buf[j] \notin {MARK, END}
  <2>1. j \in v + 1 .. v + m + l + 2
    BY <1>1
  <2>2. buf[j] \in Letters \cup {NUL}
    BY <2>1, EntryBytes
  <2>3. QED BY <2>2, NoLetters
<1>6. new = [i \in Index |-> IF v <= i /\ i - v + p \in Index THEN buf[i - v + p]
                              ELSE IF i < v THEN buf[i] ELSE NUL]
  BY DEF Removed
<1> HIDE DEF w, p, new
<1>7. ASSUME NEW j \in Index
      PROVE  /\ j < v => new[j] = buf[j]
             /\ v <= j => new[j] = IF j + w < SH_ENVIRON_SIZE THEN buf[j + w] ELSE NUL
  <2>1. j \in Nat /\ j - v + p = j + w
    BY <1>1, <1>4, EnvironAssumption DEF Index
  <2>2. new[j] = IF v <= j /\ j + w \in Index THEN buf[j + w] ELSE IF j < v THEN buf[j] ELSE NUL
    BY <1>6, <2>1
  <2>3. j + w \in Index <=> j + w < SH_ENVIRON_SIZE
    BY <1>1, <2>1 DEF Index
  <2>4. j < v <=> ~(v <= j)
    BY <1>1, <2>1
  <2>5. QED BY <2>2, <2>3, <2>4
<1>8. Shifted(buf, new, v, w, e)
  BY <1>1, <1>2, <1>3, <1>5, <1>7 DEF Shifted
<1>9. QED BY <1>8 DEF w, new

(* The other entries are those of before.                                  *)
LEMMA EntryStays ==
  ASSUME NEW buf, NEW new, NEW v, NEW w, NEW e, Shifted(buf, new, v, w, e),
         NEW i, NEW m, NEW l, NEW nm, NEW vl, EntryIs(buf, i, m, l, nm, vl), i < v
  PROVE  EntryIs(new, i, m, l, nm, vl)
<1>1. /\ i \in Nat /\ m \in Nat /\ l \in Nat /\ i + m + l + 3 < SH_ENVIRON_SIZE
      /\ buf[i + m + l + 3] \in {MARK, END} /\ SH_ENVIRON_SIZE \in Nat
  BY EnvironAssumption DEF EntryIs
<1>2. /\ v \in Nat /\ w \in Nat /\ v + w < SH_ENVIRON_SIZE /\ buf[v] = MARK /\ buf[v + w] \in {MARK, END}
  BY <1>1 DEF Shifted
<1>3. i + m + l + 3 <= v
  BY <1>2, EntryBefore
<1>4. \A j \in Index : j < v => new[j] = buf[j]
  BY DEF Shifted
<1>5. ASSUME NEW k \in 0 .. m + l + 2 PROVE new[i + k] = buf[i + k]
  <2>1. i + k \in Index /\ i + k < v
    BY <1>1, <1>2, <1>3 DEF Index
  <2>2. QED BY <1>4, <2>1
<1>6. new[i + m + l + 3] \in {MARK, END}
  <2> DEFINE j == i + m + l + 3
  <2>1. j \in Index /\ buf[j] \in {MARK, END} /\ j <= v /\ j \in Nat
    BY <1>1, <1>3 DEF Index
  <2> HIDE DEF j
  <2>2. ASSUME j < v PROVE new[j] \in {MARK, END}
    BY <1>4, <2>1, <2>2
  <2>3. ASSUME j = v PROVE new[j] \in {MARK, END}
    <3>1. new[j] = buf[j + w]
      BY <1>2, <2>1, <2>3 DEF Shifted
    <3>2. QED BY <1>2, <2>3, <3>1
  <2>4. new[j] \in {MARK, END}
    BY <1>2, <2>1, <2>2, <2>3
  <2>5. QED BY <2>4 DEF j
<1>7. QED BY <1>1, <1>5, <1>6, SameEntry

LEMMA EntryMoves ==
  ASSUME NEW buf, NEW new, NEW v, NEW w, NEW e, Shifted(buf, new, v, w, e),
         NEW i, NEW m, NEW l, NEW nm, NEW vl, EntryIs(buf, i, m, l, nm, vl), v < i
  PROVE  v + w <= i /\ EntryIs(new, i - w, m, l, nm, vl)
<1>1. /\ i \in Nat /\ m \in Nat /\ l \in Nat /\ i + m + l + 3 < SH_ENVIRON_SIZE /\ buf[i] = MARK
      /\ buf[i + m + l + 3] \in {MARK, END} /\ SH_ENVIRON_SIZE \in Nat
  BY EnvironAssumption DEF EntryIs
<1>2. v \in Nat /\ w \in Nat
  BY DEF Shifted
<1>3. v + w <= i
  <2>1. ASSUME i < v + w PROVE FALSE
    <3>1. i \in v + 1 .. v + w - 1
      BY <1>1, <1>2, <2>1
    <3>2. QED BY <1>1, <3>1 DEF Shifted
  <2>2. QED BY <1>1, <1>2, <2>1
<1> DEFINE h == i - w
<1>4. h \in Nat /\ h + w = i /\ v <= h
  BY <1>1, <1>2, <1>3
<1> HIDE DEF h
<1>5. ASSUME NEW k \in 0 .. m + l + 3 PROVE new[h + k] = buf[i + k]
  <2>1. h + k \in Index /\ v <= h + k /\ h + k + w = i + k /\ i + k < SH_ENVIRON_SIZE
    BY <1>1, <1>2, <1>4 DEF Index
  <2>2. new[h + k] = buf[h + k + w]
    BY <2>1 DEF Shifted
  <2>3. QED BY <2>1, <2>2
<1>6. \A k \in 0 .. m + l + 2 : new[h + k] = buf[i + k]
  <2>1. \A k \in 0 .. m + l + 2 : k \in 0 .. m + l + 3
    BY <1>1
  <2>2. QED BY <1>5, <2>1
<1>7. new[h + m + l + 3] \in {MARK, END}
  <2> DEFINE k == m + l + 3
  <2>1. k \in 0 .. m + l + 3 /\ h + k = h + m + l + 3 /\ i + k = i + m + l + 3
    BY <1>1, <1>4
  <2> HIDE DEF k
  <2>2. new[h + k] = buf[i + k]
    BY <1>5, <2>1
  <2>3. QED BY <1>1, <2>1, <2>2
<1>8. h + m + l + 3 < SH_ENVIRON_SIZE
  BY <1>1, <1>2, <1>4
<1>9. EntryIs(new, h, m, l, nm, vl)
  BY <1>4, <1>6, <1>7, <1>8, SameEntry
<1>10. QED BY <1>3, <1>9 DEF h

(* Where an entry that is left stood before.                               *)
CameFrom(j, i, v, w) == j \in Nat /\ i = IF j < v THEN j ELSE j + w

LEMMA EntryCame ==
  ASSUME NEW buf, NEW new, NEW v, NEW w, NEW e, Shifted(buf, new, v, w, e), Kept(buf, e),
         NEW j \in Index, new[j] = MARK
  PROVE  \E i, m, l, nm, vl :
           CameFrom(j, i, v, w) /\ EntryIs(buf, i, m, l, nm, vl) /\ EntryIs(new, j, m, l, nm, vl)
<1>1. /\ v \in Nat /\ w \in Nat /\ w > 0 /\ SH_ENVIRON_SIZE \in Nat /\ j \in Nat /\ j < SH_ENVIRON_SIZE
  BY EnvironAssumption DEF Shifted, Index
<1>2. CASE j < v
  <2>1. buf[j] = MARK /\ CameFrom(j, j, v, w)
    <3>1. new[j] = buf[j]
      BY <1>2 DEF Shifted
    <3>2. CameFrom(j, j, v, w)
      BY <1>1, <1>2 DEF CameFrom
    <3>3. buf[j] = MARK
      BY <3>1, Zenon
    <3>4. QED BY <3>2, <3>3
  <2>2. PICK m, l, nm, vl : EntryIs(buf, j, m, l, nm, vl)
    BY <2>1 DEF Kept, EntryFrom
  <2>3. EntryIs(new, j, m, l, nm, vl)
    BY <1>2, <2>2, EntryStays
  <2>4. QED BY <2>1, <2>2, <2>3
<1>3. CASE j >= v
  <2> DEFINE i == j + w
  <2>1. i \in Nat /\ v < i /\ i - w = j /\ CameFrom(j, i, v, w)
    BY <1>1, <1>3 DEF CameFrom
  <2>2. i < SH_ENVIRON_SIZE /\ buf[i] = MARK
    <3>1. new[j] = IF j + w < SH_ENVIRON_SIZE THEN buf[j + w] ELSE NUL
      BY <1>1, <1>3 DEF Shifted
    <3>2. MARK # NUL
      BY NoLetters
    <3>3. QED BY <3>1, <3>2
  <2> HIDE DEF i
  <2>3. i \in Index
    BY <1>1, <2>1, <2>2 DEF Index
  <2>4. PICK m, l, nm, vl : EntryIs(buf, i, m, l, nm, vl)
    BY <2>2, <2>3 DEF Kept, EntryFrom
  <2>5. EntryIs(new, i - w, m, l, nm, vl)
    BY <2>1, <2>4, EntryMoves
  <2>6. EntryIs(new, j, m, l, nm, vl)
    BY <2>1, <2>5
  <2>7. QED BY <2>1, <2>4, <2>6
<1>4. QED BY <1>1, <1>2, <1>3

LEMMA ShiftedKept ==
  ASSUME NEW buf, NEW new, NEW v, NEW w, NEW e, Shifted(buf, new, v, w, e), Kept(buf, e)
  PROVE  Kept(new, e - w)
<1>1. /\ v \in Nat /\ w \in Nat /\ w > 0 /\ SH_ENVIRON_SIZE \in Nat
      /\ v + w <= e /\ e < SH_ENVIRON_SIZE /\ e \in Nat
  BY EnvironAssumption DEF Shifted
<1> DEFINE d == e - w
<1>2. d \in Nat /\ d + w = e /\ v <= d /\ d \in Index /\ e \in Index
  BY <1>1 DEF Index
<1> HIDE DEF d
<1>3. new[d] = END
  <2>1. new[d] = buf[d + w]
    BY <1>1, <1>2 DEF Shifted
  <2>2. QED BY <1>2, <2>1 DEF Kept
<1>4. ASSUME NEW j \in Index PROVE (j < d => new[j] # END) /\ (j > d => new[j] = NUL)
  <2>1. j \in Nat /\ j < SH_ENVIRON_SIZE
    BY <1>1 DEF Index
  <2>2. CASE j < v
    <3>1. new[j] = buf[j] /\ j < e /\ ~(j > d)
      BY <1>1, <1>2, <2>1, <2>2 DEF Shifted
    <3>2. QED BY <3>1 DEF Kept
  <2>3. CASE j >= v
    <3>1. new[j] = IF j + w < SH_ENVIRON_SIZE THEN buf[j + w] ELSE NUL
      BY <1>1, <2>1, <2>3 DEF Shifted
    <3> DEFINE h == j + w
    <3>2. h \in Nat /\ (j < d => h < e) /\ (j > d => h > e)
      BY <1>1, <1>2, <2>1
    <3> HIDE DEF h
    <3>3. CASE h < SH_ENVIRON_SIZE
      <4>1. h \in Index /\ new[j] = buf[h]
        BY <1>1, <3>1, <3>2, <3>3 DEF Index, h
      <4>2. (h < e => buf[h] # END) /\ (h > e => buf[h] = NUL)
        BY <4>1 DEF Kept
      <4>3. QED BY <3>2, <4>1, <4>2
    <3>4. CASE ~(h < SH_ENVIRON_SIZE)
      <4>1. new[j] = NUL
        BY <3>1, <3>4 DEF h
      <4>2. QED BY <4>1, NoLetters
    <3>5. QED BY <3>3, <3>4
  <2>4. QED BY <1>1, <2>1, <2>2, <2>3
<1>5. ASSUME NEW j \in Index, new[j] = MARK PROVE EntryFrom(new, j)
  <2>1. PICK i, m, l, nm, vl : EntryIs(new, j, m, l, nm, vl)
    BY <1>5, EntryCame
  <2>2. m \in Nat /\ l \in Nat /\ nm \in [1 .. m -> Letters] /\ vl \in [1 .. l -> Letters]
    BY <2>1 DEF EntryIs
  <2>3. QED BY <2>1, <2>2 DEF EntryFrom
<1>6. ASSUME NEW j \in Index, NEW k \in Index, new[j] = MARK, new[k] = MARK,
             Fold(StringAt(new, j + 1)) = Fold(StringAt(new, k + 1))
      PROVE  j = k
  <2>1. PICK i, m, l, nm, vl : /\ CameFrom(j, i, v, w)
                               /\ EntryIs(buf, i, m, l, nm, vl) /\ EntryIs(new, j, m, l, nm, vl)
    BY <1>6, EntryCame
  <2>2. PICK i2, m2, l2, nm2, vl2 : /\ CameFrom(k, i2, v, w)
                               /\ EntryIs(buf, i2, m2, l2, nm2, vl2) /\ EntryIs(new, k, m2, l2, nm2, vl2)
    BY <1>6, EntryCame
  <2>3. /\ StringAt(buf, i + 1) = nm /\ StringAt(new, j + 1) = nm
        /\ StringAt(buf, i2 + 1) = nm2 /\ StringAt(new, k + 1) = nm2
    BY <2>1, <2>2, EntryReads
  <2>4. Fold(StringAt(buf, i + 1)) = Fold(StringAt(buf, i2 + 1))
    BY <1>6, <2>3
  <2>5. i \in Index /\ i2 \in Index /\ buf[i] = MARK /\ buf[i2] = MARK
    BY <1>1, <2>1, <2>2 DEF EntryIs, Index
  <2>6. i = i2
    BY <2>4, <2>5 DEF Kept
  <2>7. QED BY <1>1, <2>1, <2>2, <2>6 DEF CameFrom
<1>7. Kept(new, d)
  BY <1>2, <1>3, <1>4, <1>5, <1>6 DEF Kept
<1>8. QED BY <1>7 DEF d

(* The name that is removed is gone; of the others nothing changes.        *)
LEMMA RemovedIsGone ==
  ASSUME NEW buf, NEW new, NEW v, NEW m, NEW l, NEW nm, NEW vl, NEW w, NEW e,
         Shifted(buf, new, v, w, e), Kept(buf, e), EntryIs(buf, v, m, l, nm, vl),
         NEW q \in Nat, NEW n \in [1 .. q -> Letters], Fold(n) = Fold(nm)
  PROVE  Lacks(new, n)
<1>1. v \in Nat /\ w \in Nat /\ w > 0 /\ v \in Index /\ buf[v] = MARK
  BY EnvironAssumption DEF Shifted, EntryIs, Index
<1>2. Kept(new, e - w)
  BY ShiftedKept
<1>3. ASSUME NEW j, NEW m2, NEW l2, NEW nm2, NEW vl2, Shows(new, n, j, m2, l2, nm2, vl2)
      PROVE  FALSE
  <2>1. EntryIs(new, j, m2, l2, nm2, vl2) /\ Fold(nm2) = Fold(n)
    BY <1>3 DEF Shows
  <2>2. j \in Index /\ new[j] = MARK
    BY <2>1, EnvironAssumption DEF EntryIs, Index
  <2>3. PICK i, m1, l1, nm1, vl1 : /\ CameFrom(j, i, v, w)
                               /\ EntryIs(buf, i, m1, l1, nm1, vl1) /\ EntryIs(new, j, m1, l1, nm1, vl1)
    BY <2>2, EntryCame
  <2>4. StringAt(buf, i + 1) = nm1 /\ StringAt(new, j + 1) = nm1 /\ StringAt(new, j + 1) = nm2
        /\ StringAt(buf, v + 1) = nm
    BY <2>1, <2>3, EntryReads
  <2>5. Fold(StringAt(buf, i + 1)) = Fold(StringAt(buf, v + 1))
    BY <2>1, <2>4
  <2>6. i \in Index /\ buf[i] = MARK
    BY <2>3, EnvironAssumption DEF EntryIs, Index
  <2>7. i = v
    BY <1>1, <2>5, <2>6 DEF Kept
  <2>8. QED BY <1>1, <2>3, <2>7 DEF CameFrom
<1>4. QED BY <1>2, <1>3, Known

LEMMA RemovedElse ==
  ASSUME NEW buf, NEW new, NEW v, NEW m, NEW l, NEW nm, NEW vl, NEW w, NEW e,
         Shifted(buf, new, v, w, e), Kept(buf, e), EntryIs(buf, v, m, l, nm, vl),
         NEW q \in Nat, NEW n \in [1 .. q -> Letters], Fold(n) # Fold(nm)
  PROVE  \/ Lacks(buf, n) /\ Lacks(new, n)
         \/ \E i, j, m1, l1, nm1, vl1 : Shows(buf, n, i, m1, l1, nm1, vl1) /\ Shows(new, n, j, m1, l1, nm1, vl1)
<1>1. v \in Nat /\ w \in Nat /\ w > 0 /\ v \in Index /\ buf[v] = MARK
  BY EnvironAssumption DEF Shifted, EntryIs, Index
<1>2. Kept(new, e - w)
  BY ShiftedKept
<1>3. ASSUME NEW i, NEW m1, NEW l1, NEW nm1, NEW vl1, Shows(buf, n, i, m1, l1, nm1, vl1)
      PROVE  \E j : Shows(new, n, j, m1, l1, nm1, vl1)
  <2>1. EntryIs(buf, i, m1, l1, nm1, vl1) /\ Fold(nm1) = Fold(n)
    BY <1>3 DEF Shows
  <2>2. i # v
    <3>1. ASSUME i = v PROVE FALSE
      <4>1. StringAt(buf, i + 1) = nm1 /\ StringAt(buf, v + 1) = nm
        BY <2>1, EntryReads
      <4>2. QED BY <2>1, <3>1, <4>1
    <3>2. QED BY <3>1
  <2>3. i \in Nat
    BY <2>1 DEF EntryIs
  <2>4. \E j : EntryIs(new, j, m1, l1, nm1, vl1)
    <3>1. CASE i < v
      BY <2>1, <3>1, EntryStays
    <3>2. CASE v < i
      BY <2>1, <3>2, EntryMoves
    <3>3. QED BY <1>1, <2>2, <2>3, <3>1, <3>2
  <2>5. PICK j : EntryIs(new, j, m1, l1, nm1, vl1)
    BY <2>4
  <2>6. Shows(new, n, j, m1, l1, nm1, vl1)
    BY <1>2, <2>1, <2>5, Shown
  <2>7. QED BY <2>6
<1>4. ASSUME Lacks(buf, n), NEW j, NEW m2, NEW l2, NEW nm2, NEW vl2, Shows(new, n, j, m2, l2, nm2, vl2)
      PROVE  FALSE
  <2>1. EntryIs(new, j, m2, l2, nm2, vl2) /\ Fold(nm2) = Fold(n)
    BY <1>4 DEF Shows
  <2>2. j \in Index /\ new[j] = MARK
    BY <2>1, EnvironAssumption DEF EntryIs, Index
  <2>3. PICK i, m1, l1, nm1, vl1 : /\ CameFrom(j, i, v, w)
                               /\ EntryIs(buf, i, m1, l1, nm1, vl1) /\ EntryIs(new, j, m1, l1, nm1, vl1)
    BY <2>2, EntryCame
  <2>4. StringAt(buf, i + 1) = nm1 /\ StringAt(new, j + 1) = nm1 /\ StringAt(new, j + 1) = nm2
    BY <2>1, <2>3, EntryReads
  <2>5. i \in Index /\ buf[i] = MARK
    BY <2>3, EnvironAssumption DEF EntryIs, Index
  <2>6. Fold(StringAt(buf, i + 1)) = Fold(n)
    BY <2>1, <2>4
  <2>7. QED BY <1>4, <2>5, <2>6 DEF Lacks
<1>5. CASE Lacks(buf, n)
  <2>1. Lacks(new, n)
    BY <1>2, <1>4, <1>5, Known
  <2>2. QED BY <1>5, <2>1
<1>6. CASE \E i, m1, l1, nm1, vl1 : Shows(buf, n, i, m1, l1, nm1, vl1)
  BY <1>3, <1>6
<1>7. QED BY <1>5, <1>6, Known

Concat(S, u, p, s, q, t) ==
  u \in [1 .. p + q -> S] /\ (\A k \in 1 .. p : u[k] = s[k]) /\ \A k \in 1 .. q : u[p + k] = t[k]

LEMMA Joined ==
  ASSUME NEW S, NEW p \in Nat, NEW s \in [1 .. p -> S], NEW q \in Nat, NEW t \in [1 .. q -> S]
  PROVE  Concat(S, s \o t, p, s, q, t)
<1>1. s \in Seq(S) /\ t \in Seq(S) /\ Len(s) = p /\ Len(t) = q
  BY LenIs
<1>3. /\ s \o t \in Seq(S) /\ Len(s \o t) = p + q
      /\ \A i \in 1 .. p + q : (s \o t)[i] = IF i <= p THEN s[i] ELSE t[i - p]
  BY <1>1, ConcatProperties
<1> DEFINE u == s \o t
<1>4. u \in Seq(S) /\ Len(u) = p + q /\ \A i \in 1 .. p + q : u[i] = IF i <= p THEN s[i] ELSE t[i - p]
  BY <1>3
<1> HIDE DEF u
<1>5. u \in [1 .. p + q -> S]
  BY <1>4, LenProperties
<1>6. ASSUME NEW k \in 1 .. p PROVE u[k] = s[k]
  <2>1. k \in 1 .. p + q /\ k <= p
    OBVIOUS
  <2>2. QED BY <1>4, <2>1
<1>7. ASSUME NEW k \in 1 .. q PROVE u[p + k] = t[k]
  <2> DEFINE i == p + k
  <2>1. i \in 1 .. p + q /\ ~(i <= p) /\ i - p = k
    OBVIOUS
  <2> HIDE DEF i
  <2>2. u[i] = t[k]
    BY <1>4, <2>1
  <2>3. QED BY <2>2 DEF i
<1>8. QED BY <1>5, <1>6, <1>7 DEF u, Concat

(* The bytes of an entry.                                                  *)
EntryHas(E, m, l, nm, vl) ==
  /\ E \in [1 .. m + l + 4 -> Byte] /\ E[1] = MARK /\ E[m + 2] = NUL
  /\ \A k \in 1 .. m : E[1 + k] = nm[k]
  /\ \A k \in 1 .. l : E[m + 2 + k] = vl[k]
  /\ E[m + l + 3] = NUL /\ E[m + l + 4] = END

LEMMA EntrySeq ==
  ASSUME NEW m \in Nat, NEW nm \in [1 .. m -> Letters], NEW l \in Nat, NEW vl \in [1 .. l -> Letters]
  PROVE  EntryHas(Entry(nm, vl), m, l, nm, vl)
<1> DEFINE a1 == << MARK >>
           a2 == a1 \o nm
           a3 == a2 \o << NUL >>
           a4 == a3 \o vl
           a5 == a4 \o << NUL, END >>
<1>1. nm \in [1 .. m -> Byte] /\ vl \in [1 .. l -> Byte]
  BY DEF Byte
<1>2. /\ << MARK >> \in [1 .. 1 -> Byte] /\ << NUL >> \in [1 .. 1 -> Byte] /\ << NUL, END >> \in [1 .. 2 -> Byte]
      /\ << MARK >>[1] = MARK /\ << NUL >>[1] = NUL /\ << NUL, END >>[1] = NUL /\ << NUL, END >>[2] = END
  BY DEF Byte
<1>3. /\ a2 \in [1 .. 1 + m -> Byte] /\ \A k \in 1 .. 1 : a2[k] = a1[k]
      /\ \A k \in 1 .. m : a2[1 + k] = nm[k]
  <2>1. Concat(Byte, a1 \o nm, 1, a1, m, nm)
    BY <1>1, <1>2, Joined
  <2>2. Concat(Byte, a2, 1, a1, m, nm)
    BY <2>1
  <2> HIDE DEF a1, a2
  <2>3. QED BY <2>2 DEF Concat
<1>4. a2[1] = MARK
  BY <1>2, <1>3
<1> HIDE DEF a2
<1>5. /\ a3 \in [1 .. 1 + m + 1 -> Byte] /\ \A k \in 1 .. 1 + m : a3[k] = a2[k]
      /\ \A k \in 1 .. 1 : a3[1 + m + k] = << NUL >>[k]
  <2>1. 1 + m \in Nat
    OBVIOUS
  <2>2. Concat(Byte, a2 \o << NUL >>, 1 + m, a2, 1, << NUL >>)
    BY <1>2, <1>3, <2>1, Joined
  <2>3. Concat(Byte, a3, 1 + m, a2, 1, << NUL >>)
    BY <2>2
  <2> HIDE DEF a3
  <2>4. QED BY <2>3 DEF Concat
<1>6. a3[1] = MARK /\ a3[m + 2] = NUL /\ \A k \in 1 .. m : a3[1 + k] = nm[k]
  <2>1. 1 \in 1 .. 1 + m /\ 1 \in 1 .. 1 /\ 1 + m + 1 = m + 2 /\ \A k \in 1 .. m : 1 + k \in 1 .. 1 + m
    OBVIOUS
  <2> HIDE DEF a3
  <2>2. a3[1 + m + 1] = NUL
    BY <1>2, <1>5, <2>1
  <2>3. QED BY <1>3, <1>4, <1>5, <2>1, <2>2
<1> HIDE DEF a3
<1>7. /\ a4 \in [1 .. 1 + m + 1 + l -> Byte] /\ \A k \in 1 .. 1 + m + 1 : a4[k] = a3[k]
      /\ \A k \in 1 .. l : a4[1 + m + 1 + k] = vl[k]
  <2>1. 1 + m + 1 \in Nat
    OBVIOUS
  <2>2. Concat(Byte, a3 \o vl, 1 + m + 1, a3, l, vl)
    BY <1>1, <1>5, <2>1, Joined
  <2>3. Concat(Byte, a4, 1 + m + 1, a3, l, vl)
    BY <2>2
  <2> HIDE DEF a4
  <2>4. QED BY <2>3 DEF Concat
<1>8. /\ a4[1] = MARK /\ a4[m + 2] = NUL /\ \A k \in 1 .. m : a4[1 + k] = nm[k]
      /\ \A k \in 1 .. l : a4[m + 2 + k] = vl[k]
  <2>1. /\ 1 \in 1 .. 1 + m + 1 /\ m + 2 \in 1 .. 1 + m + 1 /\ \A k \in 1 .. m : 1 + k \in 1 .. 1 + m + 1
        /\ \A k \in 1 .. l : 1 + m + 1 + k = m + 2 + k
    OBVIOUS
  <2> HIDE DEF a4
  <2>2. QED BY <1>6, <1>7, <2>1
<1> HIDE DEF a4
<1>9. /\ a5 \in [1 .. 1 + m + 1 + l + 2 -> Byte] /\ \A k \in 1 .. 1 + m + 1 + l : a5[k] = a4[k]
      /\ \A k \in 1 .. 2 : a5[1 + m + 1 + l + k] = << NUL, END >>[k]
  <2>1. 1 + m + 1 + l \in Nat
    OBVIOUS
  <2>2. Concat(Byte, a4 \o << NUL, END >>, 1 + m + 1 + l, a4, 2, << NUL, END >>)
    BY <1>2, <1>7, <2>1, Joined
  <2>3. Concat(Byte, a5, 1 + m + 1 + l, a4, 2, << NUL, END >>)
    BY <2>2
  <2> HIDE DEF a5
  <2>4. QED BY <2>3 DEF Concat
<1>10. EntryHas(a5, m, l, nm, vl)
  <2> HIDE DEF a5
  <2>1. /\ 1 \in 1 .. 1 + m + 1 + l /\ m + 2 \in 1 .. 1 + m + 1 + l
        /\ \A k \in 1 .. m : 1 + k \in 1 .. 1 + m + 1 + l
        /\ \A k \in 1 .. l : m + 2 + k \in 1 .. 1 + m + 1 + l
        /\ 1 + m + 1 + l + 2 = m + l + 4 /\ 1 + m + 1 + l + 1 = m + l + 3 /\ 1 \in 1 .. 2 /\ 2 \in 1 .. 2
    OBVIOUS
  <2>2. a5[1] = MARK /\ a5[m + 2] = NUL
    BY <1>8, <1>9, <2>1
  <2>3. (\A k \in 1 .. m : a5[1 + k] = nm[k]) /\ \A k \in 1 .. l : a5[m + 2 + k] = vl[k]
    BY <1>8, <1>9, <2>1
  <2>4. a5[1 + m + 1 + l + 1] = NUL /\ a5[1 + m + 1 + l + 2] = END
    BY <1>2, <1>9, <2>1
  <2>5. a5[m + l + 3] = NUL /\ a5[m + l + 4] = END
    BY <2>1, <2>4
  <2>6. a5 \in [1 .. m + l + 4 -> Byte]
    BY <1>9, <2>1
  <2>7. QED BY <2>2, <2>3, <2>5, <2>6 DEF EntryHas
<1>11. Entry(nm, vl) = a5
  BY DEF Entry, a2, a3, a4
<1>12. QED BY <1>10, <1>11

(* A new entry in place of the end mark.                                   *)
LEMMA PutIs ==
  ASSUME NEW buf, NEW e, Kept(buf, e),
         NEW m \in Nat, NEW nm \in [1 .. m -> Letters], NEW l \in Nat, l > 0, NEW vl \in [1 .. l -> Letters],
         e + m + l + 3 < SH_ENVIRON_SIZE, NEW new, new = Put(buf, e, Entry(nm, vl))
  PROVE  /\ EntryIs(new, e, m, l, nm, vl) /\ new[e + m + l + 3] = END
         /\ \A j \in Index : j < e => new[j] = buf[j]
         /\ \A j \in e + 1 .. e + m + l + 2 : new[j] \notin {MARK, END}
         /\ \A j \in Index : j > e + m + l + 3 => new[j] = NUL
<1>1. e \in Nat /\ e < SH_ENVIRON_SIZE /\ SH_ENVIRON_SIZE \in Nat
  BY EnvironAssumption DEF Kept, Index
<1> DEFINE E == Entry(nm, vl)
<1>2. EntryHas(E, m, l, nm, vl)
  BY EntrySeq
<1>3. new = [i \in Index |-> IF i - e + 1 \in DOMAIN E THEN E[i - e + 1] ELSE buf[i]]
  BY DEF Put
<1> HIDE DEF E
<1>4. DOMAIN E = 1 .. m + l + 4
  BY <1>2 DEF EntryHas
<1>5. ASSUME NEW k \in 1 .. m + l + 4 PROVE new[e + k - 1] = E[k]
  <2> DEFINE i == e + k - 1
  <2>1. i \in Index /\ i - e + 1 = k
    BY <1>1 DEF Index
  <2> HIDE DEF i
  <2>2. new[i] = E[k]
    BY <1>3, <1>4, <2>1
  <2>3. QED BY <2>2 DEF i
<1>6. ASSUME NEW j \in Index, j < e \/ j > e + m + l + 3 PROVE new[j] = buf[j]
  <2>1. j \in Nat /\ j - e + 1 \notin 1 .. m + l + 4
    BY <1>1, <1>6 DEF Index
  <2>2. QED BY <1>3, <1>4, <2>1
<1>7. EntryIs(new, e, m, l, nm, vl) /\ new[e + m + l + 3] = END
  <2>1. new[e] = MARK
    <3>1. 1 \in 1 .. m + l + 4 /\ e + 1 - 1 = e
      BY <1>1
    <3>2. new[e + 1 - 1] = E[1]
      BY <1>5, <3>1
    <3>3. QED BY <1>2, <3>1, <3>2 DEF EntryHas
  <2>2. new[e + m + 1] = NUL
    <3>1. m + 2 \in 1 .. m + l + 4 /\ e + (m + 2) - 1 = e + m + 1
      BY <1>1
    <3>2. new[e + (m + 2) - 1] = E[m + 2]
      BY <1>5, <3>1
    <3>3. QED BY <1>2, <3>1, <3>2 DEF EntryHas
  <2>3. new[e + m + l + 2] = NUL
    <3>1. m + l + 3 \in 1 .. m + l + 4 /\ e + (m + l + 3) - 1 = e + m + l + 2
      BY <1>1
    <3>2. new[e + (m + l + 3) - 1] = E[m + l + 3]
      BY <1>5, <3>1
    <3>3. QED BY <1>2, <3>1, <3>2 DEF EntryHas
  <2>4. new[e + m + l + 3] = END
    <3>1. m + l + 4 \in 1 .. m + l + 4 /\ e + (m + l + 4) - 1 = e + m + l + 3
      BY <1>1
    <3>2. new[e + (m + l + 4) - 1] = E[m + l + 4]
      BY <1>5, <3>1
    <3>3. QED BY <1>2, <3>1, <3>2 DEF EntryHas
  <2>5. ASSUME NEW k \in 1 .. m PROVE new[e + k] = nm[k]
    <3>1. 1 + k \in 1 .. m + l + 4 /\ e + (1 + k) - 1 = e + k
      BY <1>1
    <3>2. new[e + (1 + k) - 1] = E[1 + k]
      BY <1>5, <3>1
    <3>3. QED BY <1>2, <3>1, <3>2 DEF EntryHas
  <2>6. ASSUME NEW k \in 1 .. l PROVE new[e + m + 1 + k] = vl[k]
    <3>1. m + 2 + k \in 1 .. m + l + 4 /\ e + (m + 2 + k) - 1 = e + m + 1 + k
      BY <1>1
    <3>2. new[e + (m + 2 + k) - 1] = E[m + 2 + k]
      BY <1>5, <3>1
    <3>3. QED BY <1>2, <3>1, <3>2 DEF EntryHas
  <2>7. QED BY <1>1, <2>1, <2>2, <2>3, <2>4, <2>5, <2>6 DEF EntryIs
<1>8. \A j \in e + 1 .. e + m + l + 2 : new[j] \notin {MARK, END}
  <2> SUFFICES ASSUME NEW j \in e + 1 .. e + m + l + 2 PROVE new[j] \notin {MARK, END}
    OBVIOUS
  <2>1. new[j] \in Letters \cup {NUL}
    BY <1>7, EntryBytes
  <2>2. QED BY <2>1, NoLetters
<1>9. ASSUME NEW j \in Index, j > e + m + l + 3 PROVE new[j] = NUL
  <2>1. new[j] = buf[j]
    BY <1>9, <1>6
  <2>2. j > e
    BY <1>1, <1>9, EnvironAssumption DEF Index
  <2>3. QED BY <2>1, <2>2 DEF Kept
<1>10. QED BY <1>6, <1>7, <1>8, <1>9

(* An entry that has been added behind those of before.                    *)
Appended(buf, new, e, m, l, nm, vl) ==
  /\ Kept(buf, e) /\ EntryIs(new, e, m, l, nm, vl) /\ new[e + m + l + 3] = END
  /\ \A j \in Index : j < e => new[j] = buf[j]
  /\ \A j \in e + 1 .. e + m + l + 2 : new[j] \notin {MARK, END}
  /\ \A j \in Index : j > e + m + l + 3 => new[j] = NUL

LEMMA EntryLasts ==
  ASSUME NEW buf, NEW new, NEW e, NEW m, NEW l, NEW nm, NEW vl, Appended(buf, new, e, m, l, nm, vl),
         NEW i, NEW m1, NEW l1, NEW nm1, NEW vl1, EntryIs(buf, i, m1, l1, nm1, vl1)
  PROVE  i < e /\ EntryIs(new, i, m1, l1, nm1, vl1)
<1>1. /\ i \in Nat /\ m1 \in Nat /\ l1 \in Nat /\ i + m1 + l1 + 3 < SH_ENVIRON_SIZE
      /\ buf[i] = MARK /\ buf[i + m1 + l1 + 3] \in {MARK, END} /\ SH_ENVIRON_SIZE \in Nat
  BY EnvironAssumption DEF EntryIs
<1>2. Kept(buf, e) /\ e \in Nat /\ buf[e] = END /\ new[e] = MARK /\ e < SH_ENVIRON_SIZE
  BY EnvironAssumption DEF Appended, Kept, Index, EntryIs
<1>3. i < e
  <2>1. i \in Index
    BY <1>1 DEF Index
  <2>2. i # e /\ ~(i > e)
    BY <1>1, <1>2, <2>1, NoLetters DEF Kept
  <2>3. QED BY <1>1, <1>2, <2>2
<1>4. i + m1 + l1 + 3 <= e
  BY <1>2, <1>3, EntryBefore
<1>5. ASSUME NEW k \in 0 .. m1 + l1 + 2 PROVE new[i + k] = buf[i + k]
  <2>1. i + k \in Index /\ i + k < e
    BY <1>1, <1>2, <1>4 DEF Index
  <2>2. QED BY <2>1 DEF Appended
<1>6. new[i + m1 + l1 + 3] \in {MARK, END}
  <2> DEFINE j == i + m1 + l1 + 3
  <2>1. j \in Index /\ buf[j] \in {MARK, END} /\ j <= e /\ j \in Nat
    BY <1>1, <1>4 DEF Index
  <2> HIDE DEF j
  <2>2. ASSUME j < e PROVE new[j] \in {MARK, END}
    <3>1. new[j] = buf[j]
      BY <2>1, <2>2 DEF Appended
    <3>2. QED BY <2>1, <3>1
  <2>3. ASSUME j = e PROVE new[j] \in {MARK, END}
    BY <1>2, <2>3
  <2>4. new[j] \in {MARK, END}
    BY <1>2, <2>1, <2>2, <2>3
  <2>5. QED BY <2>4 DEF j
<1>7. EntryIs(new, i, m1, l1, nm1, vl1)
  BY <1>1, <1>5, <1>6, SameEntry
<1>8. QED BY <1>3, <1>7

LEMMA EntryWas ==
  ASSUME NEW buf, NEW new, NEW e, NEW m, NEW l, NEW nm, NEW vl, Appended(buf, new, e, m, l, nm, vl),
         NEW j \in Index, new[j] = MARK
  PROVE  \/ j = e
         \/ \E m1, l1, nm1, vl1 : EntryIs(buf, j, m1, l1, nm1, vl1) /\ EntryIs(new, j, m1, l1, nm1, vl1)
<1>1. /\ e \in Nat /\ m \in Nat /\ l \in Nat /\ j \in Nat /\ Kept(buf, e)
  BY EnvironAssumption DEF Appended, EntryIs, Index
<1>2. j < e \/ j = e
  <2>1. ASSUME j > e PROVE FALSE
    <3>1. j \in e + 1 .. e + m + l + 2 \/ j = e + m + l + 3 \/ j > e + m + l + 3
      BY <1>1, <2>1
    <3>2. CASE j \in e + 1 .. e + m + l + 2
      BY <3>2 DEF Appended
    <3>3. CASE j = e + m + l + 3
      <4>1. new[j] = END
        BY <3>3 DEF Appended
      <4>2. QED BY <4>1, NoLetters
    <3>4. CASE j > e + m + l + 3
      <4>1. new[j] = NUL
        BY <3>4 DEF Appended
      <4>2. QED BY <4>1, NoLetters
    <3>5. QED BY <3>1, <3>2, <3>3, <3>4
  <2>2. QED BY <1>1, <2>1
<1>3. ASSUME j < e
      PROVE  \E m1, l1, nm1, vl1 : EntryIs(buf, j, m1, l1, nm1, vl1) /\ EntryIs(new, j, m1, l1, nm1, vl1)
  <2>1. new[j] = buf[j]
    BY <1>3 DEF Appended
  <2>2. buf[j] = MARK
    BY <2>1, Zenon
  <2>3. PICK m1, l1, nm1, vl1 : EntryIs(buf, j, m1, l1, nm1, vl1)
    BY <1>1, <2>2 DEF Kept, EntryFrom
  <2>4. QED BY <2>3, EntryLasts
<1>4. QED BY <1>2, <1>3

LEMMA AppendedKept ==
  ASSUME NEW buf, NEW new, NEW e, NEW m, NEW l, NEW nm, NEW vl, Appended(buf, new, e, m, l, nm, vl),
         Lacks(buf, nm)
  PROVE  Kept(new, e + m + l + 3)
<1>1. /\ e \in Nat /\ m \in Nat /\ l \in Nat /\ e + m + l + 3 < SH_ENVIRON_SIZE /\ SH_ENVIRON_SIZE \in Nat
      /\ Kept(buf, e) /\ new[e] = MARK /\ EntryIs(new, e, m, l, nm, vl)
      /\ nm \in [1 .. m -> Letters] /\ vl \in [1 .. l -> Letters]
  BY EnvironAssumption DEF Appended, EntryIs
<1> DEFINE d == e + m + l + 3
<1>2. d \in Nat /\ d \in Index /\ e < d
  BY <1>1 DEF Index
<1>3. new[d] = END
  BY DEF Appended
<1>4. ASSUME NEW j \in Index PROVE (j < d => new[j] # END) /\ (j > d => new[j] = NUL)
  <2>1. j \in Nat /\ (j < e \/ j = e \/ j \in e + 1 .. e + m + l + 2 \/ j = d \/ j > d)
    BY <1>1 DEF Index
  <2>2. j < d => new[j] # END
    <3>1. CASE j < e
      <4>1. new[j] = buf[j]
        BY <3>1 DEF Appended
      <4>2. buf[j] # END
        BY <1>1, <3>1 DEF Kept
      <4>3. QED BY <4>1, <4>2
    <3>2. CASE j = e
      BY <1>1, <3>2, NoLetters
    <3>3. CASE j \in e + 1 .. e + m + l + 2
      BY <3>3 DEF Appended
    <3>4. CASE j = d \/ j > d
      BY <1>2, <2>1, <3>4
    <3>5. QED BY <2>1, <3>1, <3>2, <3>3, <3>4
  <2>3. j > d => new[j] = NUL
    BY DEF Appended
  <2>4. QED BY <2>2, <2>3
<1> HIDE DEF d
<1>5. ASSUME NEW j \in Index, new[j] = MARK PROVE EntryFrom(new, j)
  <2>1. PICK m1, l1, nm1, vl1 : EntryIs(new, j, m1, l1, nm1, vl1)
    BY <1>1, <1>5, EntryWas
  <2>2. m1 \in Nat /\ l1 \in Nat /\ nm1 \in [1 .. m1 -> Letters] /\ vl1 \in [1 .. l1 -> Letters]
    BY <2>1 DEF EntryIs
  <2>3. QED BY <2>1, <2>2 DEF EntryFrom
<1>6. ASSUME NEW j \in Index, new[j] = MARK, j # e
      PROVE  /\ buf[j] = MARK /\ StringAt(new, j + 1) = StringAt(buf, j + 1)
             /\ Fold(StringAt(new, j + 1)) # Fold(nm)
  <2>1. PICK m1, l1, nm1, vl1 : EntryIs(buf, j, m1, l1, nm1, vl1) /\ EntryIs(new, j, m1, l1, nm1, vl1)
    BY <1>6, EntryWas
  <2>2. buf[j] = MARK
    BY <2>1 DEF EntryIs
  <2>3. StringAt(buf, j + 1) = nm1 /\ StringAt(new, j + 1) = nm1
    BY <2>1, EntryReads
  <2>4. Fold(StringAt(buf, j + 1)) # Fold(nm)
    BY <2>2 DEF Lacks
  <2>5. QED BY <2>2, <2>3, <2>4
<1>7. StringAt(new, e + 1) = nm
  BY <1>1, EntryReads
<1>8. ASSUME NEW j \in Index, NEW k \in Index, new[j] = MARK, new[k] = MARK,
             Fold(StringAt(new, j + 1)) = Fold(StringAt(new, k + 1))
      PROVE  j = k
  <2>1. CASE j # e /\ k # e
    <3>1. /\ buf[j] = MARK /\ StringAt(new, j + 1) = StringAt(buf, j + 1)
          /\ buf[k] = MARK /\ StringAt(new, k + 1) = StringAt(buf, k + 1)
      BY <1>6, <1>8, <2>1
    <3>2. Fold(StringAt(buf, j + 1)) = Fold(StringAt(buf, k + 1))
      BY <1>8, <3>1
    <3>3. QED BY <1>1, <3>1, <3>2 DEF Kept
  <2>2. CASE j = e /\ k # e
    <3>1. Fold(StringAt(new, k + 1)) # Fold(nm)
      BY <1>6, <1>8, <2>2
    <3>2. QED BY <1>7, <1>8, <2>2, <3>1
  <2>3. CASE j # e /\ k = e
    <3>1. Fold(StringAt(new, j + 1)) # Fold(nm)
      BY <1>6, <1>8, <2>3
    <3>2. QED BY <1>7, <1>8, <2>3, <3>1
  <2>4. QED BY <2>1, <2>2, <2>3
<1>9. Kept(new, d)
  BY <1>2, <1>3, <1>4, <1>5, <1>8 DEF Kept
<1>10. QED BY <1>9 DEF d

(* Of the other names nothing changes.                                     *)
LEMMA AppendedElse ==
  ASSUME NEW buf, NEW new, NEW e, NEW m, NEW l, NEW nm, NEW vl, Appended(buf, new, e, m, l, nm, vl),
         Lacks(buf, nm), NEW q \in Nat, NEW n \in [1 .. q -> Letters], Fold(n) # Fold(nm)
  PROVE  \/ Lacks(buf, n) /\ Lacks(new, n)
         \/ \E i, j, m1, l1, nm1, vl1 : Shows(buf, n, i, m1, l1, nm1, vl1) /\ Shows(new, n, j, m1, l1, nm1, vl1)
<1>1. Kept(buf, e) /\ Kept(new, e + m + l + 3) /\ EntryIs(new, e, m, l, nm, vl)
  BY AppendedKept DEF Appended
<1>2. ASSUME NEW i, NEW m1, NEW l1, NEW nm1, NEW vl1, Shows(buf, n, i, m1, l1, nm1, vl1)
      PROVE  Shows(new, n, i, m1, l1, nm1, vl1)
  <2>1. EntryIs(buf, i, m1, l1, nm1, vl1) /\ Fold(nm1) = Fold(n)
    BY <1>2 DEF Shows
  <2>2. EntryIs(new, i, m1, l1, nm1, vl1)
    BY <2>1, EntryLasts
  <2>3. QED BY <1>1, <2>1, <2>2, Shown
<1>3. ASSUME Lacks(buf, n), NEW j, NEW m2, NEW l2, NEW nm2, NEW vl2, Shows(new, n, j, m2, l2, nm2, vl2)
      PROVE  FALSE
  <2>1. EntryIs(new, j, m2, l2, nm2, vl2) /\ Fold(nm2) = Fold(n)
    BY <1>3 DEF Shows
  <2>2. j \in Index /\ new[j] = MARK
    BY <2>1, EnvironAssumption DEF EntryIs, Index
  <2>3. StringAt(new, j + 1) = nm2
    BY <2>1, EntryReads
  <2>4. CASE j = e
    <3>1. StringAt(new, e + 1) = nm
      BY <1>1, EntryReads
    <3>2. QED BY <2>1, <2>3, <2>4, <3>1
  <2>5. CASE j # e
    <3>1. PICK m1, l1, nm1, vl1 : EntryIs(buf, j, m1, l1, nm1, vl1) /\ EntryIs(new, j, m1, l1, nm1, vl1)
      BY <2>2, <2>5, EntryWas
    <3>2. StringAt(buf, j + 1) = nm1 /\ StringAt(new, j + 1) = nm1
      BY <3>1, EntryReads
    <3>3. buf[j] = MARK
      BY <3>1 DEF EntryIs
    <3>4. Fold(StringAt(buf, j + 1)) = Fold(n)
      BY <2>1, <2>3, <3>2
    <3>5. QED BY <1>3, <2>2, <3>3, <3>4 DEF Lacks
  <2>6. QED BY <2>4, <2>5
<1>4. CASE Lacks(buf, n)
  <2>1. Lacks(new, n)
    BY <1>1, <1>3, <1>4, Known
  <2>2. QED BY <1>4, <2>1
<1>5. CASE \E i, m1, l1, nm1, vl1 : Shows(buf, n, i, m1, l1, nm1, vl1)
  BY <1>2, <1>5
<1>6. QED BY <1>1, <1>4, <1>5, Known

View(buf, n) == IF HasName(buf, n) THEN EnvGet(buf, n) ELSE << >>

(* What it takes in the buffer.                                            *)
Takes(buf, n) == IF View(buf, n) = << >> THEN 0 ELSE Len(n) + Len(View(buf, n)) + 3

LEMMA ViewShows ==
  ASSUME NEW buf, NEW n, NEW i, NEW m, NEW l, NEW nm, NEW vl, Shows(buf, n, i, m, l, nm, vl)
  PROVE  View(buf, n) = vl /\ Takes(buf, n) = m + l + 3
<1>1. /\ m \in Nat /\ l \in Nat /\ l > 0 /\ nm \in [1 .. m -> Letters] /\ vl \in [1 .. l -> Letters]
      /\ Len(n) = m
  BY DEF Shows, EntryIs
<1>2. View(buf, n) = vl
  BY DEF Shows, View
<1>3. Len(vl) = l
  BY <1>1, FoldLen
<1>4. vl # << >>
  <2>1. 1 \in DOMAIN vl
    BY <1>1
  <2>2. QED BY <2>1
<1>5. QED BY <1>1, <1>2, <1>3, <1>4 DEF Takes

LEMMA ViewLacks ==
  ASSUME NEW buf, NEW n, Lacks(buf, n)
  PROVE  View(buf, n) = << >> /\ Takes(buf, n) = 0
BY DEF Lacks, View, Takes

LEMMA EndIs ==
  ASSUME NEW buf, NEW e, Kept(buf, e)
  PROVE  EnvEnd(buf) = e /\ e \in Nat
<1>1. e \in Nat /\ e < SH_ENVIRON_SIZE /\ SH_ENVIRON_SIZE \in Nat
  BY EnvironAssumption DEF Kept, Index
<1>2. \A h \in 0 .. e - 1 : buf[h] \notin {END}
  <2> SUFFICES ASSUME NEW h \in 0 .. e - 1 PROVE buf[h] \notin {END}
    OBVIOUS
  <2>1. h \in Index /\ h < e
    BY <1>1 DEF Index
  <2>2. QED BY <2>1 DEF Kept
<1>3. 0 \in Nat /\ e \in 0 .. SH_ENVIRON_SIZE - 1 /\ buf[e] \in {END}
  BY <1>1 DEF Kept
<1>4. NextAt(buf, {END}, 0) = e
  BY <1>2, <1>3, NextIs
<1>5. QED BY <1>1, <1>4 DEF EnvEnd

LEMMA SameFold ==
  ASSUME NEW buf, NEW a, NEW b, Fold(a) = Fold(b)
  PROVE  Lacks(buf, a) <=> Lacks(buf, b)
<1>1. EntryOf(buf, a) = EntryOf(buf, b)
  BY DEF EntryOf
<1>2. HasName(buf, a) <=> HasName(buf, b)
  BY <1>1 DEF HasName
<1>3. QED BY <1>2 DEF Lacks

(* The old value goes, and the others stay.                                *)
LEMMA CleanedIs ==
  ASSUME NEW buf, NEW e, Kept(buf, e), NEW q \in Nat, NEW name \in [1 .. q -> Letters]
  PROVE  LET c == Cleaned(buf, name) IN
         /\ Kept(c, e - Takes(buf, Fold(name))) /\ Lacks(c, name)
         /\ \A r \in Nat : \A n \in [1 .. r -> Letters] : Fold(n) # Fold(name) => View(c, n) = View(buf, n)
<1> DEFINE c == Cleaned(buf, name)
           n0 == Fold(name)
<1>1. n0 \in [1 .. q -> Letters] /\ Fold(n0) = Fold(name)
  BY FoldsOnce
<1> HIDE DEF n0
<1>2. CASE Lacks(buf, name)
  <2>1. c = buf
    BY <1>2 DEF Cleaned, Lacks
  <2>2. Takes(buf, n0) = 0
    BY <1>1, <1>2, SameFold, ViewLacks
  <2>3. e - 0 = e
    BY EndIs
  <2> HIDE DEF c
  <2>4. QED BY <1>2, <2>1, <2>2, <2>3 DEF c, n0
<1>3. CASE \E i, m, l, nm, vl : Shows(buf, name, i, m, l, nm, vl)
  <2>1. PICK v, m, l, nm, vl : Shows(buf, name, v, m, l, nm, vl)
    BY <1>3
  <2>2. EntryIs(buf, v, m, l, nm, vl) /\ Fold(nm) = Fold(name)
    BY <2>1 DEF Shows
  <2>3. c = Removed(buf, v)
    BY <2>1 DEF Shows, Cleaned
  <2> DEFINE w == m + l + 3
  <2>4. Shifted(buf, c, v, w, e)
    BY <2>2, <2>3, RemovedShifts
  <2> HIDE DEF c
  <2>5. Kept(c, e - w)
    BY <2>4, ShiftedKept
  <2>6. Lacks(c, name)
    BY <2>2, <2>4, RemovedIsGone
  <2>7. Takes(buf, n0) = w
    <3>1. Shows(buf, n0, v, m, l, nm, vl)
      BY <1>1, <2>2, Shown
    <3>2. QED BY <3>1, ViewShows
  <2>8. ASSUME NEW r \in Nat, NEW n \in [1 .. r -> Letters], Fold(n) # Fold(name)
        PROVE  View(c, n) = View(buf, n)
    <3>1. \/ Lacks(buf, n) /\ Lacks(c, n)
          \/ \E i, j, m1, l1, nm1, vl1 : Shows(buf, n, i, m1, l1, nm1, vl1) /\ Shows(c, n, j, m1, l1, nm1, vl1)
      <4>1. Fold(n) # Fold(nm)
        BY <2>2, <2>8
      <4>2. QED BY <2>2, <2>4, <4>1, RemovedElse
    <3>2. QED BY <3>1, ViewLacks, ViewShows
  <2> HIDE DEF w
  <2>9. QED BY <2>5, <2>6, <2>7, <2>8 DEF c, n0
<1>4. QED BY <1>2, <1>3, Known

(* "set": the buffer after it, and what it shows.                          *)
SetTo(buf, new, n0, m, l, vl, e, d, rest) ==
  /\ Kept(new, d)
  /\ \A r \in Nat : \A n \in [1 .. r -> Letters] : Fold(n) # Fold(n0) => View(new, n) = View(buf, n)
  /\ rest = e - Takes(buf, n0)
  /\ \/ View(new, n0) = vl /\ d = rest + m + l + 3 /\ d < SH_ENVIRON_SIZE
     \/ View(new, n0) = << >> /\ d = rest /\ ~(rest + m + l + 3 < SH_ENVIRON_SIZE)

LEMMA SetsTo ==
  ASSUME NEW buf, NEW e, Kept(buf, e),
         NEW m \in Nat, NEW name \in [1 .. m -> Letters],
         NEW l \in Nat, l > 0, NEW vl \in [1 .. l -> Letters]
  PROVE  \E d, rest : SetTo(buf, EnvSet(buf, name, vl), Fold(name), m, l, vl, e, d, rest)
<1> DEFINE n0 == Fold(name)
           c == Cleaned(buf, name)
           rest == e - Takes(buf, n0)
           new == EnvSet(buf, name, vl)
<1>1. n0 \in [1 .. m -> Letters] /\ Fold(n0) = Fold(name)
  BY FoldsOnce
<1>2. /\ Kept(c, rest) /\ Lacks(c, name)
      /\ \A r \in Nat : \A n \in [1 .. r -> Letters] : Fold(n) # Fold(name) => View(c, n) = View(buf, n)
  BY CleanedIs
<1>3. new = IF Fits(c, name, vl) THEN Put(c, EnvEnd(c), Entry(name, vl)) ELSE c
  BY DEF EnvSet
<1> HIDE DEF new, c, n0
<1> DEFINE u == rest
<1>4. EnvEnd(c) = u /\ u \in Nat /\ u = e - Takes(buf, n0)
  BY <1>2, EndIs
<1>5. Kept(c, u)
  BY <1>2
<1> HIDE DEF u, rest
<1>6. Fits(c, name, vl) <=> u + m + l + 3 < SH_ENVIRON_SIZE
  <2>1. Len(name) = m /\ Len(vl) = l
    BY FoldLen
  <2>2. QED BY <1>4, <2>1 DEF Fits
<1>7. CASE Fits(c, name, vl)
  <2>1. new = Put(c, u, Entry(name, vl)) /\ u + m + l + 3 < SH_ENVIRON_SIZE
    BY <1>3, <1>4, <1>6, <1>7
  <2>2. Appended(c, new, u, m, l, name, vl)
    BY <1>5, <2>1, PutIs DEF Appended
  <2>3. Kept(new, u + m + l + 3)
    BY <1>2, <2>2, AppendedKept
  <2>4. View(new, n0) = vl
    <3>1. EntryIs(new, u, m, l, name, vl) /\ Fold(name) = Fold(n0)
      BY <1>1, <2>2 DEF Appended
    <3>2. Shows(new, n0, u, m, l, name, vl)
      BY <1>1, <2>3, <3>1, Shown
    <3>3. QED BY <3>2, ViewShows
  <2>5. ASSUME NEW r \in Nat, NEW n \in [1 .. r -> Letters], Fold(n) # Fold(n0)
        PROVE  View(new, n) = View(buf, n)
    <3>1. Fold(n) # Fold(name)
      BY <1>1, <2>5
    <3>2. \/ Lacks(c, n) /\ Lacks(new, n)
          \/ \E i, j, m1, l1, nm1, vl1 : Shows(c, n, i, m1, l1, nm1, vl1) /\ Shows(new, n, j, m1, l1, nm1, vl1)
      BY <1>2, <2>2, <3>1, AppendedElse
    <3>3. View(new, n) = View(c, n)
      BY <3>2, ViewLacks, ViewShows
    <3>4. View(c, n) = View(buf, n)
      BY <1>2, <3>1
    <3>5. QED BY <3>3, <3>4
  <2> DEFINE d == u + m + l + 3
  <2>6. SetTo(buf, new, n0, m, l, vl, e, d, u)
    BY <1>4, <2>1, <2>3, <2>4, <2>5 DEF SetTo
  <2>7. QED BY <2>6 DEF new, n0
<1>8. CASE ~Fits(c, name, vl)
  <2>1. new = c /\ ~(u + m + l + 3 < SH_ENVIRON_SIZE)
    BY <1>3, <1>6, <1>8
  <2>2. View(new, n0) = << >>
    BY <1>1, <1>2, <2>1, SameFold, ViewLacks
  <2>3. ASSUME NEW r \in Nat, NEW n \in [1 .. r -> Letters], Fold(n) # Fold(n0)
        PROVE  View(new, n) = View(buf, n)
    BY <1>1, <1>2, <2>1, <2>3
  <2>4. SetTo(buf, new, n0, m, l, vl, e, u, u)
    BY <1>4, <1>5, <2>1, <2>2, <2>3 DEF SetTo
  <2>5. QED BY <2>4 DEF new, n0
<1>9. QED BY <1>7, <1>8

(* A name and a value on the command line, behind a command.               *)
SetWords(args) ==
  \E m, l \in 1 .. SH_MAX_LINE_LEN - 4 :
    args[2] \in [1 .. m -> Letters \ {SPACE}] /\ args[3] \in [1 .. l -> Letters]

LEMMA SetWordsAre ==
  ASSUME NEW text, NEW n \in Nat, n <= SH_MAX_LINE_LEN, \A i \in 0 .. n - 1 : text[i] \in Letters,
         Len(Tokens(text, n)) >= 3
  PROVE  SetWords(Tokens(text, n))
<1> DEFINE M == SH_MAX_ARGS
           t == [i \in 1 .. n |-> text[i - 1]]
           f == CHOOSE g : g = [k \in 1 .. SH_MAX_ARGS |->
                  Skip(text, n, IF k = 1 THEN 0 ELSE Pass(text, n, g[k - 1]))]
           Stop(k) == IF k = M THEN n ELSE Pass(text, n, f[k])
           Found(k) == [i \in 1 .. Stop(k) - f[k] |-> text[f[k] + i - 1]]
           count == Cardinality({ k \in 1 .. M : f[k] < n })
           args == Tokens(text, n)
<1>1. args = [k \in 1 .. count |-> Found(k)]
  BY DEF Tokens
<1>2. Begins(text, n, f)
  BY Recurses
<1>3. Holds(text, n, t)
  BY DEF Holds
<1> HIDE DEF f, t
<1>4. { k \in 1 .. M : f[k] < n } = 1 .. count
  BY <1>2, <1>3, WordCount
<1>5. count \in Nat
  <2>1. M \in Nat /\ IsFiniteSet(1 .. M)
    BY ShellAssumption, FS_Interval
  <2>2. IsFiniteSet({ k \in 1 .. M : f[k] < n })
    BY <2>1, FS_Subset
  <2>3. QED BY <2>2, FS_CardinalityType
<1> HIDE DEF count
<1>6. count >= 3
  <2> HIDE DEF Found
  <2>1. args \in [1 .. count -> { Found(k) : k \in 1 .. count }]
    BY <1>1
  <2> HIDE DEF args
  <2>2. Len(args) = count
    BY <1>5, <2>1, LenIs
  <2>3. QED BY <2>2 DEF args
<1>7. M \in Nat /\ M >= 3 /\ f[1] < n /\ f[2] < n /\ f[3] < n
  <2>1. 1 \in 1 .. count /\ 2 \in 1 .. count /\ 3 \in 1 .. count
    BY <1>5, <1>6
  <2>2. M \in Nat
    BY ShellAssumption
  <2> HIDE DEF M
  <2>3. QED BY <1>4, <2>1, <2>2
<1> DEFINE a == f[1]
           b == f[2]
           c == f[3]
           p1 == Pass(text, n, a)
           p2 == Pass(text, n, b)
<1>8. /\ a \in 0 .. n /\ b \in 0 .. n /\ c \in 0 .. n /\ a < n /\ b < n /\ c < n
      /\ a = Skip(text, n, 0) /\ b = Skip(text, n, p1) /\ c = Skip(text, n, p2)
  <2>1. 1 \in 1 .. M /\ 2 \in 1 .. M /\ 3 \in 1 .. M
    BY <1>7
  <2>2. f[1] = Skip(text, n, 0)
    BY <1>2, <2>1 DEF Begins
  <2>3. f[2] = Skip(text, n, Pass(text, n, f[2 - 1])) /\ f[3] = Skip(text, n, Pass(text, n, f[3 - 1]))
    BY <1>2, <2>1 DEF Begins
  <2>4. f[1] \in 0 .. n /\ f[2] \in 0 .. n /\ f[3] \in 0 .. n
    BY <1>2, <2>1 DEF Begins
  <2>5. 2 - 1 = 1 /\ 3 - 1 = 2
    OBVIOUS
  <2>6. QED BY <1>7, <2>2, <2>3, <2>4, <2>5
<1>9. /\ Reaches(text, n, 0, a, FALSE) /\ Reaches(text, n, a, p1, TRUE) /\ p1 \in a .. n
  <2>1. 0 \in 0 .. n
    OBVIOUS
  <2>2. QED BY <1>8, <2>1, Looping
<1>10. Reaches(text, n, p1, b, FALSE) /\ Reaches(text, n, b, p2, TRUE) /\ p2 \in b .. n
  <2>1. p1 \in 0 .. n
    BY <1>8, <1>9
  <2>2. QED BY <1>8, <2>1, Looping
<1>11. Reaches(text, n, p2, c, FALSE) /\ p2 \in 0 .. n
  <2>1. p2 \in 0 .. n
    BY <1>8, <1>10
  <2>2. QED BY <1>8, <2>1, Looping
<1>12. Reaches(text, n, c, Pass(text, n, c), TRUE) /\ Pass(text, n, c) \in c .. n
  BY <1>8, Looping
<1> DEFINE p3 == Pass(text, n, c)
           s == Stop(3)
<1>13. args[2] = [i \in 1 .. p2 - b |-> text[b + i - 1]] /\ args[3] = [i \in 1 .. s - c |-> text[c + i - 1]]
  <2>1. 2 \in 1 .. count /\ 3 \in 1 .. count /\ 2 # M
    BY <1>5, <1>6, <1>7
  <2> HIDE DEF count, args
  <2>2. args[2] = Found(2) /\ args[3] = Found(3)
    <3> HIDE DEF Found
    <3>1. QED BY <1>1, <2>1
  <2>3. QED BY <2>1, <2>2
<1>14. s = n \/ s = p3
  OBVIOUS
<1> HIDE DEF a, b, c, p1, p2, p3, s, args
<1>15. /\ a \in Nat /\ b \in Nat /\ c \in Nat /\ p1 \in Nat /\ p2 \in Nat
       /\ text[a] # SPACE /\ text[b] # SPACE /\ text[c] # SPACE
       /\ a <= p1 /\ p1 <= b /\ b <= p2 /\ p2 <= c /\ c < n /\ a < n /\ b < n
       /\ text[p1] = SPACE /\ text[p2] = SPACE
  <2>1. (text[a] = SPACE) = FALSE /\ (text[b] = SPACE) = FALSE /\ (text[c] = SPACE) = FALSE
    BY <1>8, <1>9, <1>10, <1>11 DEF Reaches
  <2>2. b \in p1 .. n /\ c \in p2 .. n
    BY <1>10, <1>11 DEF Reaches
  <2>3. p1 \in a .. n /\ p2 \in b .. n
    BY <1>9, <1>10
  <2>4. p1 # n /\ p2 # n
    BY <1>8, <2>2, <2>3
  <2>5. (text[p1] = SPACE) = TRUE /\ (text[p2] = SPACE) = TRUE
    BY <1>9, <1>10, <2>4 DEF Reaches
  <2>6. QED BY <1>8, <2>1, <2>2, <2>3, <2>5
<1>16. a < p1 /\ p1 < b /\ b < p2 /\ p2 < c
  <2>1. a # p1 /\ p1 # b /\ b # p2 /\ p2 # c
    BY <1>15
  <2>2. QED BY <1>15, <2>1
<1>17. s \in c + 1 .. n
  <2>1. CASE s = n
    BY <1>15, <2>1
  <2>2. CASE s = p3
    <3>1. p3 \in c .. n /\ (p3 = n \/ (text[p3] = SPACE) = TRUE)
      BY <1>12 DEF Reaches, p3
    <3>2. p3 # c
      BY <1>15, <3>1
    <3>3. QED BY <1>15, <2>2, <3>1, <3>2
  <2>3. QED BY <1>14, <2>1, <2>2
<1> DEFINE m == p2 - b
           l == s - c
<1>18. m \in 1 .. SH_MAX_LINE_LEN - 4 /\ l \in 1 .. SH_MAX_LINE_LEN - 4
  <2>1. SH_MAX_LINE_LEN \in Nat
    BY ShellAssumption
  <2>2. QED BY <1>15, <1>16, <1>17, <2>1
<1>19. args[2] \in [1 .. m -> Letters \ {SPACE}]
  <2>1. ASSUME NEW i \in 1 .. m PROVE text[b + i - 1] \in Letters \ {SPACE}
    <3> DEFINE h == b + i - 1
    <3>1. h \in 0 .. n - 1 /\ h \in b .. p2 - 1
      BY <1>15, <1>16
    <3> HIDE DEF h
    <3>2. (text[h] = SPACE) # TRUE
      BY <1>10, <3>1 DEF Reaches
    <3>3. text[h] \in Letters
      BY <3>1
    <3>4. QED BY <3>2, <3>3 DEF h
  <2>2. args[2] = [i \in 1 .. m |-> text[b + i - 1]]
    BY <1>13
  <2> HIDE DEF m
  <2>3. QED BY <2>1, <2>2
<1>20. args[3] \in [1 .. l -> Letters]
  <2>1. ASSUME NEW i \in 1 .. l PROVE text[c + i - 1] \in Letters
    <3> DEFINE h == c + i - 1
    <3>1. h \in 0 .. n - 1
      BY <1>15, <1>17
    <3> HIDE DEF h
    <3>2. text[h] \in Letters
      BY <3>1
    <3>3. QED BY <3>2 DEF h
  <2>2. args[3] = [i \in 1 .. l |-> text[c + i - 1]]
    BY <1>13
  <2> HIDE DEF l
  <2>3. QED BY <2>1, <2>2
<1> HIDE DEF m, l
<1>21. SetWords(args)
  BY <1>18, <1>19, <1>20 DEF SetWords
<1>22. QED BY <1>21 DEF args

(* What runs leaves the environment alone or sets a variable.              *)
EnvSteps ==
  \/ UNCHANGED env_buf
  \/ \E args : SetWords(args) /\ env_buf' = EnvSet(env_buf, args[2], args[3])

LEMMA RunSteps ==
  ASSUME NEW text, NEW n \in Nat, n <= SH_MAX_LINE_LEN, \A i \in 0 .. n - 1 : text[i] \in Letters,
         Run(Tokens(text, n))
  PROVE  EnvSteps
<1> DEFINE args == Tokens(text, n)
<1>1. env_buf' = IF Command(args) = "set" /\ Len(args) >= 3 THEN EnvSet(env_buf, args[2], args[3]) ELSE env_buf
  BY DEF Run
<1>2. CASE Command(args) = "set" /\ Len(args) >= 3
  <2>1. SetWords(args)
    BY <1>2, SetWordsAre
  <2>2. env_buf' = EnvSet(env_buf, args[2], args[3])
    BY <1>1, <1>2
  <2> HIDE DEF args
  <2>3. QED BY <2>1, <2>2 DEF EnvSteps
<1>3. CASE ~(Command(args) = "set" /\ Len(args) >= 3)
  BY <1>1, <1>3 DEF EnvSteps
<1>4. QED BY <1>2, <1>3

LEMMA LinesSet ==
  ASSUME TypeOK, Exec \/ BootCommand
  PROVE  EnvSteps
<1>1. CASE Exec
  <2>1. Run(Tokens(cmd_buf, cmd_len))
    BY <1>1 DEF Exec
  <2>2. cmd_len \in 0 .. SH_MAX_LINE_LEN /\ \A i \in 0 .. cmd_len - 1 : cmd_buf[i] \in Typed
    BY <1>1 DEF Exec, TypeOK
  <2>3. cmd_len \in Nat /\ cmd_len <= SH_MAX_LINE_LEN /\ \A i \in 0 .. cmd_len - 1 : cmd_buf[i] \in Letters
    BY <2>2, ShellAssumption
  <2>4. QED BY <2>1, <2>3, RunSteps
<1>2. CASE BootCommand
  <2> DEFINE end  == LineEnd(ptr)
             line == [i \in 0 .. end - ptr - 1 |-> eeprom[ptr + i + 1]]
             n    == end - ptr
  <2>1. /\ eeprom \in Scripts /\ ptr \in 0 .. Len(eeprom) /\ ptr < Len(eeprom) /\ end <= SH_MAX_LINE_LEN
    BY <1>2 DEF BootCommand, ReadsLine, TypeOK
  <2>2. Run(Tokens(line, n))
    BY <1>2 DEF BootCommand
  <2>3. end \in ptr .. Len(eeprom) - 1 /\ \A j \in ptr .. end - 1 : eeprom[j + 1] \in Letters
    BY <2>1, LineEnds
  <2> HIDE DEF end
  <2>4. n \in Nat /\ n <= SH_MAX_LINE_LEN /\ ptr \in Nat /\ end \in Nat
    <3>1. Len(eeprom) \in Nat /\ SH_MAX_LINE_LEN \in Nat
      BY <2>1, ShellAssumption, ScriptSeq, LenProperties
    <3>2. QED BY <2>1, <2>3, <3>1
  <2>5. ASSUME NEW i \in 0 .. n - 1 PROVE line[i] \in Letters
    <3> DEFINE j == ptr + i
    <3>1. j \in ptr .. end - 1 /\ ptr + i + 1 = j + 1 /\ line[i] = eeprom[ptr + i + 1]
      BY <2>4
    <3> HIDE DEF j, line
    <3>2. eeprom[j + 1] \in Letters
      BY <2>3, <3>1
    <3>3. QED BY <3>1, <3>2
  <2> HIDE DEF line, n
  <2>6. QED BY <2>2, <2>4, <2>5, RunSteps
<1>3. QED BY <1>1, <1>2

EnvHolds == \E e : Kept(env_buf, e)

LEMMA ValIs == val = [n \in Names |-> View(env_buf, n)] /\ used = EnvEnd(env_buf)
BY DEF val, used, View

LEMMA ValThen == val' = [n \in Names |-> View(env_buf', n)] /\ used' = EnvEnd(env_buf')
BY DEF val, used, View

(* The names of the map are folded.                                        *)
LEMMA NameFolds ==
  ASSUME NEW n \in Names
  PROVE  (\E r \in Nat : n \in [1 .. r -> Letters]) /\ Fold(n) = n
<1> DEFINE F == { Lower[x] : x \in Letters \ {SPACE} }
<1>1. PICK r \in 1 .. SH_MAX_LINE_LEN - 4 : n \in [1 .. r -> F]
  BY DEF Names
<1>2. \A y \in F : y \in Letters /\ Lower[y] = y
  BY EnvironAssumption
<1>3. r \in Nat
  BY ShellAssumption
<1> HIDE DEF F
<1>4. n \in [1 .. r -> Letters] /\ \A k \in 1 .. r : Lower[n[k]] = n[k]
  BY <1>1, <1>2
<1>5. Fold(n) = [k \in 1 .. r |-> Lower[n[k]]]
  BY <1>4 DEF Fold
<1>6. Fold(n) = n
  BY <1>4, <1>5
<1>7. QED BY <1>3, <1>4, <1>6

LEMMA FoldsToName ==
  ASSUME NEW m \in 1 .. SH_MAX_LINE_LEN - 4, NEW name \in [1 .. m -> Letters \ {SPACE}]
  PROVE  Fold(name) \in Names
<1> DEFINE F == { Lower[x] : x \in Letters \ {SPACE} }
<1>1. \A k \in 1 .. m : Lower[name[k]] \in F
  OBVIOUS
<1>2. Fold(name) = [k \in 1 .. m |-> Lower[name[k]]]
  BY DEF Fold
<1> HIDE DEF F
<1>3. Fold(name) \in [1 .. m -> F]
  BY <1>1, <1>2
<1>4. QED BY <1>3 DEF Names, F

(* Emptied, the buffer is the empty map.                                   *)
LEMMA EmptyKept ==
  Kept(EnvInit, 0) /\ \A n : View(EnvInit, n) = << >>
<1>1. 0 \in Index /\ Index \subseteq Nat
  BY EnvironAssumption DEF Index
<1>2. \A j \in Index : EnvInit[j] = IF j = 0 THEN END ELSE NUL
  BY DEF EnvInit
<1>3. EnvInit[0] = END
  BY <1>1, <1>2
<1>4. \A j \in Index : (j < 0 => EnvInit[j] # END) /\ (j > 0 => EnvInit[j] = NUL)
  BY <1>1, <1>2
<1>5. \A j \in Index : EnvInit[j] # MARK
  BY <1>2, NoLetters
<1>6. Kept(EnvInit, 0)
  BY <1>1, <1>3, <1>4, <1>5 DEF Kept
<1>7. ASSUME NEW n PROVE View(EnvInit, n) = << >>
  <2>1. EntryOf(EnvInit, n) = {}
    BY <1>5 DEF EntryOf
  <2>2. QED BY <2>1 DEF HasName, View
<1>8. QED BY <1>6, <1>7

LEMMA EmptyMap ==
  ASSUME NEW buf, buf = EnvInit
  PROVE  [n \in Names |-> View(buf, n)] = [n \in Names |-> << >>] /\ EnvEnd(buf) = 0 /\ Kept(buf, 0)
<1>1. Kept(buf, 0) /\ \A n : View(buf, n) = << >>
  BY EmptyKept
<1>2. EnvEnd(buf) = 0
  BY <1>1, EndIs
<1>3. QED BY <1>1, <1>2

(* "set" is a step of the map.                                             *)
LEMMA SetMaps ==
  ASSUME EnvHolds, NEW args, SetWords(args), env_buf' = EnvSet(env_buf, args[2], args[3])
  PROVE  EnvHolds' /\ \E n \in Names : Variables!Set(n) \/ Variables!Refuse(n)
<1>1. PICK e : Kept(env_buf, e)
  BY DEF EnvHolds
<1>2. PICK m, l \in 1 .. SH_MAX_LINE_LEN - 4 :
        args[2] \in [1 .. m -> Letters \ {SPACE}] /\ args[3] \in [1 .. l -> Letters]
  BY DEF SetWords
<1> DEFINE n0 == Fold(args[2])
           vl == args[3]
           new == EnvSet(env_buf, args[2], args[3])
<1>3. n0 \in Names
  BY <1>2, FoldsToName
<1>4. m \in Nat /\ l \in Nat /\ l > 0 /\ args[2] \in [1 .. m -> Letters] /\ vl \in [1 .. l -> Letters]
  <2>1. m \in Nat /\ l \in Nat /\ l > 0
    BY ShellAssumption
  <2>2. QED BY <1>2, <2>1
<1>5. PICK d, rest : SetTo(env_buf, new, n0, m, l, vl, e, d, rest)
  BY <1>1, <1>4, SetsTo
<1>6. Fold(n0) = n0 /\ Len(n0) = m
  <2>1. n0 \in [1 .. m -> Letters]
    BY <1>4, FoldsOnce
  <2>2. QED BY <1>3, <1>4, <2>1, NameFolds, LenIs
<1>7. Len(vl) = l /\ vl # << >> /\ vl \in Values
  <2>1. Len(vl) = l
    BY <1>4, LenIs
  <2>2. vl # << >>
    <3>1. 1 \in DOMAIN vl
      BY <1>4
    <3>2. QED BY <3>1
  <2>3. vl \in Values
    BY <1>2 DEF Values
  <2>4. QED BY <2>1, <2>2, <2>3
<1> HIDE DEF n0, vl, new
<1>8. Kept(new, d) /\ env_buf' = new
  BY <1>5 DEF SetTo, new
<1>9. EnvHolds'
  BY <1>8 DEF EnvHolds
<1>10. /\ val = [n \in Names |-> View(env_buf, n)] /\ val' = [n \in Names |-> View(new, n)]
       /\ used = e /\ used' = d /\ e \in Nat /\ d \in Nat
  BY <1>1, <1>8, EndIs, ValIs, ValThen
<1>11. \A n \in Names : n # n0 => View(new, n) = View(env_buf, n)
  <2> SUFFICES ASSUME NEW n \in Names, n # n0 PROVE View(new, n) = View(env_buf, n)
    OBVIOUS
  <2>1. PICK r \in Nat : n \in [1 .. r -> Letters]
    BY NameFolds
  <2>2. Fold(n) # Fold(n0)
    BY <1>6, NameFolds
  <2>3. QED BY <1>5, <2>1, <2>2 DEF SetTo
<1>12. rest = Variables!Others(n0)
  <2>1. val[n0] = View(env_buf, n0)
    BY <1>3, <1>10
  <2>2. Variables!Cost(n0, val[n0]) = Takes(env_buf, n0)
    BY <2>1 DEF Variables!Cost, Takes
  <2>3. rest = e - Takes(env_buf, n0)
    BY <1>5 DEF SetTo
  <2>4. QED BY <1>10, <2>2, <2>3 DEF Variables!Others
<1>13. Variables!Cost(n0, vl) = m + l + 3
  BY <1>4, <1>6, <1>7 DEF Variables!Cost
<1>14. rest \in Int
  <2>1. Takes(env_buf, n0) \in Nat
    <3>1. Lacks(env_buf, n0) \/ \E i, m1, l1, nm1, vl1 : Shows(env_buf, n0, i, m1, l1, nm1, vl1)
      <4>1. PICK r \in Nat : n0 \in [1 .. r -> Letters]
        BY <1>3, NameFolds
      <4>2. QED BY <1>1, <4>1, Known
    <3>2. CASE Lacks(env_buf, n0)
      BY <3>2, ViewLacks
    <3>3. CASE \E i, m1, l1, nm1, vl1 : Shows(env_buf, n0, i, m1, l1, nm1, vl1)
      <4>1. PICK i, m1, l1, nm1, vl1 : Shows(env_buf, n0, i, m1, l1, nm1, vl1)
        BY <3>3
      <4>2. m1 \in Nat /\ l1 \in Nat
        BY <4>1 DEF Shows, EntryIs
      <4>3. Takes(env_buf, n0) = m1 + l1 + 3
        BY <4>1, ViewShows
      <4>4. QED BY <4>2, <4>3
    <3>4. QED BY <3>1, <3>2, <3>3
  <2>2. rest = e - Takes(env_buf, n0)
    BY <1>5 DEF SetTo
  <2>3. QED BY <1>10, <2>1, <2>2
<1>15. CASE View(new, n0) = vl /\ d = rest + m + l + 3 /\ d < SH_ENVIRON_SIZE
  <2>1. val' = [val EXCEPT ![n0] = vl] /\ val'[n0] = vl
    BY <1>3, <1>10, <1>11, <1>15
  <2>2. used' = rest + Variables!Cost(n0, vl) /\ used' <= SH_ENVIRON_SIZE - 1
    BY <1>4, <1>10, <1>13, <1>14, <1>15, EnvironAssumption
  <2>3. Variables!Set(n0)
    BY <1>7, <1>12, <2>1, <2>2 DEF Variables!Set
  <2>4. QED BY <1>3, <1>9, <2>3
<1>16. CASE View(new, n0) = << >> /\ d = rest /\ ~(rest + m + l + 3 < SH_ENVIRON_SIZE)
  <2>1. val' = [val EXCEPT ![n0] = << >>]
    BY <1>3, <1>10, <1>11, <1>16
  <2>2. used' = rest /\ used' + Variables!Cost(n0, vl) > SH_ENVIRON_SIZE - 1
    BY <1>4, <1>10, <1>13, <1>14, <1>16, EnvironAssumption
  <2>3. Variables!Refuse(n0)
    BY <1>7, <1>12, <2>1, <2>2 DEF Variables!Refuse
  <2>4. QED BY <1>3, <1>9, <2>3
<1>17. QED BY <1>5, <1>15, <1>16 DEF SetTo

LEMMA StepMaps ==
  ASSUME TypeOK, EnvHolds, [Next]_vars
  PROVE  EnvHolds' /\ [Variables!Next]_<< val, used >>
<1>1. CASE UNCHANGED env_buf
  BY <1>1 DEF EnvHolds, val, used
<1>2. CASE Leave
  <2>1. env_buf' = EnvInit
    BY <1>2 DEF Leave
  <2>2. val' = [n \in Names |-> << >>] /\ used' = 0 /\ Kept(env_buf', 0)
    BY <2>1, EmptyMap, ValThen
  <2>3. Variables!Clear
    BY <2>2 DEF Variables!Clear
  <2>4. QED BY <2>2, <2>3 DEF Variables!Next, EnvHolds
<1>3. CASE EnvSteps
  <2>1. CASE UNCHANGED env_buf
    BY <1>1, <2>1
  <2>2. CASE \E args : SetWords(args) /\ env_buf' = EnvSet(env_buf, args[2], args[3])
    BY <2>2, SetMaps DEF Variables!Next
  <2>3. QED BY <1>3, <2>1, <2>2 DEF EnvSteps
<1>4. CASE \E c \in Keys : Key(c)
  BY <1>1, <1>4 DEF Key
<1>5. CASE Prompt \/ BootEnd \/ UNCHANGED vars
  BY <1>1, <1>5 DEF Prompt, BootEnd, vars
<1>6. CASE Exec \/ BootCommand
  BY <1>3, <1>6, LinesSet
<1>7. QED BY <1>2, <1>4, <1>5, <1>6 DEF Next

(* For every size of the environment, every alphabet and every tolower:    *)
(* the bytes of the buffer are a map from names, whatever the case they    *)
(* are written in, to values; "set" changes one name, and drops its old    *)
(* value exactly when the new one does not fit.                            *)
THEOREM SetsVariables == Spec => KeepsVariables
<1>1. Init => TypeOK /\ EnvHolds /\ Variables!Init
  <2> SUFFICES ASSUME Init PROVE TypeOK /\ EnvHolds /\ Variables!Init
    OBVIOUS
  <2>1. env_buf = EnvInit
    BY DEF Init
  <2>2. val = [n \in Names |-> << >>] /\ used = 0 /\ Kept(env_buf, 0)
    BY <2>1, EmptyMap, ValIs
  <2>3. QED BY <2>2, InitType DEF EnvHolds, Variables!Init
<1>2. TypeOK /\ EnvHolds /\ [Next]_vars => (TypeOK /\ EnvHolds)' /\ [Variables!Next]_<< val, used >>
  BY NextType, StepMaps
<1>3. QED BY <1>1, <1>2, PTL DEF Spec, KeepsVariables, Variables!MapSpec
=============================================================================
