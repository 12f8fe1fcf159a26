------------------------------ MODULE Environ ------------------------------
(***************************************************************************)
(* The environment of the shell (environ.c): one buffer of bytes in which  *)
(* every entry is a mark, a name and a value, both terminated, and an end  *)
(* mark follows the last one.  Names differ in more than the case of their *)
(* letters.                                                                *)
(***************************************************************************)
EXTENDS Integers, Sequences

CONSTANTS
  SH_ENVIRON_SIZE,
  Letters,     (* the bytes a word on the command line may hold             *)
  Lower        (* tolower                                                   *)

MARK == "0xaa"
END  == "0xff"
NUL  == "0x00"

Byte == Letters \cup {MARK, END, NUL}

ASSUME EnvironAssumption ==
  /\ SH_ENVIRON_SIZE \in Nat \ {0}
  /\ Letters \cap {MARK, END, NUL} = {}
  /\ Lower \in [Letters -> Letters] /\ \A l \in Letters : Lower[Lower[l]] = Lower[l]

Index == 0 .. SH_ENVIRON_SIZE - 1

VARIABLE env_buf

(* The next place of one of these bytes.                                   *)
NextAt(buf, bytes, i) ==
  CHOOSE j \in i .. SH_ENVIRON_SIZE - 1 : buf[j] \in bytes /\ \A h \in i .. j - 1 : buf[h] \notin bytes

(* The C string that starts at i.                                          *)
StringAt(buf, i) == [k \in 1 .. NextAt(buf, {NUL}, i) - i |-> buf[i + k - 1]]

Fold(word) == [i \in DOMAIN word |-> Lower[word[i]]]

EnvInit == [i \in Index |-> IF i = 0 THEN END ELSE NUL]

EnvEnd(buf) == NextAt(buf, {END}, 0)

(* _env_get: where the entry of a name starts; no place if there is none.  *)
EntryOf(buf, name) ==
  { i \in Index : buf[i] = MARK /\ Fold(StringAt(buf, i + 1)) = Fold(name) }

HasName(buf, name) == EntryOf(buf, name) # {}

EntryAt(buf, name) ==
  LET entries == EntryOf(buf, name) IN CHOOSE i \in entries : \A j \in entries : i <= j

EnvGet(buf, name) == StringAt(buf, EntryAt(buf, name) + 2 + Len(name))

Removed_ToTheEnd(buf, v) ==
  LET p == NextAt(buf, {END}, v + 1)
  IN  [i \in Index |-> IF v <= i /\ i - v + p \in Index THEN buf[i - v + p]
                        ELSE IF i < v THEN buf[i] ELSE NUL]

(* Everything from the next mark on moves over the entry at v.  What it    *)
(* leaves behind the end mark is never read, and forgotten.                *)
Removed(buf, v) ==
  LET p == NextAt(buf, {MARK, END}, v + 1)
  IN  [i \in Index |-> IF v <= i /\ i - v + p \in Index THEN buf[i - v + p]
                        ELSE IF i < v THEN buf[i] ELSE NUL]

Entry(name, value) == << MARK >> \o name \o << NUL >> \o value \o << NUL, END >>

Put(buf, at, bytes) ==
  [i \in Index |-> IF i - at + 1 \in DOMAIN bytes THEN bytes[i - at + 1] ELSE buf[i]]

(* An old value goes before the room for the new one is known.             *)
Cleaned(buf, name) ==
  IF HasName(buf, name) THEN Removed(buf, EntryAt(buf, name)) ELSE buf

Fits(buf, name, value) == EnvEnd(buf) + Len(name) + Len(value) + 3 < SH_ENVIRON_SIZE

EnvSet(buf, name, value) ==
  LET cleaned == Cleaned(buf, name) IN
  IF Fits(cleaned, name, value)
    THEN Put(cleaned, EnvEnd(cleaned), Entry(name, value))
    ELSE cleaned
=============================================================================
