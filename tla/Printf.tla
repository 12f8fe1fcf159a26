------------------------------- MODULE Printf -------------------------------
(***************************************************************************)
(* Formatted output (lib/mprintf.c): vprintf to the console, and the       *)
(* second copy of its loop in sprintf, which knows neither width nor sign. *)
(* A format is taken as a sequence of items; the code finds them as it     *)
(* goes.  Characters are strings of length one.                            *)
(***************************************************************************)
EXTENDS Integers, Sequences, SequencesExt

CONSTANT IntBits   (* of an unsigned int: 32 *)

UInt == 0 .. 2 ^ IntBits - 1
SignBit == 2 ^ (IntBits - 1)

(* A plain character, and a directive: '%', a '0', a width of one digit and *)
(* a letter.  One the code does not know, %l or %%, is a plain character.  *)
Char(c) == [conv |-> "plain", ch |-> c, zero |-> FALSE, width |-> 0]
Directive(conv, zero, width) == [conv |-> conv, ch |-> "%", zero |-> zero, width |-> width]

Numeric == {"d", "u", "x"}
Base(item) == IF item.conv = "x" THEN 16 ELSE 10

DigitChars == << "0", "1", "2", "3", "4", "5", "6", "7", "8", "9", "a", "b", "c", "d", "e", "f" >>

(* As in module Minic, <Operator>_<Fault> names a seeded fault.            *)
Digits_ZeroIsEmpty(value, base) ==
  LET of[v \in 0 .. value] ==
        IF v = 0 THEN << >> ELSE Append(of[v \div base], DigitChars[(v % base) + 1])
  IN  of[value]

(* The conversion loop, which runs at least once.                          *)
Digits(value, base) ==
  LET of[v \in 0 .. value] ==
        (IF v < base THEN << >> ELSE of[v \div base]) \o << DigitChars[(v % base) + 1] >>
  IN  of[value]

Filled(digits, item) ==
  [i \in 1 .. (IF item.width > Len(digits) THEN item.width - Len(digits) ELSE 0) |->
     IF item.zero THEN "0" ELSE " "] \o digits

(* The sign goes out before the number is filled up.                       *)
Number(item, value) ==
  IF item.conv = "d" /\ value >= SignBit
    THEN << "-" >> \o Filled(Digits(2 ^ IntBits - value, 10), item)
    ELSE Filled(Digits(value, Base(item)), item)

(* uart_write_byte: a carriage return goes before a line feed.             *)
uart_write_byte(console, c) == console \o IF c = "\n" THEN << "\r", c >> ELSE << c >>

WriteAll(console, text) == FoldLeft(uart_write_byte, console, text)

(* What an item takes off the list of arguments: a character, a text or an *)
(* unsigned int.                                                           *)
TakesArg(item) == item.conv \in Numeric \cup {"c", "s"}

Expanded(item, args, Num(_, _)) ==
  CASE item.conv = "plain"    -> << item.ch >>
    [] item.conv = "c"        -> << Head(args) >>
    [] item.conv = "s"        -> Head(args)
    [] item.conv \in Numeric  -> Num(item, Head(args))

vprintf(console, format, args) ==
  FoldLeft(LAMBDA acc, item :
             [console |-> WriteAll(acc.console, Expanded(item, acc.args, Number)),
              args    |-> IF TakesArg(item) THEN Tail(acc.args) ELSE acc.args],
           [console |-> console, args |-> args], format).console

sprintf(format, args) ==
  FoldLeft(LAMBDA acc, item :
             [text |-> acc.text \o Expanded(item, acc.args, LAMBDA it, value : Digits(value, Base(it))),
              args |-> IF TakesArg(item) THEN Tail(acc.args) ELSE acc.args],
           [text |-> << >>, args |-> args], format).text

(* mprintf: the text on the console, with what was asked for; before the   *)
(* next, it is forgotten.                                                  *)
VARIABLE printed

NoText == [format |-> << >>, args |-> << >>, console |-> << >>]

Mprintf(call) ==
  printed' = [call EXCEPT !.console = vprintf(<< >>, call.format, call.args)]

PrintInit == printed = NoText

-----------------------------------------------------------------------------
(* Reading the text again.                                                 *)
FieldsOf(text, separators) ==
  FoldLeft(LAMBDA acc, c : IF c \in separators THEN Append(acc, << >>)
                           ELSE Append(Front(acc), Append(Last(acc), c)),
           << << >> >>, text)

ValueOf(digits, base) ==
  FoldLeft(LAMBDA sum, c : sum * base + SelectInSeq(DigitChars, LAMBDA d : d = c) - 1, 0, digits)

(* Nothing but zeros, or blanks, fills a number up, to its width.          *)
IsNumber(text, item, value) ==
  LET digits == SelectSeq(text, LAMBDA c : c # " ")
      first  == Len(text) - Len(digits) + 1
  IN
  /\ ToSet(digits) \subseteq ToSet(SubSeq(DigitChars, 1, Base(item))) /\ digits # << >>
  /\ digits = SubSeq(text, first, Len(text)) /\ ValueOf(digits, Base(item)) = value
  /\ Len(text) >= item.width
  /\ item.zero => first = 1
  /\ text[first] = "0" /\ Len(digits) > 1 => item.zero /\ Len(text) = item.width
  /\ first > 1 => Len(text) = item.width

Reads(text, item, arg) ==
  CASE item.conv = "s"                     -> text = arg
    [] item.conv = "c"                     -> text = << arg >>
    [] item.conv = "d" /\ arg >= SignBit   -> Head(text) = "-" /\ IsNumber(Tail(text), item, 2 ^ IntBits - arg)
    [] OTHER                               -> IsNumber(text, item, arg)

(* A line of directives between colons reads back: each number with its    *)
(* sign, in at least its width, each text as it was, every argument once   *)
(* and in its place, and the line ended as a terminal needs it.            *)
PrintsBack ==
  LET items  == SelectSeq(printed.format, TakesArg)
      fields == FieldsOf(printed.console, {":", "\r"})
  IN
  printed.format # << >> =>
    /\ Len(fields) = Len(items) + 1 /\ Last(fields) = << "\n" >>
    /\ \A k \in DOMAIN items : Reads(fields[k], items[k], printed.args[k])
=============================================================================
