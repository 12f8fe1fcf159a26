---------------------------- MODULE LineEditor ----------------------------
(***************************************************************************)
(* What the command line promises its user: a text with a cursor in it,    *)
(* edited around the cursor, whose words are run when it is entered.       *)
(***************************************************************************)
EXTENDS Ranks, SequencesExt

CONSTANTS
  Char,        (* what can be typed into a line, the space among them       *)
  Space,
  Room,        (* characters of a line                                      *)
  MaxWords,    (* words of a line; the last of them takes all that is left  *)
  Scripts      (* the lines that run without being typed                    *)

VARIABLES left, right, ran

Starts(t) == { i \in DOMAIN t : t[i] # Space /\ (i = 1 \/ t[i - 1] = Space) }

(* The words of a text.                                                    *)
Words(t) ==
  LET starts == Starts(t)
      End(i) == CHOOSE j \in i .. Len(t) :
                  /\ j = Len(t) \/ t[j + 1] = Space
                  /\ \A h \in i .. j : t[h] # Space
  IN  [k \in { k \in 1 .. MaxWords : k <= Cardinality(starts) } |->
        SubSeq(t, Nth(starts, k), IF k = MaxWords THEN Len(t) ELSE End(Nth(starts, k)))]

Init == left = << >> /\ right = << >> /\ ran = << >>

Type ==
  /\ Len(left) + Len(right) < Room
  /\ \E c \in Char : left' = Append(left, c)
  /\ UNCHANGED << right, ran >>

Back    == left # << >> /\ left' = Front(left) /\ right' = << Last(left) >> \o right /\ UNCHANGED ran
Forward == right # << >> /\ left' = Append(left, Head(right)) /\ right' = Tail(right) /\ UNCHANGED ran

EraseBefore == left # << >> /\ left' = Front(left) /\ UNCHANGED << right, ran >>
EraseUnder  == right # << >> /\ right' = Tail(right) /\ UNCHANGED << left, ran >>

Enter == left' = << >> /\ right' = << >> /\ ran' = Words(left \o right)

NextLine == ran' = << >> /\ UNCHANGED << left, right >>

RunScript == (\E l \in Scripts : ran' = Words(l)) /\ UNCHANGED << left, right >>

Next == Type \/ Back \/ Forward \/ EraseBefore \/ EraseUnder \/ Enter \/ NextLine \/ RunScript

LineSpec == Init /\ [][Next]_<< left, right, ran >>
=============================================================================
