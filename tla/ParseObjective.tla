--------------------------- MODULE ParseObjective ---------------------------
(***************************************************************************)
(* parseObjective (src/constructor/queries.go, lines 752-756) at the level *)
(* of characters:                                                          *)
(*                                                                         *)
(*   s = strings.TrimSpace(strings.TrimRight(strings.TrimSpace(s), "%"))   *)
(*   v, err := strconv.ParseFloat(s, 32)                                   *)
(*                                                                         *)
(* An annotation value is a sequence over a small alphabet: digits, the   *)
(* decimal point, '%' and a space.  ParseFloat is modelled on that        *)
(* alphabet: a decimal literal (digits with at most one point and at      *)
(* least one digit) parses; anything else is a syntax error, for which    *)
(* the code returns 0.  A value is a reduced decimal <<num, scale>>,      *)
(* standing for num / 10^scale, so "1.0" and "01" parse to the value of   *)
(* "1".  The variable s is the annotation text as the user edits it, one *)
(* character at a time, so every string up to MaxLen is reached.          *)
(***************************************************************************)
EXTENDS Naturals, SequencesExt

CONSTANTS
    Digits,     \* digit characters, a subset of "0".."9"
    MaxLen      \* longest annotation text considered

Space == " "
Percent == "%"
Point == "."
Alphabet == Digits \cup {Point, Percent, Space}
DigitChars == <<"0", "1", "2", "3", "4", "5", "6", "7", "8", "9">>
DigitValue(c) == CHOOSE k \in 0..9 : DigitChars[k + 1] = c

ASSUME Digits \subseteq Range(DigitChars) /\ MaxLen \in Nat

VARIABLE s

\* strings.TrimLeft / strings.TrimRight with a cutset: drop every leading
\* (trailing) character that is in the cutset.
RECURSIVE TrimLeft(_, _)
TrimLeft(t, cut) == IF t # <<>> /\ Head(t) \in cut THEN TrimLeft(Tail(t), cut) ELSE t

RECURSIVE TrimRight(_, _)
TrimRight(t, cut) == IF t # <<>> /\ Last(t) \in cut THEN TrimRight(Front(t), cut) ELSE t

\* strings.TrimSpace.
TrimSpace(t) == TrimRight(TrimLeft(t, {Space}), {Space})

\* The decimal literals strconv.ParseFloat accepts over this alphabet.
IsDecimal(t) ==
    /\ \A i \in DOMAIN t : t[i] \in Digits \cup {Point}
    /\ Len(SelectSeq(t, LAMBDA c : c = Point)) <= 1
    /\ \E i \in DOMAIN t : t[i] \in Digits

\* num / 10^scale with the trailing zeros of the fraction removed.
RECURSIVE Reduced(_, _)
Reduced(num, scale) ==
    IF scale > 0 /\ num % 10 = 0 THEN Reduced(num \div 10, scale - 1) ELSE <<num, scale>>

DecimalValue(t) ==
    LET digits == SelectSeq(t, LAMBDA c : c \in Digits)
        num == FoldLeft(LAMBDA acc, c : 10 * acc + DigitValue(c), 0, digits)
        scale == IF \E i \in DOMAIN t : t[i] = Point
                 THEN Len(t) - (CHOOSE i \in DOMAIN t : t[i] = Point)
                 ELSE 0
    IN Reduced(num, scale)

\* strconv.ParseFloat(s, 32): the value, or 0 and an error.
ParseFloat(t) ==
    IF IsDecimal(t) THEN [err |-> FALSE, v |-> DecimalValue(t)]
                    ELSE [err |-> TRUE, v |-> <<0, 0>>]

\* Mutant: strings.TrimSuffix(s, "%"), which removes at most one '%'.
parseObjectiveTrimSuffix(t) ==
    LET u == TrimSpace(t)
    IN ParseFloat(TrimSpace(IF u # <<>> /\ Last(u) = Percent THEN Front(u) ELSE u))

parseObjective(t) == ParseFloat(TrimSpace(TrimRight(TrimSpace(t), {Percent})))

Init == s = <<>>

\* The user types a character at the end of the annotation value.
Type(c) ==
    /\ Len(s) < MaxLen
    /\ s' = Append(s, c)

\* The user deletes the last character.
Erase ==
    /\ s # <<>>
    /\ s' = Front(s)

Next == (\E c \in Alphabet : Type(c)) \/ Erase

Spec == Init /\ [][Next]_s

(***************************************************************************)
(* Properties.                                                             *)
(***************************************************************************)

\* The texts parseObjective accepts, stated as a grammar rather than as the
\* code's sequence of trims: blanks, a decimal literal, blanks, any number
\* of '%', blanks; the value is the literal's.  Whatever the trims do in
\* between, nothing else parses and nothing of this form is refused.
\* Spec 4.E allows a single trailing '%' and spec 8.5 says appending '%'
\* never changes the result; this form has any number of '%' ("0%%"
\* parses) and no blank between two '%' ("0% " parses, "0% %" does not).
AcceptedForm ==
    LET splits == {<<i, j, k, l>> \in (0..Len(s)) \X (0..Len(s)) \X (0..Len(s)) \X (0..Len(s)) :
                     i <= j /\ j <= k /\ k <= l}
        part(x, y) == SubSeq(s, x + 1, y)
        blank(t) == \A n \in DOMAIN t : t[n] = Space
        percents(t) == \A n \in DOMAIN t : t[n] = Percent
        forms == {x \in splits : /\ blank(part(0, x[1]))
                                 /\ IsDecimal(part(x[1], x[2]))
                                 /\ blank(part(x[2], x[3]))
                                 /\ percents(part(x[3], x[4]))
                                 /\ blank(part(x[4], Len(s)))}
    IN parseObjective(s) =
         IF forms = {} THEN [err |-> TRUE, v |-> <<0, 0>>]
         ELSE [err |-> FALSE, v |-> DecimalValue(part((CHOOSE x \in forms : TRUE)[1],
                                                       (CHOOSE x \in forms : TRUE)[2]))]

=============================================================================
