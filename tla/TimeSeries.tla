---------------------------- MODULE TimeSeries -----------------------------
(***************************************************************************)
(* The NaN-aware time-series algebra the recording rules are written in    *)
(* (package timeseries of the repository; it is not among the sources, so *)
(* these operators follow the spec, section 4.A).                          *)
(*                                                                         *)
(* A series is a function 1..N -> values, values being integers (the      *)
(* float32 samples, with rounding left out) or the model value NaN ("no   *)
(* sample").  Div produces reduced fractions <<num, den>> so that means   *)
(* can be compared exactly.                                                *)
(***************************************************************************)
EXTENDS Integers, Functions

CONSTANTS NaN, N

Points == 1..N

\* NanSum: NaN op NaN = NaN; NaN op x = x; x op y = x + y.
NanSum(x, y) ==
    CASE x = NaN -> y
      [] y = NaN -> x
      [] OTHER   -> x + y

\* IsEmpty: every point is NaN.
IsEmpty(ts) == \A t \in Points : ts[t] = NaN

\* Reduce(NanSum, ts): the NanSum of all points; NaN iff every point is NaN.
Reduce(ts) == FoldFunction(NanSum, NaN, ts)

\* Aggregate(NanSum) after Add-ing the series s[i] for i \in S: pointwise
\* NanSum (associative and commutative on integers, so Add order is moot).
AggregateOf(s, S) ==
    [t \in Points |-> FoldFunctionOnSet(NanSum, NaN, [i \in S |-> s[i][t]], S)]

\* Map(Defined): 1 where the sample is defined, NaN where it is not.
Defined(v) == IF v = NaN THEN NaN ELSE 1
MapDefined(ts) == [t \in Points |-> Defined(ts[t])]

\* Div(num, den): NaN where either side is NaN or den = 0, else num / den.
RECURSIVE GCD(_, _)
GCD(a, b) == IF b = 0 THEN a ELSE GCD(b, a % b)
Fraction(a, b) ==
    LET g == GCD(IF a < 0 THEN -a ELSE a, b) IN <<a \div g, b \div g>>
Div(num, den) ==
    [t \in Points |->
        IF num[t] = NaN \/ den[t] = NaN \/ den[t] = 0 THEN NaN
        ELSE Fraction(num[t], den[t])]

=============================================================================
