------------------------------- MODULE Rounding -------------------------------
(***************************************************************************)
(* The two uses the scorers make of Python's round().                      *)
(***************************************************************************)
EXTENDS Integers

\* round(a / b * 100).  Away from the middle between two integers the error of
\* the floating point product is too small to matter; in the middle, round()
\* takes the even neighbour, but the product may be a little less or more (23 of
\* 40 is 57, though 57.5 would round to 58): either neighbour is possible.
Percents(a, b) ==
    LET low == (100 * a) \div b
        rest == (100 * a) % b
    IN  IF 2 * rest < b THEN {low} ELSE IF 2 * rest > b THEN {low + 1} ELSE {low, low + 1}

\* round(n / 100), whose middles are exact in floating point: to the even side.
HalfEven(n) ==
    LET low == n \div 100
        rest == n % 100
    IN  IF rest < 50 \/ (rest = 50 /\ low % 2 = 0) THEN low ELSE low + 1
=============================================================================
