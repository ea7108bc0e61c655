-------------------------------- MODULE Retry --------------------------------
(***************************************************************************)
(* The onBOARD client's retry policy: exponential backoff with full jitter *)
(* and a cap.  The ceiling is computed in floating point, which rounds and *)
(* does not wrap, and drawn from as an integer of Half's width, which      *)
(* wraps and does not round.                                               *)
(***************************************************************************)
EXTENDS Money, FiniteSetsExt

CONSTANT Exact   \* 2^53: a float64 holds every integer up to it

ASSUME ExactAssumption ==
    /\ Exact \in Nat \ {0}
    /\ \E k \in 0..Half : Half = Exact * 2 ^ k

\* The distance of two neighbouring floats where the integer x lies: the least
\* power of two that leaves no more than Exact multiples up to x.
Spacing(x) == Min({u \in {2 ^ k : k \in 0..Half} : x <= Exact * u})

\* float64(x): the nearest multiple of the spacing, the even one of two.
Rounded(x) ==
    LET u == Spacing(x)
        q == x \div u
        r == x % u
    IN  IF 2 * r < u \/ (2 * r = u /\ q % 2 = 0) THEN q * u ELSE (q + 1) * u
Float(x) == IF x < 0 THEN -Rounded(-x) ELSE Rounded(x)

\* Mutant of Ceiling: the power is taken in the integer type.
CeilingWrapped(base, cap, attempt) ==
    LET exp == Float(Wrap(base * 2 ^ (IF attempt < 1 THEN 0 ELSE attempt - 1)))
    IN  IF exp < Float(cap) THEN exp ELSE Float(cap)

\* math.Min(base * 2^(attempt-1), cap) on floats; an attempt below 1 counts as 1.
\* A float times a power of two is exact.
Ceiling(base, cap, attempt) ==
    LET exp == Float(base) * 2 ^ (IF attempt < 1 THEN 0 ELSE attempt - 1)
    IN  IF exp < Float(cap) THEN exp ELSE Float(cap)

\* The outcomes of Backoff.  A cap so near the greatest integer that it is rounded
\* up to Half has no integer to be converted back to: which it gets is the
\* platform's choice, the least, which is no ceiling, or the greatest, whose
\* wrapped successor Int63n refuses.  What lies below the least integer, and the NaN
\* of a zero base doubled beyond every float, become no ceiling either.
Backoff(base, cap, attempt) ==
    LET ceiling == Ceiling(base, cap, attempt)
    IN  IF ceiling = Half THEN {[wait |-> 0], Failed("panic")}
        ELSE IF ceiling <= 0 THEN {[wait |-> 0]}
        ELSE {[wait |-> d] : d \in 0..ceiling}
=============================================================================
