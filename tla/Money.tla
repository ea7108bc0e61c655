------------------------------- MODULE Money -------------------------------
(***************************************************************************)
(* The money value type (internal/money/money.go) and the estimator's      *)
(* pricing function (services/estimator/domain/estimate.go).  Integers are *)
(* two's-complement: Half stands for 2^63, so int64 is -Half .. Half-1,    *)
(* and every sum and product wraps.  An operation that fails returns its   *)
(* sentinel in "err"; on success "err" is "nil" and "money" is the value.  *)
(***************************************************************************)
EXTENDS Integers

CONSTANT Half   \* 2^(w-1) for the w-bit integer that stands for int64

ASSUME HalfAssumption == Half \in Nat \ {0}

USD == "USD"

Int64 == -Half .. Half - 1

\* Go's signed arithmetic: the result modulo 2^w.
Wrap(x) == ((x + Half) % (2 * Half)) - Half

\* Go's x / y: truncates toward zero; MinInt64 / -1 wraps back to MinInt64.
Magnitude(x) == IF x < 0 THEN -x ELSE x
Quotient(x, y) ==
    LET q == Magnitude(x) \div Magnitude(y)
    IN  Wrap(IF (x < 0) = (y < 0) THEN q ELSE -q)

FromUSD(minor) == [minor |-> minor, currency |-> USD]

Ok(m) == [err |-> "nil", money |-> m]
Failed(e) == [err |-> e, money |-> FromUSD(0)]
-----------------------------------------------------------------------------
\* Mutant of Add: the underflow half of the overflow test is forgotten.
AddNoUnderflowTest(m, other) ==
    LET sum == Wrap(m.minor + other.minor)
    IN  IF m.currency # other.currency THEN Failed("ErrCurrencyMismatch")
        ELSE IF other.minor > 0 /\ sum < m.minor THEN Failed("ErrOverflow")
        ELSE Ok([minor |-> sum, currency |-> m.currency])

\* Money.Add: overflow is detected after the fact, from the wrapped sum.
Add(m, other) ==
    LET sum == Wrap(m.minor + other.minor)
        overflow == \/ other.minor > 0 /\ sum < m.minor
                    \/ other.minor < 0 /\ sum > m.minor
    IN  IF m.currency # other.currency THEN Failed("ErrCurrencyMismatch")
        ELSE IF overflow THEN Failed("ErrOverflow")
        ELSE Ok([minor |-> sum, currency |-> m.currency])

\* Money.Mul: overflow is detected by dividing the wrapped product back.
Mul(m, factor) ==
    LET product == Wrap(m.minor * factor)
    IN  IF m.minor = 0 \/ factor = 0
        THEN Ok([minor |-> 0, currency |-> m.currency])
        ELSE IF Quotient(product, factor) # m.minor THEN Failed("ErrOverflow")
        ELSE Ok([minor |-> product, currency |-> m.currency])

\* Mutant of EstimateCost: negative distances are priced.
EstimateCostAnyDistance(distanceNm, fees, ratePerNm) ==
    LET base == Mul(ratePerNm, distanceNm)
    IN  IF ratePerNm.minor <= 0 THEN Failed("ErrNonPositiveRate")
        ELSE IF base.err # "nil" THEN base ELSE Add(base.money, fees)

\* EstimateCost: distance * ratePerNm + fees, or the first error met.
EstimateCost(distanceNm, fees, ratePerNm) ==
    LET base == Mul(ratePerNm, distanceNm)
    IN  IF distanceNm < 0 THEN Failed("ErrNegativeDistance")
        ELSE IF ratePerNm.minor <= 0 THEN Failed("ErrNonPositiveRate")
        ELSE IF base.err # "nil" THEN base
        ELSE Add(base.money, fees)
=============================================================================
