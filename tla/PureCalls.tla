------------------------------ MODULE PureCalls ------------------------------
(***************************************************************************)
(* Callers of the money package, of EstimateCost and of the retry policy:  *)
(* one call at a time, over every argument an integer of the modelled      *)
(* widths can take.  The overflow tests of Money work on wrapped results;  *)
(* here their verdicts are compared with exact integer arithmetic.         *)
(***************************************************************************)
EXTENDS Retry

CONSTANTS
    Half32,      \* 2^(w-1) for the narrower integer that stands for int32
    Currencies,  \* ISO codes an amount may carry
    MaxAttempt   \* bound on the attempts of the retry policy

ASSUME PricingAssumption ==
    /\ Half32 \in 1..Half
    /\ USD \in Currencies
    /\ MaxAttempt \in Nat

VARIABLES call, result

Amounts == [minor : Int64, currency : Currencies]
Int32 == -Half32 .. Half32 - 1

Idle == [op |-> "none"]
NoResult == Failed("none")

Init == call = Idle /\ result = NoResult

CallAdd ==
    /\ call = Idle
    /\ \E m, other \in Amounts : call' = [op |-> "add", m |-> m, other |-> other]
    /\ UNCHANGED result

CallMul ==
    /\ call = Idle
    /\ \E m \in Amounts, f \in Int64 : call' = [op |-> "mul", m |-> m, factor |-> f]
    /\ UNCHANGED result

\* The service prices int32 distances at its configured rate, in USD.
CallEstimate ==
    /\ call = Idle
    /\ \E d \in Int32, f, r \in Int64 :
          call' = [op |-> "estimate", distanceNm |-> d, fees |-> f, rate |-> r]
    /\ UNCHANGED result

\* Attempts count from 1; the syncer passes 0 before the first failure.
CallBackoff ==
    /\ call = Idle
    /\ \E b, c \in -1..Half - 1, a \in 0..MaxAttempt :
          call' = [op |-> "backoff", base |-> b, cap |-> c, attempt |-> a]
    /\ UNCHANGED result

\* What each call may return.
Answers ==
    CASE call.op = "add"      -> {Add(call.m, call.other)}
      [] call.op = "mul"      -> {Mul(call.m, call.factor)}
      [] call.op = "estimate" ->
            {EstimateCost(call.distanceNm, FromUSD(call.fees), FromUSD(call.rate))}
      [] call.op = "backoff"  -> Backoff(call.base, call.cap, call.attempt)

Return ==
    /\ call # Idle /\ result = NoResult
    /\ result' \in Answers
    /\ UNCHANGED call

Done ==
    /\ result # NoResult
    /\ call' = Idle /\ result' = NoResult

Next == CallAdd \/ CallMul \/ CallEstimate \/ CallBackoff \/ Return \/ Done

Spec == Init /\ [][Next]_<<call, result>>
-----------------------------------------------------------------------------
Returned(op) == call.op = op /\ result # NoResult

\* The outcome an exact integer calls for: itself if it fits, else an overflow.
Exactly(x, currency) ==
    IF x \in Int64 THEN Ok([minor |-> x, currency |-> currency])
    ELSE Failed("ErrOverflow")

\* Add returns the exact sum, or ErrOverflow exactly when the sum leaves int64,
\* in either direction, although it sees only the wrapped sum.
AddExact ==
    Returned("add") =>
        result = IF call.m.currency # call.other.currency
                 THEN Failed("ErrCurrencyMismatch")
                 ELSE Exactly(call.m.minor + call.other.minor, call.m.currency)

\* EstimateCost returns the exact price, or the sentinel of the first thing wrong
\* with its inputs: the base is checked before the fees, so fees that would bring
\* an overflowing base back into range do not hide the overflow.
EstimateExact ==
    Returned("estimate") =>
        LET base == call.rate * call.distanceNm
        IN  result = IF call.distanceNm < 0 THEN Failed("ErrNegativeDistance")
                     ELSE IF call.rate <= 0 THEN Failed("ErrNonPositiveRate")
                     ELSE IF base \notin Int64 THEN Failed("ErrOverflow")
                     ELSE Exactly(base + call.fees, USD)

\* Dividing the wrapped product back is a sound overflow test for every amount and
\* factor, negative ones included, but for MinInt64 * -1.
MulExactButOne ==
    Returned("mul") /\ ~(call.m.minor = -Half /\ call.factor = -1) =>
        result = Exactly(call.m.minor * call.factor, call.m.currency)

\* Money's arithmetic is exact or says that it is not, in both operations, although
\* each judges a result that may have wrapped.
MoneyExact == AddExact /\ MulExactButOne

\* How far a wait may leave the cap: half the greatest spacing (512 nanoseconds).
Slack == (Half \div Exact) \div 2

\* "a full-jitter draw from [0, min(base * 2^(attempt-1), cap)]" (retry.go): Backoff
\* waits no longer than a cap that a float holds exactly, and at most half a spacing
\* longer than a greater one; with a cap more than that below Half it never panics,
\* and it never loses a wait it could draw one attempt earlier, however often the
\* base is doubled past what the integer holds.
BackoffGrows ==
    Returned("backoff") /\ call.cap < Half - Slack =>
        /\ result # Failed("panic")
        /\ result.wait \in 0..(IF call.cap < 0 THEN 0
                               ELSE IF call.cap <= Exact THEN call.cap
                               ELSE call.cap + Slack)
        /\ call.base >= 0 =>
              result \in Backoff(call.base, call.cap, call.attempt + 1)
=============================================================================
