SPECIFICATION Spec
CONSTANTS
  Half = 16
  Exact = 4
  Half32 = 8
  Currencies = {"USD", "EUR"}
  MaxAttempt = 7
INVARIANTS
  MoneyExact
  EstimateExact
  BackoffGrows
