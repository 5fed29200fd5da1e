\* One call with up to four attempts beside a goroutine that keeps calling.
CONSTANTS
  Me = me
  Others = {other}
  Policies <- SomePolicies
  MaxDuration = 63
  Exact = 16
  Units = {1, 2, 4, 8, 16, 32}
  Threshold = 2
  Cooldown = 1
  MaxFallbacks = 2
SPECIFICATION FairSpec
INVARIANTS
  TypeOK
  AnswerExplained
  BackoffIsGeometric
PROPERTIES
  AtMostOnce
  CallEnds
