SPECIFICATION Spec
CONSTANTS
  OldRule = OldRule
  NewRule = NewRule
  Rule = {OldRule, NewRule}
  CanBorrow = {OldRule, NewRule}
  Published <- Versions
  RuleTTL = 1
  Quota = {0, 1}
  Lease = 1
  Part = {0, 500}
  Epoch = 1000
  MaxTime = 2
  MaxRequests <- Requests
  MaxFetches = 2
  MaxReports = 1
INVARIANTS
  NeverFresherThanItIs
  OneBorrowASecond
  ReportedOnce
PROPERTIES
  NoDecisionByExpiredRules
  NewerRulesAreFetched
  BorrowOnlyWithoutGrant
  TakesWithinPositiveGrant
CHECK_DEADLOCK FALSE
