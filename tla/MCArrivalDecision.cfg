SPECIFICATION ArrivalSpec
CONSTANTS
  None = None  DefaultName = DefaultName
  Character <- Characters
  LowerCase <- Capitals
  Host <- Hosts
  Method <- Methods
  Path <- Paths
  RuleSet <- RuleSets
  Default <- DefaultRules
  HostPattern <- HostPatterns
  MaxTime = 2
INVARIANTS FirstMatchingRule TargetASecond
PROPERTY NameIsAllowed
