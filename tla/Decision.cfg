SPECIFICATION Spec
CONSTANTS
  Contained <- MCContained
  Leeway = 1
  NoValue = NoValue
  Plugins <- MCPlugins
  Requests <- MCRequests
  Callers <- MCCallers
  Providers <- MCProviders
  Clocks <- MCClocks
INVARIANTS TypeOK DecisionIsEarned WayForward StrictestRole FactsGenuine
  LessTrustNeverLaxer DowngradeIsFlagged
