SPECIFICATION FairSpec
CONSTANTS
  Nil = Nil
  NoHolder = NoHolder
  m1 = m1
  m2 = m2
  Managers = {m1, m2}
  LeaseDuration = 3
  RenewDeadline = 2
  Paths <- MCPaths
  Shipped <- MCShipped
  WebhookPolicy = "webhook-policy"
  Specs <- MCSpecs
  Overrides <- MCOverrides
  Fips = TRUE
  Address = "10.0.0.1/32"
  MaxEdits = 2
  MaxFailures = 1
INVARIANTS LeadersOverlapBriefly StartIsComplete LoggingConsistent
  RestMeansFit PassRepeats
PROPERTIES WorkloadsConverge PassesQuiesce
CHECK_DEADLOCK FALSE
