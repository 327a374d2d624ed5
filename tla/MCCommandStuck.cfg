SPECIFICATION FairSpec
CONSTANTS
  Instances = {}
  References = 1
  ProviderFaults = {}
  MaxAttempts = 1
  BackoffBase = 30
PROPERTIES
  CommandEnds
