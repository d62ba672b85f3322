SPECIFICATION FairSpec
CONSTANTS
  east = east  west = west
  a1 = a1  a2 = a2  s = s
  params = params  security = security  subnets = subnets  other = other
  p = p
  Missing = Missing  Unread = Unread  NoFile = NoFile
  Regions <- TwoRegions
  Resources <- Account
  Serverless <- Caches
  Listing <- Listings
  ByName = {"caches"}
  ParameterGroups = {params}
  SecurityGroups = {security, other}
  SubnetGroups = {subnets}
  Parts = {p}
  Uses <- Shares
  Content <- Contents
  Concurrency = 2
  MaxRetries = 1
  MaxRuns = 1
  MaxBlank = 1
INVARIANTS IInv CleanInventoryIsComplete SuccessIsClean FailuresAreContained NoDuplicates
PROPERTIES DiscoveryEnds
CHECK_DEADLOCK FALSE
