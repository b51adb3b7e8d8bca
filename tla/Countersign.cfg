SPECIFICATION FairSpec
CONSTANTS
  None = None
  producer = producer
  operator = operator
  kp = kp
  ks = ks
  Key = kw
  public = public
  private = private
  hook = hook
  other = other
  Ledgers = {producer, operator}
  Keys = {kp, ks, kw}
  Deployments <- Environments
  Requests <- Posted
  Registry <- Profiles
  Encodable = {"test/v0", "actions"}
  Hosts = {hook}
  Addresses = {public, private}
  Answers <- Lookups
  Blocked = {private}
  MaxStatements = 2
  MaxStarts = 2
  MaxFlips = 2
INVARIANTS
  TypeOK
  CountersignaturesTrue
PROPERTIES
  PublicDials
  
CHECK_DEADLOCK FALSE
