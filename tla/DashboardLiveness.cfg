\* Under fairness, on the parts that only reading and signing out can put right.
SPECIFICATION FairSpec
CONSTANTS
  Parts = {"session", "pool"}
  Tab = {1, 2}
  User = {"root", "ana"}
  SuperAdmin = {"root"}
  MaxLogins = 2
  Card = {"github", "issues", "sub", "api"}
  FormOf <- Kinds
  FamilyOf <- Families
  Decks <- TwoDecks
  Untested = {}
  ConnReq = {1, 2}
  ConnGet = {1}
  RepoId = {1}
  Source = {"github", "gitlab"}
  RepoName = {"x"}
  RepoReq = {1, 2}
  RepoGet = {1}
  Field = {"paused"}
  Pinned = {1}
  PinLimit = 1
  PoolReq = {1}
  PoolGet = {1, 2}
  MaxClicks = 1
  PageSize = 1
  Item = {1, 2}
  ListReq = {1, 2}
  ListGet = {1}
  MaxChanges = 2
PROPERTIES PoolShown SessionEnds
CHECK_DEADLOCK FALSE
