\* Every part, each with two requests under way.
SPECIFICATION Spec
CONSTANTS
  Parts = {"session", "connections", "repos", "pool", "lists"}
  Tab = {1, 2}
  User = {"root", "ana"}
  SuperAdmin = {"root"}
  MaxLogins = 2
  Card = {"github", "issues", "sub", "api"}
  FormOf <- Kinds
  FamilyOf <- Families
  Decks <- TwoDecks
  Untested = {}
  ConnReq = {k1, k2}
  ConnGet = {1}
  RepoId = {1}
  Source = {"github", "gitlab"}
  RepoName = {"x"}
  RepoReq = {1, 2}
  RepoGet = {1}
  Field = {"paused"}
  Pinned = {1}
  PinLimit = 1
  PoolReq = {1, 2}
  PoolGet = {1}
  MaxClicks = 2
  PageSize = 1
  Item = {1, 2}
  ListReq = {1, 2}
  ListGet = {1}
  MaxChanges = 2
SYMMETRY Alike
INVARIANTS TypeOK ButtonsComeBack RowsWhenAny SubmitOnce AdminsOnly
PROPERTIES CodeHasToken RemovedStays
CHECK_DEADLOCK FALSE
