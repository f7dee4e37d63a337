SPECIFICATION Spec
CONSTANTS
  None = None
  r1 = r1
  r2 = r2
  tool = tool
  view_ = view_
  op = op
  p1 = p1
  p2 = p2
  s1 = s1
  b1 = b1
  b2 = b2
  sales = sales
  coach = coach
  clerk = clerk
  calls = calls
  sd = sd
  cd = cd
  m1 = m1
  pg1 = pg1
  pg2 = pg2
  f1 = f1
  f2 = f2
  x1 = x1
  x2 = x2
  Requests = {q1, q2}
  RoleIds = {r1, r2}
  Departments = {d1}
  OrdinaryNames = {n1}
  RanksAsked = {1, 980}
  Modules = {m1, m2}
  Tenants = {t1, t2}
  Orgs = {o1}
  Units = {d1, d2}
  Countries = {k1}
  States = {st1}
  Cities = {ct1}
  Roles = {r1}
  Caps = {tool, view_, op}
  Platform = {}
  Kind <- MCKind
  Parent <- MCParent
  Defaults <- MCDefaults
  MaxTicks = 2
  Labels = {l1}
  Parents = {p1, p2}
  ChildrenOf <- MCChildrenOf
  MaxWrites = 1
  Campaigns = {c1}
  Types = {ty1, ty2, ty3}
  MaxChanges = 2
  MaxPreviews = 2
  Rules = {ru1, ru2}
  CampaignTypes = {ty1}
  TypeDepartments = {d1}
  Default = None
  MaxForeign = 1
  Pages = {pg1, pg2}
  FormsOf <- MCFormsOf
  MaxLists = 2
  MaxSaves = 1
  PullPages = {pg1, pg2}
  Observed <- MCObserved
  MaxQueries = 3
  Runs = {run1, run2}
  MaxRequests = 1
  Filters = {x1, x2}
  Batches = 3
  Tokens = {key1, key2}
  Grants = {g1, g2}
  Branches = {b1, b2}
  Managers = {m1}
  Heirs = {h1}
  WeightTypes = {calls}
  FormRoles = {sales, coach, clerk}
  RoleDepartment <- MCRoleDepartment
  LeadRoles = {sales, coach}
  TypeDepartment <- MCTypeDepartment
  Members <- MCMembers
  EnteredWeights = {0, 150}
  MaxEdits = 2
  Loading = Loading
  Failed = Failed
  Omitted = Omitted
  Mailboxes = {ma, mb}
  Endpoints = {e1, e2}
  MaxRedirects = 3
INVARIANTS
  ReservedNamesCarryTheirRank
  WholePutsAreExact
  RecordsPointHome
  SavedFromTheRolesRows
  OthersColumnsStay
  ConfirmsWerePreviewed
  ScreenIsTheServersTruth
  FormsMatchThePage
  PullsStayInScope
  StartedWorkIsFollowed
  RunsArePreviewed
  KeysAreShownToTheirMaker
  UntouchedFieldsStay
  LeadsAreNeverForgotten
  PushesFollowTheUser
  TurnedOffStaysOff
  RedirectsEnd
  LoginReturnsToTheRequest
PROPERTIES
  ChildrenAreChosenUnderTheirParent
CHECK_DEADLOCK FALSE
