------------------------------- MODULE Consoles -------------------------------
(***************************************************************************)
(* The consoles: the screens of lookup-admin and admin-web, the shared     *)
(* pages, and the services of the catalogues they edit.  Each part is one  *)
(* screen with what it talks to, in a module of its own.  No two parts     *)
(* share state, so one of them is open in a behaviour and the others are   *)
(* not mounted: their variables are None.                                  *)
(***************************************************************************)
EXTENDS Integers, FiniteSets

CONSTANTS
  RoleIds, Departments, OrdinaryNames, RanksAsked, Requests,  \* RoleCatalogue
  Modules,                                                    \* TenantModules
  Tenants, Orgs, Units, Countries, States, Cities,            \* TenantDirectory
  Roles, Caps, Kind, Parent, Platform, Defaults, MaxTicks,    \* CapabilityGrants
  Labels, Parents, ChildrenOf, MaxWrites,                     \* LookupForms
  Campaigns, Types, MaxChanges, MaxPreviews,                  \* CampaignMapping
  Rules, CampaignTypes, TypeDepartments, Default, MaxForeign, \* CampaignRules
  Pages, FormsOf, MaxLists, MaxSaves,                         \* PageMapping
  PullPages, Observed, MaxQueries,                            \* PullFilter
  Runs, MaxRequests,                                          \* LeadPull
  Filters, Batches,                                           \* AssignmentRerun
  Tokens, Grants,                                             \* ApiTokenScreens
  Branches, Managers, Heirs, WeightTypes, FormRoles, RoleDepartment, LeadRoles,
  TypeDepartment, Members, EnteredWeights, MaxEdits, Loading, Failed, Omitted, \* UserForm
  Mailboxes, Endpoints,                                       \* WebPush
  MaxRedirects,                                               \* Navigation
  None

VARIABLE open   \* the part this behaviour is about

VARIABLES
  roles, patches, raced,
  rows, puts, exact,
  orgs, departments, places, writes, moved,
  overrides, role, view, pending, loading, error, reads, saving, saved,
  ticks, others,
  stored, onPage, rerender, editor, base, values, options, filling,
  unfilled, sending, byHand, written,
  campaigns, grid, selections, fetching, changes, refreshing, target,
  editable, asks, previews, previewing, committing, unconfirmed, failed,
  rulebook, onScreen, mounted, acting, reread, unsure, foreign,
  mapped, board, refetch, modal, pageId, pageLevel, formId, forms, lists,
  missed, posting,
  picked, offered, chosen, queries, unlisted, mode, window, locked, asked,
  pulls, scheduled, runId, run, poll, requests, conflict, accepted,
  reopened,
  filters, cursor, preview, request, runs,
  tokens, listed, reloading, sheet, subject, entered, call, shown, minted,
  met, lost,
  who, existing, roleList, assigned, home, manager, managers, heirs, heir,
  lastHeir, deactivating, filled, sent, touched, edits,
  session, permission, local, issued, subscribed, page, suppress, paused,
  jobs, turnedOff, settled,
  cookie, live, gateway, account, at, display, redirects, wanted

R == INSTANCE RoleCatalogue
M == INSTANCE TenantModules
D == INSTANCE TenantDirectory WITH Departments <- Units
G == INSTANCE CapabilityGrants WITH MaxEdits <- MaxTicks
L == INSTANCE LookupForms
C == INSTANCE CampaignMapping WITH MaxAsks <- MaxPreviews
T == INSTANCE CampaignRules
P == INSTANCE PageMapping WITH MaxAsks <- MaxLists
F == INSTANCE PullFilter
Q == INSTANCE LeadPull WITH asks <- requests, MaxAsks <- MaxRequests
A == INSTANCE AssignmentRerun
K == INSTANCE ApiTokenScreens WITH missed <- lost
U == INSTANCE UserForm WITH pending <- filled, Roles <- FormRoles, Types <-
       WeightTypes
W == INSTANCE WebPush
N == INSTANCE Navigation WITH shown <- display

\* "Nothing" is not one of the things it stands in for; the rank asked for of
\* a new role is a number.
ASSUME RolesAssumption == RanksAsked \subseteq Int /\ None \notin Int \cup R!Role

ASSUME DirectoryAssumption ==
  None \notin D!Organization \cup D!Country \cup D!State \cup D!City

\* The rules a tenant may have are as many as there are ids; a change of them on
\* its way is something.
ASSUME RulesAssumption ==
  /\ IsFiniteSet(Rules)
  /\ None \notin [step: {"write", "served", "reload"}, change: T!Change \cup {None}]

\* The bounds of the parts are numbers; there is a batch to begin with.
ASSUME BoundsAssumption ==
  /\ {MaxTicks, MaxWrites, MaxChanges, MaxPreviews, MaxForeign, MaxLists, MaxEdits} \subseteq Nat
  /\ Batches \in Nat \ {0}

\* Every capability but the tools is under another one, and none is under
\* itself.
ASSUME CatalogueAssumption ==
  /\ IsFiniteSet(Caps) /\ None \notin Caps
  /\ Parent \in [Caps -> Caps \cup {None}]
  /\ Defaults \in [Roles -> G!Rows]
  /\ \E depth \in [Caps -> 0..Cardinality(Caps)] :
       \A c \in Caps : Parent[c] # None => depth[Parent[c]] < depth[c]

ASSUME KeysAssumption ==
  /\ None \notin Tokens \cup K!Row
  /\ None \notin [kind: K!Kinds, token: Tokens \cup {None}, grant: Grants \cup {None},
                  state: {"asked", "done", "refused"}, made: Tokens \cup {None}]

ASSUME TabAssumption ==
  /\ None \notin {"page", "restricted", "form", "branches", "no access"}
  /\ None \notin [forced: BOOLEAN, licensed: N!Licences]

\* Who may be opened is a member, and a weight entered is a number; "not in the
\* patch" is nobody's name, and a list that is loading or was not to be had is
\* not the empty one.
ASSUME FormAssumption ==
  /\ Members \subseteq U!Member
  /\ EnteredWeights \subseteq Int
  /\ Omitted \notin Heirs \cup {None}
  /\ Omitted # FALSE
  /\ Loading # {} /\ Failed \notin {Loading, {}}

roleVars == <<roles, patches, raced>>
moduleVars == <<rows, puts, exact>>
directoryVars == <<orgs, departments, places, writes, moved>>
matrixVars == <<overrides, role, view, pending, loading, error, reads, saving,
  saved, ticks, others>>
lookupVars == <<stored, onPage, rerender, editor, base, values, options,
  filling, unfilled, sending, byHand, written>>
campaignVars == <<campaigns, grid, selections, fetching, changes, refreshing,
  target, editable, asks, previews, previewing, committing, unconfirmed,
  failed>>
ruleVars == <<rulebook, onScreen, mounted, acting, reread, unsure, foreign>>
pageVars == <<mapped, board, refetch, modal, pageId, pageLevel, formId, forms,
  lists, missed, posting>>
filterVars == <<picked, offered, chosen, queries, unlisted, mode, window,
  locked, asked>>
pullVars == <<pulls, scheduled, runId, run, poll, requests, conflict,
  accepted, reopened>>
rerunVars == <<filters, cursor, preview, request, runs>>
keyVars == <<tokens, listed, reloading, sheet, subject, entered, call, shown,
  minted, met, lost>>
formVars == <<who, existing, roleList, assigned, home, manager, managers,
  heirs, heir, lastHeir, deactivating, filled, sent, touched, edits>>
pushVars == <<session, permission, local, issued, subscribed, page, suppress,
  paused, jobs, turnedOff, settled>>
tabVars == <<cookie, live, gateway, account, at, display, redirects, wanted>>

Parts == {"roles", "modules", "directory", "matrix", "lookups", "campaigns",
          "rules", "pages", "filter", "pull", "rerun", "keys", "user", "push",
          "tab"}

----------------------------------------------------------------------------
(* A part that is not mounted.                                             *)

RolesClosed ==
  /\ roles = None /\ patches = None /\ raced = None
ModulesClosed ==
  /\ rows = None /\ puts = None /\ exact = None
DirectoryClosed ==
  /\ orgs = None /\ departments = None /\ places = None /\ writes = None
  /\ moved = None
MatrixClosed ==
  /\ overrides = None /\ role = None /\ view = None /\ pending = None
  /\ loading = None /\ error = None /\ reads = None /\ saving = None
  /\ saved = None /\ ticks = None /\ others = None
LookupsClosed ==
  /\ stored = None /\ onPage = None /\ rerender = None /\ editor = None
  /\ base = None /\ values = None /\ options = None /\ filling = None
  /\ unfilled = None /\ sending = None /\ byHand = None /\ written = None
CampaignsClosed ==
  /\ campaigns = None /\ grid = None /\ selections = None /\ fetching = None
  /\ changes = None /\ refreshing = None /\ target = None /\ editable = None
  /\ asks = None /\ previews = None /\ previewing = None /\ committing = None
  /\ unconfirmed = None /\ failed = None
RulesClosed ==
  /\ rulebook = None /\ onScreen = None /\ mounted = None /\ acting = None
  /\ reread = None /\ unsure = None /\ foreign = None
PagesClosed ==
  /\ mapped = None /\ board = None /\ refetch = None /\ modal = None
  /\ pageId = None /\ pageLevel = None /\ formId = None /\ forms = None
  /\ lists = None /\ missed = None /\ posting = None
FilterClosed ==
  /\ picked = None /\ offered = None /\ chosen = None /\ queries = None
  /\ unlisted = None /\ mode = None /\ window = None /\ locked = None
  /\ asked = None
PullClosed ==
  /\ pulls = None /\ scheduled = None /\ runId = None /\ run = None
  /\ poll = None /\ requests = None /\ conflict = None /\ accepted = None
  /\ reopened = None
RerunClosed ==
  /\ filters = None /\ cursor = None /\ preview = None /\ request = None
  /\ runs = None
KeysClosed ==
  /\ tokens = None /\ listed = None /\ reloading = None /\ sheet = None
  /\ subject = None /\ entered = None /\ call = None /\ shown = None
  /\ minted = None /\ met = None /\ lost = None
FormClosed ==
  /\ who = None /\ existing = None /\ roleList = None /\ assigned = None
  /\ home = None /\ manager = None /\ managers = None /\ heirs = None
  /\ heir = None /\ lastHeir = None /\ deactivating = None /\ filled = None
  /\ sent = None /\ touched = None /\ edits = None
PushClosed ==
  /\ session = None /\ permission = None /\ local = None /\ issued = None
  /\ subscribed = None /\ page = None /\ suppress = None /\ paused = None
  /\ jobs = None /\ turnedOff = None /\ settled = None
TabClosed ==
  /\ cookie = None /\ live = None /\ gateway = None /\ account = None
  /\ at = None /\ display = None /\ redirects = None /\ wanted = None

Init ==
  /\ open \in Parts
  /\ IF open = "roles" THEN R!Init ELSE RolesClosed
  /\ IF open = "modules" THEN M!Init ELSE ModulesClosed
  /\ IF open = "directory" THEN D!Init ELSE DirectoryClosed
  /\ IF open = "matrix" THEN G!Init ELSE MatrixClosed
  /\ IF open = "lookups" THEN L!Init ELSE LookupsClosed
  /\ IF open = "campaigns" THEN C!Init ELSE CampaignsClosed
  /\ IF open = "rules" THEN T!Init ELSE RulesClosed
  /\ IF open = "pages" THEN P!Init ELSE PagesClosed
  /\ IF open = "filter" THEN F!Init ELSE FilterClosed
  /\ IF open = "pull" THEN Q!Init ELSE PullClosed
  /\ IF open = "rerun" THEN A!Init ELSE RerunClosed
  /\ IF open = "keys" THEN K!Init ELSE KeysClosed
  /\ IF open = "user" THEN U!Init ELSE FormClosed
  /\ IF open = "push" THEN W!Init ELSE PushClosed
  /\ IF open = "tab" THEN N!Init ELSE TabClosed

----------------------------------------------------------------------------
(* The part that is open takes a step; the others stay unmounted.          *)

Still(part) ==
  /\ UNCHANGED open
  /\ IF part = "roles" THEN TRUE ELSE UNCHANGED roleVars
  /\ IF part = "modules" THEN TRUE ELSE UNCHANGED moduleVars
  /\ IF part = "directory" THEN TRUE ELSE UNCHANGED directoryVars
  /\ IF part = "matrix" THEN TRUE ELSE UNCHANGED matrixVars
  /\ IF part = "lookups" THEN TRUE ELSE UNCHANGED lookupVars
  /\ IF part = "campaigns" THEN TRUE ELSE UNCHANGED campaignVars
  /\ IF part = "rules" THEN TRUE ELSE UNCHANGED ruleVars
  /\ IF part = "pages" THEN TRUE ELSE UNCHANGED pageVars
  /\ IF part = "filter" THEN TRUE ELSE UNCHANGED filterVars
  /\ IF part = "pull" THEN TRUE ELSE UNCHANGED pullVars
  /\ IF part = "rerun" THEN TRUE ELSE UNCHANGED rerunVars
  /\ IF part = "keys" THEN TRUE ELSE UNCHANGED keyVars
  /\ IF part = "user" THEN TRUE ELSE UNCHANGED formVars
  /\ IF part = "push" THEN TRUE ELSE UNCHANGED pushVars
  /\ IF part = "tab" THEN TRUE ELSE UNCHANGED tabVars

RolesStep == open = "roles" /\ R!Next /\ Still("roles")
ModulesStep == open = "modules" /\ M!Next /\ Still("modules")
DirectoryStep == open = "directory" /\ D!Next /\ Still("directory")
MatrixStep == open = "matrix" /\ G!Next /\ Still("matrix")
LookupsStep == open = "lookups" /\ L!Next /\ Still("lookups")
CampaignsStep == open = "campaigns" /\ C!Next /\ Still("campaigns")
RulesStep == open = "rules" /\ T!Next /\ Still("rules")
PagesStep == open = "pages" /\ P!Next /\ Still("pages")
FilterStep == open = "filter" /\ F!Next /\ Still("filter")
PullStep == open = "pull" /\ Q!Next /\ Still("pull")
RerunStep == open = "rerun" /\ A!Next /\ Still("rerun")
KeysStep == open = "keys" /\ K!Next /\ Still("keys")
FormStep == open = "user" /\ U!Next /\ Still("user")
PushStep == open = "push" /\ W!Next /\ Still("push")
TabStep == open = "tab" /\ N!Next /\ Still("tab")

Next ==
  \/ RolesStep \/ ModulesStep \/ DirectoryStep \/ MatrixStep \/ LookupsStep
  \/ CampaignsStep \/ RulesStep \/ PagesStep \/ FilterStep \/ PullStep
  \/ RerunStep \/ KeysStep \/ FormStep \/ PushStep \/ TabStep

consoles == <<open, roleVars, moduleVars, directoryVars, matrixVars,
              lookupVars, campaignVars, ruleVars, pageVars, filterVars,
              pullVars, rerunVars, keyVars, formVars, pushVars, tabVars>>

Spec == Init /\ [][Next]_consoles

----------------------------------------------------------------------------
(* The variables of the part that is open have their types; of the dry runs,*)
(* queries and lists of forms on their way one at most is the current one.  *)
TypeOK ==
  /\ open = "roles" => R!TypeOK
  /\ open = "modules" => M!TypeOK
  /\ open = "directory" => D!TypeOK
  /\ open = "matrix" => G!TypeOK
  /\ open = "lookups" => L!TypeOK
  /\ open = "campaigns" => C!TypeOK
  /\ open = "rules" => T!TypeOK
  /\ open = "pages" => P!TypeOK
  /\ open = "filter" => F!TypeOK
  /\ open = "pull" => Q!TypeOK
  /\ open = "rerun" => A!TypeOK
  /\ open = "keys" => K!TypeOK
  /\ open = "user" => U!TypeOK
  /\ open = "push" => W!TypeOK
  /\ open = "tab" => N!TypeOK

(* roles.service: a role with a reserved name has that name's fixed rank,   *)
(* whichever PATCH, of its name or of its rank, came last.                  *)
ReservedNamesCarryTheirRank == open = "roles" => R!ReservedNamesCarryTheirRank

(* tenant-modules.service: after a PUT that ran whole and alone, the active *)
(* modules are the listed ones, although each is its own transaction.       *)
WholePutsAreExact == open = "modules" => M!WholePutsAreExact

(* admin-service: departments, branches and places point at records of      *)
(* their own tenant, across overlapping and partial writes.                 *)
RecordsPointHome == open = "directory" => D!RecordsPointHome

(* CapabilityMatrixClient: what the boxes showed when Save was pressed is   *)
(* what the database resolves, if the rows on screen were the role's.       *)
SavedFromTheRolesRows == open = "matrix" => G!SavedFromTheRolesRows

(* EditLookupModal: an edit sends no column the administrator left alone.   *)
OthersColumnsStay == open = "lookups" => L!OthersColumnsStay

(* FkSelect: a child is chosen among those of the parent on the form, while *)
(* lists of earlier parents are still on their way.                         *)
ChildrenAreChosenUnderTheirParent ==
  [][open = "lookups" => L!ChildChosen]_consoles

(* ConfirmMappingDialog: what a commit confirms is what was last previewed, *)
(* unless a preview failed.                                                 *)
ConfirmsWerePreviewed == open = "campaigns" => C!ConfirmsWerePreviewed

(* CampaignTypesClient: between changes the screen holds the service's      *)
(* rules and types, unless a change of others or a failure came between.    *)
ScreenIsTheServersTruth == open = "rules" => T!ScreenIsTheServersTruth

(* The page mapping modal: the forms on offer are those of the page chosen, *)
(* once their list is in.                                                   *)
FormsMatchThePage == open = "pages" => P!FormsMatchThePage

(* PullFilterForm: a pull asked for on settled lists names only campaigns   *)
(* of the pages it names.                                                   *)
PullsStayInScope == open = "filter" => F!PullsStayInScope

(* LeadPullClient: while the run on screen has work to do, it is polled.    *)
StartedWorkIsFollowed == open = "pull" => Q!StartedWorkIsFollowed

(* AssignmentRerunClient: every batch run for real was previewed with the   *)
(* same filters and cursor, and had something to assign.                    *)
RunsArePreviewed == open = "rerun" => A!RunsArePreviewed

(* The dialogs of admin-web's API tokens: a key that was made is shown to   *)
(* whoever made it, unless its answer is under way or lost.                 *)
KeysAreShownToTheirMaker == open = "keys" => K!KeysAreShownToTheirMaker

(* EditUserModal: whatever order its lists load in, a save leaves the       *)
(* branches, home and manager nobody touched as they were.                  *)
UntouchedFieldsStay == open = "user" => U!UntouchedFieldsStay

(* EditUserModal: a member who leaves a branch leaves the leads to somebody *)
(* named, or to nobody once the fetch of who could take them is over.       *)
LeadsAreNeverForgotten == open = "user" => U!LeadsAreNeverForgotten

(* usePushSubscription and the notifications service: no row leads to a     *)
(* device that was torn down, and one that has registered gets its user's   *)
(* pushes only.                                                             *)
PushesFollowTheUser == open = "push" => W!PushesFollowTheUser

(* usePushSubscription: notifications that were turned off stay off until   *)
(* somebody turns them on.                                                  *)
TurnedOffStaysOff == open = "push" => W!TurnedOffStaysOff

(* The web applications: no request is redirected for ever.                 *)
RedirectsEnd == open = "tab" => N!RedirectsEnd

(* The web applications: a login ends on the page that asked for it.        *)
LoginReturnsToTheRequest == open = "tab" => N!LoginReturnsToTheRequest

=============================================================================
