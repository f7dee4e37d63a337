# A verification project for MSQ Platforms

TLA+ models of the multi-tenant platform in this repository: identity-service,
api-gateway, admin-service, the shared `@platform/*` packages, the PostgreSQL triggers
they rely on, and the screens of the administration consoles; TLC runs on small
instances, and theorems checked by TLAPS for all instances.

Paths below are relative to the repository. `identity/` stands for
`msq-core/services/identity-service/src/`, `gateway/` for
`msq-core/services/api-gateway/src/`, `admin/` for `msq-core/services/admin-service/src/`,
`sql/04` for `db_scripts/04_functions_triggers.sql`, `la/` for
`msq-core/apps/lookup-admin/components/`.

## 1. Inventory

### The parts and how they interact

A browser holds one JWT in a cookie. Every request passes the **api-gateway**, which
verifies signature, expiry and the blocklist, checks the tenant's product licence, and
proxies to a service with the identity in headers beside a shared secret; partners come in
with an API key instead. **identity-service** owns accounts, logins, branch memberships,
the reporting hierarchy, lead shares and API keys; it is the only service that mints
tokens. **admin-service** writes branches, departments, places, roles, licences and
capability overrides; **communication-service** relays mail. All share one PostgreSQL
database, where triggers enforce the hierarchy and publish capability changes with
`NOTIFY`; every service process keeps capability matrices and licences in memory. The
services are asynchronous TypeScript: within a process handlers interleave at every
`await`, processes share nothing but the database, and transactions run under READ
COMMITTED. An administrative request is often several transactions in a row, some with
calls to leads-service and hr-service in the middle. The **consoles** are React
screens: each fetch and each save is a promise whose answer may come late, in another
order, or not at all, while the user goes on clicking and other administrators write.

| component | state it keeps | operations | where it is hard |
|---|---|---|---|
| Sessions (`identity/api/v1/auth`, `identity/lib/jwt.ts`, `packages/db/src/blocklist.ts`, `gateway/lib/jwt-verify.ts`) | `iam.token_blocklist`, `password_changed_at`, the tokens | login, switch-org, change-password, logout, checks, purge | tokens minted from a row that is stale when it is signed; revocation in a second transaction; whole-second claims against exact timestamps |
| Account lockout (`auth.service.ts`, `auth.repository.ts`) | three columns of `iam.users` | check, record failure, clear | bcrypt runs between the check and the write; three timers |
| User administration (`identity/api/v1/users`) | accounts, memberships, lead shares | create, edit, delete, grant, revoke, transfer | up to five transactions and two calls per request |
| Reporting hierarchy (triggers of `sql/04`) | open lines per branch, `manager_id` mirror | open, close, move, mirror | loops across transactions; one mirror for many trees |
| Capability cache (`packages/db/src/capability-cache.ts`) | matrices with age, loads in flight, subscription | check, load, invalidate, listen | load racing an invalidation, lost notifications, joined loads |
| Gateway (`gateway/server.ts`, `middleware`, `lib`) | 60 s licence cache, limiter windows | route chains, proxy, stream | overlapping reads of a licence, deadlines, fail-closed checks |
| API keys (`identity/api/v1/api-clients`, `packages/db/src/api-clients.ts`, `gateway/lib/public-auth.ts`) | `iam.api_clients` | create, update, revoke, rotate, check | rotation reads without a lock |
| Catalogues (`admin/api/v1`) | roles, modules, branches, departments, places, overrides | create, update, whole-set PUT | checks in other transactions than the write |
| Consoles (`la/`, `msq-core/apps/admin-web`, `packages/team-web`, `packages/ui`) | screen state | fetch, edit, preview, save, poll | late answers, stale forms, lost secrets |
| Web push (`packages/ui/src/pwa`, `apps/auth-web/public/sw.js`, `packages/web-push`) | the browser's subscription, `notify.push_subscriptions` | subscribe, reconcile, rotate, prune, sign out | four actors on one subscription |
| Navigation (`apps/auth-web`, `packages/ui/src/middleware.ts`, `packages/ui/src/server`) | the cookie, the address, the callback | redirect, log in, choose a branch | several redirectors with their own idea of the session |
| communication-service, service-auth, audit-log, blob-storage, deployment | none, or an append-only log | relay, compare, store | I/O |

The product services (leads, HR, tasks, notifications, meta) are called from here and are
not in the repository; what calls them is modelled with them as external actors.

### What makes each part correct

- Sessions: a revoked token is refused until it expires, only revoked tokens are
  refused, refusal is final, a password change ends earlier sessions and keeps the new one.
- Lockout: no failure is lost, guesses are bounded, a lock is neither shortened by a
  failure nor inherited by the period after it.
- User administration: a change that took access away and was reported done has ended
  the older sessions; leads change hands before the transfer; no edit takes the last branch.
- Hierarchy: per branch a forest; lines join current members only; the mirror shows a
  manager the user has.
- Caches: bounded staleness, no check left waiting, changes take effect in the end.
- Gateway: what a licence admits is recent, a public send reaches known recipients (and
  the short phone numbers its guard skips) only, every request gets a status.
- API keys: one live key per client with the last word on it; bursts are bounded.
- Catalogues: reserved roles keep their rank, a whole PUT is exact, records point home.
- Screens: what is saved is what was shown; previews, selections, options and secrets
  belong to what they are used for; fields nobody touched stay.

The hazards at their lines, and the property that covers each, are in `PROJECT.json`.

## 2. Modules

| module | models | runs | theorems |
|---|---|---|---|
| `Sessions`, `TokenRegistry` | tokens, blocklist, watermark; the abstract registry of live tokens | `sessions_*` | `SessionsProofs` |
| `LoginLockout` | the lockout row of one account | `lockout` | `LoginLockoutProofs` |
| `CapabilityCache` | one process's cache and its subscription | `capability_cache` | `CapabilityCacheProofs` |
| `ReportingLines`, `Hierarchy` | memberships, lines, mirror, home branches; the abstract hierarchy | `reporting_lines*` | `ReportingLinesProofs` |
| `UserAdministration` | administrative requests as sequences of transactions and calls, lead shares, hand-over | `user_administration` | `UserAdministrationProofs` |
| `Gateway` | route families and their chains, licence cache, deadlines, stream | `gateway` | `GatewayProofs` |
| `FixedWindow`, `ApiKeys` | the limiter; keys, rotations, the gateway's lookup | `api_keys` | `ApiKeysProofs` |
| `Consoles` and its fifteen parts | see below | `consoles`, `capability_grants` | `ConsolesProofs` |

An `MC` module extends its component with the values a `.cfg` cannot write and with the
symmetry sets. Operators whose comment begins with "Mutant:" are plausible bugs of the
definition that follows; `PROJECT.json` lists which property each one breaks. They take
part in no specification. Variables marked "history" are read by properties only.

### Sessions and TokenRegistry

`account`, `mapping`, `claims`, `blocklist` are the rows and the signed claims; `held` is
what reached a client; `calls` is the position of each request in its handler. A handler
is split at every `await` between a read that matters and a later write:

- login: `LoginRead` (row, branch, password compared to it), `LoginIssue` (sign, cookie);
- switch-org: `SwitchVerify` (signature, expiry, blocklist), `SwitchLoad` (account, branch
  and watermark of `resolveSession`), `SwitchTarget` (row in the target branch),
  `SwitchMint`, `SwitchRetire`;
- change-password: `ChangeAdmit` (the gateway), `ChangeRead`, `ChangePersist`,
  `ChangeMint`, `ChangeRevoke` or, since that step is best effort, `ChangeRevokeFails`;
- administration: `AdminWrite` or `RoleStamp`/`RoleWrite` commit the change, `AdminRevoke`
  is the bulk revocation in the next transaction;
- `Logout`, `Reactivate`, `AddOrgMapping`, `PurgeExpiredTokenBlocklist`, `Tick`;
- `CallFails`: any request may end between two of its steps (an exception, a crash, a
  restart), leaving behind what it has committed.

Time is in ticks, `TicksPerSecond` per second, because the code compares truncated claims
with exact timestamps and the difference decides. `TokenRegistry` is what all of this
promises: a token enters the set of live tokens once, when it is issued, and leaves it for
good, alone, with all earlier tokens of its own user, or by age. `Sessions` implements it
under the mapping of its `Registry` instance (`live` are the signed tokens the edge check
accepts): `ImplementsTokenRegistry` is a property of a run and a theorem.

Assumptions: one clock for services and database; branches and tenants exist and stay
active; `HomeOrg` does not change (transfers are in `UserAdministration`); a UUID is drawn
once.

### LoginLockout

One account, any number of overlapping logins. `LoginRead` checks the lock and starts
bcrypt, `RecordFailedLogin` is the single UPDATE of a failure, `UpdateLastLogin` the clear
of a success, `ClearLockout` the clear of a password change or reset. `log` (history)
holds the times of the failures since the last clear.

### CapabilityCache

The content of a matrix is a version number. `StartLoad`, `JoinLoad`, `AnswerFromCache`
are the three paths of `getMatrix`; `ReadMatrix` is the query's snapshot and `LoadDone`
the arrival of its rows, so changes and invalidations fall between them; `LoadFails` is
the rejected promise. `ChangeMatrix` commits and notifies, `Invalidate` is the listener,
`ConnectionLost` (external: the driver) loses what is on its way. Ages saturate above
every comparison, so behaviours are infinite and liveness is not cut off by a bound on
time; only the number of changes is bounded.

### ReportingLines and Hierarchy

One action is one transaction with everything its triggers do. `CloseLines` and
`SyncMirror` are the trailing triggers and part of the action; a transaction a trigger
refuses is no step. `WriteLine`/`CommitLine`/`RollBack` split the transaction that sets a
manager, because its triggers read, without locks, rows that other open transactions may
be changing. `Overlap` says whether other transactions may commit in between: `FALSE` in
the passing run and in the theorems (one administrator at a time), `TRUE` in the run that
refutes acyclicity. `TenantWide` users are tenant admins, whom a first mapping makes
members everywhere. One tenant; lines have no dates (open or history); a request may work
with an outdated home branch, so the branch a manager is set in is any branch.

`Hierarchy` is what these requests promise, without mappings, triggers and mirror: pairs
of a person and a branch, and lines. A change concerns one person: out of some branches,
into others, perhaps a manager in one branch, or none. It closes that person's lines in
the branches left, in both directions, and nobody else's; only the new manager's place may
change besides. `ReportingLines` implements it under the mapping of its `Abstract` instance
(`ImplementsHierarchy`). The invariants alone would not notice a trigger that closes too
much, such as the lines of every branch with one mapping; the refinement does.

### UserAdministration

A PATCH of a member walks through the awaits of `updateUser` that write: the fields, the
hand-over of leads by leads-service (which may have done its work and time out), the
transfer, the reconciliation of the branch list, the revocations, the reassignment after a
deactivation. Each step may be the last (`CallFails`). POST, DELETE, grants and
revocations are one step each, since their own transaction checks again what they checked
before; a change of the weights is its department check and, later, its transaction. Leads arrive at members with a share at any time, also between a
hand-over and its transfer. `outdated` (history) holds the reductions of access not yet
followed by a revocation; `parted` and `strays` the transfers that came with a hand-over
and the leads that arrived, or were handed to the member who is leaving, under way
(`OnTheWayOut`). The module does not repeat managers
(`ReportingLines`) or the tokens themselves (`Sessions`).

### Gateway, FixedWindow, ApiKeys

`Gateway` gives every route family its chain of pre-handlers, its service and its
deadline, as the source's registrations do; a request goes from limiter to token or key,
product, role, recipients, proxy, and its body. The product guard reads the tenant's
modules at one moment and stores them at a later one; concurrent misses are not joined.
Deadlines count ticks left; an upstream may answer, fail, or hang for ever. The recipients
of a public send are a set of kinds (a user, a lead, a stranger, a phone number whose last
ten digits are fewer than ten); `LookedUp` leaves the last kind out, as the guard does.
A read of the modules may fail, which is a 500. `FixedWindow` is the
limiter both files write; `ApiKeys` composes it with the keys: a rotation reads the row
and later revokes it and inserts the successor, everything else is one step. `word`
(history) is the last word on a client; `crossed` are clients whose rotation something
overlapped, which the code does not promise anything about.

### Consoles

Fifteen modules, one per screen with what it talks to, or per catalogue of admin-service.
No two share state, so `Consoles` lets one of them be open in a behaviour (chosen in
`Init`) and keeps the variables of the others at `None`: a behaviour of `Consoles` is a
behaviour of one part, and a property of a part is stated as "if it is open, then". The
product of the fifteen would add states and no behaviour of any part.

| part | code | what is in it |
|---|---|---|
| `RoleCatalogue` | `admin/api/v1/user-roles` | create and patch, lookup and write in two transactions |
| `TenantModules` | `admin/api/v1/tenant-modules` | the whole-set PUT, one transaction per module |
| `TenantDirectory` | `admin/api/v1/organizations`, `departments`, `geo` | records of several tenants and their checks |
| `CapabilityGrants` | `la/capabilities`, `packages/rbac`, `admin/api/v1/capabilities`, `sql/04` | the matrix editor, both resolvers, the save |
| `LookupForms` | `la/lookups` | the generic forms, dependent foreign keys, dirty diff |
| `CampaignMapping`, `CampaignRules`, `PageMapping` | `la/meta-campaigns`, `la/campaign-types`, `la/meta-mappings` | dry runs and confirms, ordered rules, pages and forms |
| `PullFilter`, `LeadPull`, `AssignmentRerun` | `la/lead-pull`, `la/lead-assignment-rerun` | scoped selection, poller and worker, batches |
| `ApiTokenScreens` | `admin-web/components/api-tokens` | four dialogs, the key shown once, lost answers |
| `UserForm` | `packages/team-web`, `packages/ui/src/components/UserForm` | four fetches, each of which may fail, branches as a whole set, heirs |
| `WebPush` | `usePushSubscription.ts`, `sw.js`, `UserMenu.tsx`, `packages/web-push` | page, worker, sign-out and its teardown, push service (external), table |
| `Navigation` | `apps/auth-web`, `middleware.ts`, `require-session.ts`, `sso.ts` | cookie, redirects, login, callback |

Two of them in more detail. In `UserForm` the four fetches are the branches
(`MappingsAnswer`), the roles, the managers and the heirs; the heirs come in (`HeirsAnswer`)
or do not (`HeirsFail`), which the form itself cannot tell from an empty answer
(`HeirList`). In `WebPush` a request carries the session it was sent with. The sign-out ends
the session first, so its deletion of the row is refused (`Refused`): the page is then
`"leaving"`, about to be reloaded, and until the browser gets to that (`ClosePage`) the
teardown goes on (`Drop`), or the browser's part of it fails (`TeardownFails`), which the
sign-out swallows. `settled` (history) says whose the row of the device must be: nobody's
after a teardown that ran to its end, the user's own after their registration was
accepted. In `Navigation` a product's layout sends the user to the login with a callback its
caller has fixed, for the page itself or for the product's home: both occur.

## 3. Runs

Twelve runs; each property of a passing run has a mutant of the code that TLC refutes.

| run | instance | shows |
|---|---|---|
| `sessions_concurrent` | 1 user, 2 tokens, 2 overlapping requests, 2 ticks per second, lifetime 2, clock to 3, 1 bulk revocation open at a time | exact revocation, survival of the replacement token, and the refinement, under all overlaps of two handlers |
| `sessions_watermark` | 1 user, 1 token, 2 requests, reset and role change, lifetime 6, clock to 5 | the password watermark, across three seconds |
| `sessions_reset` | 2 tokens, resets only | refutes that a reset ends existing sessions |
| `lockout` | 3 logins, 2 attempts, lock = window = 2, clock to 8 | exact count, bounded guesses |
| `capability_cache` | 1 tenant, 2 checks, TTL 2, load up to 1 tick, 2 changes | staleness, termination, convergence |
| `reporting_lines` | 3 users of whom 1 tenant admin, 2 branches, transactions in turn | trees, membership, mirror, and the refinement |
| `reporting_lines_race` | same, 2 overlapping transactions | refutes acyclicity under concurrency |
| `user_administration` | 2 members, 2 branches, 2 roles, 1 pool, 2 overlapping of 4 requests, bodies of every kind | revocation, hand-over, membership |
| `gateway` | 2 requests over the chains, TTL 2, deadlines 1 and 3, upstreams that need not answer | licences, recipients, a status for every request |
| `api_keys` | 3 keys, 2 administrators, window of 2 ticks, sweep at 2 callers | the last word, bursts |
| `consoles` | 2 or 3 of everything, per part | nineteen properties of the fifteen parts |
| `capability_grants` | 2 roles, 4 capabilities | refutes that a save writes what was shown |

Why the bounds suffice for the questions: the session hazards are between two requests of
one user, or one request and an administrator, so two calls meet them; two ticks per
second give every order of a truncated and an exact time, and the clock passes the
lifetime so that rows and tokens expire and are purged. The lockout needs one request
more than the attempts allow, and a clock long enough for lock, expiry and a second
lock. A cache entry needs two changes to be overtaken twice. A chain of three users has
the shortest loop that no single line shows, and two branches are what the mirror mixes.
In `user_administration` the third and fourth request are retries or follow-ups of the
first two; two branches give transfer, keep and leave. Two requests are what overlapping
licence reads need, and the longest deadline outlasts the shortest cache life. On a screen
one answer must be able to overtake another, and one other administrator to write between;
two of everything give that, three where a middle choice matters. `MaxTime`, `MaxEpoch`,
`MaxBulk`, `MaxLog`, `MaxVersion`, `MaxRequests`, `MaxEdits`, `MaxTicks`, `MaxWrites`,
`MaxChanges`, `MaxForeign`, `MaxLists`, `MaxSaves`, `MaxQueries`, `MaxPreviews`,
`MaxRedirects`, `MaxAsks` bound counters in guards and are named in the modules; deadlock
checking is off where these bounds end a behaviour.

Fairness. `CapabilityCache`: time passes, and a query that was sent gets its snapshot and
its answer, or fails (PostgreSQL answers or the connection errors); nothing is assumed of
notifications, of the subscription or of checks. `Gateway` (`FairSpec`): the
gateway's own steps are taken (its event loop runs what is ready, its timers fire, its
database answers or fails), and time passes. For time that is strong fairness: a timer
that is due stops `Tick` until it has fired, and a stream of requests with timers of their
own must not stop the clock. Nothing is assumed of the services behind it: one that never
answers, never closes the connection and never stops working is among the behaviours, on
the long routes too, so it is the deadlines that give every request its status. Symmetry is
used in runs without liveness properties only.

### Findings

- `sessions_reset`: a switch in flight survives a password reset.
- `reporting_lines_race`: concurrent line writes can close a loop.
- `capability_grants`: rows of a role picked before are shown, and saved, under the role
  picked since.

`PROJECT.json` quotes the sentence of the code base each one contradicts.

Four more contradict a sentence of the code base. They are part of the models, and the
property named allows exactly the case; they have no run of their own that refutes the
sentence, the twelve runs being spent:

- a public send (`OnlyShortPhonesGoUnchecked`): "every email/phone must resolve to a
  platform user OR an LMS lead" (`gateway/lib/public-comms.ts:19-20`), but only phones with
  ten last digits are looked up (`:94-99`); one of eight or nine digits, which
  `communication.schema.ts:3` allows, is relayed unchecked;
- the sign-out (`PushesFollowTheUser`): "Logout must not leave this user's push
  registration ... on the device" (`packages/ui/src/shell/UserMenu.tsx:50-56`), but the
  deletion comes after the logout and gets a 401, on which the page starts to reload
  (`packages/ui/src/api/http.ts:73-74`) while the local subscription is still there, and a
  local `unsubscribe()` that fails is swallowed (`UserMenu.tsx:71-73`): the device then goes on
  showing the last user's pushes until the next one's page has registered;
- the heirs of leads (`LeadsAreNeverForgotten`): the save waits for the list because a list
  "empty for the wrong reason" would strand "a pipeline that had a perfectly good
  successor" (`packages/team-web/src/components/team/EditUserModal.tsx:273-276`), but a failed fetch
  is an empty list too (`:188`), and the save unassigns the leads;
- the branches of a member (`UntouchedFieldsStay`): a failed load "would silently drop the
  user's other branches on the next save, so the form reports and stops instead"
  (`EditUserModal.tsx:117-118`), but a branch can be added to the empty set it leaves, and
  the save then drops all others.

Properties above are stated around further behaviours of the code that its authors may
want to know:

- two overlapping switches of one session both stay active (`auth.service.ts:380`); a login
  in flight succeeds on, and unlocks, a locked account (`auth.service.ts:153`); a load in
  flight stores a matrix the notification had dropped (`capability-cache.ts:89`);
  changePassword's UPDATE is not conditional on the hash it compared
  (`auth.repository.ts:215`);
- the mirror's loop check can refuse the revocation of a membership (`sql/04:753`, `887`);
- user administration: a re-grant or transfer revives a mapping with its old share; a lead
  that arrives between hand-over and move stays behind; inactive members draw leads;
  softDelete from another branch keeps the user row (`users.repository.ts:1535`);
  moveUserBranch does not write `users.role_id`; a role change that arrives through
  setHomeOrg leaves reconcile nothing to report, so no session ends;
- overlapping rotations leave two live keys; an edit during a rotation is lost in the
  successor;
- gateway: `/campaign-types` and the lead assignment routes are behind no product prefix;
  a 504 may cover work that was completed; after headers are in, nothing bounds a body;
- screens: a set of branches saved from a form drops one granted meanwhile; a changed parent keeps the
  child chosen before, although `FkSelect.tsx:121` says "clearing"; a failed second preview
  leaves the previews of the first confirmable; a failed change of a campaign rule is not
  followed by a reload, which `CampaignTypesClient.tsx:61` promises; a failed list of
  campaigns leaves out-of-scope campaigns selected; jumping to the live run that is already
  open does not resume polling; a batch with nothing to assign cannot be stepped over; the
  reconciler that waits for a key subscribes after "turn off"; a layout's redirect to `/login` drops the deep link, and a
  forced password change the callback.

The properties exclude these cases by naming them (`reported`, `crossed`, `unsure`,
`raced`, `strays`), so that they say what does hold.

## 4. Theorems

TLAPS proves these for every value of the constants that satisfies the modules' ASSUMEs.

- `SessionsProofs`: `TypeCorrect`, `ExactRevocation`, `RefusalIsFinal`,
  `TokenRegistryImplemented`, `TheRegistryIsFinal`, `ReplacementSurvives`, `EarlierLoginsEnd`. The invariant is
  `Types` (typing, and what a request remembers at each step: the user, branch and token
  it will use exist) and `Kept`: claims are stamped no later than now and live exactly
  `MaxAge` from their second; a row for one token expires with it; a bulk row outlives
  every token it could refuse; a retired token's row is there until the token expires; so
  is the row behind each user's `cutoff`, and no row goes beyond it. `RevocationIsExact`
  follows (`KeptExact`); finality follows from exactness in two adjacent states, because
  `retired` and `cutoff` only grow; the refinement follows from both, one step lemma per
  action. `TheRegistryIsFinal` needs the abstract specification only: whatever implements
  it ends tokens for good. The replacement token survives because a token that waits to be delivered is in
  nobody's hands and has one request (`Owned`), so only that request's own revocation meets
  it, at the token's own second. The watermark holds by `Dated`: what a login or a password
  change read, and what first tokens were signed from, was written before the password
  that replaced it was set; rounding down to seconds keeps that order
  (`FloorSecIsMonotone`, for every number of ticks per second).
- `LoginLockoutProofs`: `TypeCorrect` and `NoFailureIsLost` for all settings;
  `FailuresNeverUnlock` and `GuessingIsBounded` assuming `Window >= Lockout`;
  `ExpiredLocksGiveFullBudget` assuming `Window <= Lockout`. The defaults (equal) satisfy
  both, and each assumption is needed. `LockIsBacked` says that a lock is as old as the last
  failure and that the count behind it is at the threshold. `GuessesAreBounded` rests on
  `RoomIsLeft`: in a stretch that is not over, the failures recorded and the requests past
  the lock check together are at most `MaxFailed + |Calls| - 1`. When a stretch is full, its
  failures are one streak (no gap in it is as long as the window), so the row is locked and
  no further request passes the check.
- `ReportingLinesProofs`, assuming `~Overlap`: `TypeCorrect`, `LinesAreTrees`,
  `LinesStayInTheirBranch`, `TheMirrorIsTrue`. The triggers check one new line against the
  lines that are there; that this is enough is the lemma `OneChainSuffices` (pointing one
  user elsewhere keeps every chain finite if that user's own chain is). The invariant adds
  that absent users are members of nothing and that a line written and not yet committed is
  still legal (`OpenIsLegal`), which is exactly what fails with `Overlap`. For the mirror it
  adds that what an open transaction will show is drawn from the lines it leaves
  (`OpenFits`). `TheHierarchyIsKept` is the refinement: a request is put together from what
  it does to the places (`PlacesMove`) and to the lines (`ClosingLeavesTheRemaining`,
  `WritingReplaces`). The trigger refuses a set of people whose managers stay in the set,
  the hierarchy a way up from the new manager to the report; if there were such a way, the
  people on it would be such a set (`LeadingUpLoops`). `HierarchiesAreTrees` needs the
  abstract specification only: one manager per person and branch, both of the branch, and
  no circle.
- `CapabilityCacheProofs`: `TypeCorrect`, `StaleNoLongerThanTheTTL`. The invariant puts the
  three clocks in order: a version the database has not replaced is not gone; what a load
  has read is gone no longer than the load has been on its way since; an entry's version is
  gone no longer than the entry's age plus `MaxLoad`. All three move together in `Tick`.
- `UserAdministrationProofs`: `TypeCorrect`, `NoSessionOutlivesItsAccess`, `LeadsGoFirst`,
  `NeverAMemberOfNothing`. `DebtsAreOwed` is the invariant behind the first: every change of
  access not yet revoked belongs to a request for that user, at a step from which each way
  to a successful answer passes the revocation. Behind the second are `HandedOver` (between
  hand-over and move the member holds no lead of the branch but strays) and `PartedHaveLeft`
  (who was transferred away is no member there until a request says so). The third is a
  property of steps: an edit writes a set of branches that contains the home it names.
- `GatewayProofs`: `TypeCorrect`, `PublicSendsFailClosed`, `LicencesLapse`. `TypeCorrect` says
  besides the types that a request is at a step of its route's chain (`Steps`), that the
  ticks it has waited for a service and those left add up to its route's deadline, and that
  a service works only for a request that got as far. The longer a
  withdrawn product is gone, the less the entry that names it has to live (`EntriesRunOut`),
  and what a read has seen was withdrawn while it was on its way, if at all
  (`ReadsAreRecent`): overlapping reads stored in any order keep both.
- `ApiKeysProofs`: `TypeCorrect`, `OneLiveKeyWithTheLastScopes` and
  `BurstsStayWithinTwoBudgets`. The invariant adds that the first key of every client is a row, that the row of a rotation under way is
  as it was read unless a change crossed it (`RotationsAreFresh`), and that two rotations
  of one key cross each other. For the limiter: a window that runs has let in no more than
  it has counted, and before it, within the length of a window, at most one budget went
  (`RunningIsBounded`); without a window, or after its reset, one budget is all there was
  (`RestingIsFresh`), so that a sweep of windows that have reset loses nothing.
- `ConsolesProofs`: every property of the `consoles` run, and `TypeCorrect`. One invariant per part
  (`RolesIInv`, `ModulesIInv`, ... `TabIInv`), proved inductive for the part's own `Next`;
  `Consoles` steps in the open part only, so their conjunction under "if it is open" is
  inductive too (`Invariance`), and each theorem is read off. Most of the invariants say
  of an answer under way what it is an answer to, and what must be true of the screen while
  it is: a preview on display and a request on its way are both of the filters on display; a
  whole PUT is alone and what it has written is what it wants; a list of options that is
  shown was asked for by the parent on the form; a key that was made is in the answer, on
  display or lost with it. Three of them go further than reading off:
  - `TypeCorrect`. The typing of a part is a conjunct of its invariant (`MatrixTyped`,
    `DialogTyped`, `DraftTyped`, ...), because what comes in is typed by what was asked
    for. That at most one of the requests on their way is waited for follows from the other
    conjuncts: all that are waited for are for what is on the screen, which is one thing
    (`OneIsWaitedFor`). Of the ordered rules it says that none is listed twice, through
    moves, inserts, rewrites and deletes (`RulebookTyped`), so they are no more than the
    ids (`NoMoreRulesThanIds`).
  - `TheResolversAgree`, on which `SavesAreAsShown` rests: the resolver in TypeScript, in
    which a capability is granted if the one above is and two values flow down the tree,
    and the one in SQL, a walk from the tools down, grant the same for every catalogue.
    The induction is over the depth of a capability, stated with sets (`LeastNumber`,
    `CatalogueInduction`); that both recursive functions exist and obey their equations is
    `CatalogueRecursion`.
  - `ThreeRedirectsAreEnough`, which assumes the bound is three or more: with nothing
    changing, the redirects made and those the place, the cookie and the account still
    call for are three at most.
- What `Consoles` assumes of its constants, and why. `None` (SQL NULL, or nothing) is none
  of the records, places, screens and changes. The catalogue is a finite forest
  (`CatalogueAssumption`: `parent_key` refers to a capability, the check
  `chk_iam_capabilities_root` of `02_tables_core.sql` lets tools alone be without one, and
  the seed tree is fixed; it is an assumption, since no constraint of the table excludes a
  longer loop). The rules of a tenant are finitely many, bounds are numbers and there is
  at least one batch. The weights entered are numbers and the members opened are members.

Out of the prover's reach and left to TLC: liveness (`EveryCheckEnds`,
`RevocationsTakeEffect`, `EveryRequestIsAnswered`) and ENABLED; the library's induction
theorems, which take an operator as a parameter (where an induction was needed, it is
stated over sets and proved from the least number of a set); RECURSIVE operators, which no
module here declares. The runs expected to be violated have no theorem, of course. Every
module with theorems has its type invariant among them (`TypeCorrect`); the runs spend
their properties on other things.

## 5. Not modelled

Row-level security, grants, views and seed data; listings and searches; rendering of mails;
the team table, ad accounts and lead inbox screens; deployment scripts; the triggers of
lead, HR and task tables; the HR profile sync; expiry dates of API keys. Clock skew between
services and database. A second tenant in `ReportingLines` and `UserAdministration`. What
the external services (leads, HR, meta, push service) do beyond what their callers see.

## 6. Plan

Done: the modules of section 2, in that order, and the proof modules. Next:

1. The auto-grant triggers of new branches in `ReportingLines`.
2. `UserAdministration` composed with `Sessions`' bulk revocation instead of `outdated`.
3. The team table's filters and the lead rows of a pull run.
