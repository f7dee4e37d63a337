------------------------------ MODULE Gateway ------------------------------
(***************************************************************************)
(* api-gateway: the only way from a browser or a partner to the services.  *)
(* A request passes the chain of its route (rate limiter, token, product   *)
(* licence, role, recipients), is proxied with a deadline, and its answer  *)
(* is streamed back.                                                       *)
(*                                                                         *)
(* Every await is a place where other requests, an administrator who       *)
(* changes the tenant's modules, and time go on.  Time is discrete: what   *)
(* has a deadline counts the ticks that are left, what is measured counts  *)
(* the ticks that have passed, up to a bound.                              *)
(*                                                                         *)
(* Left out: what the token check does (Sessions) and the key check        *)
(* (ApiKeys): here it passes or it does not; paths and payloads beyond the *)
(* family of their route.  The services behind the gateway are external.   *)
(***************************************************************************)
EXTENDS Integers, Sequences

CONSTANTS
  Requests,        \* slots of requests in flight
  TTL,             \* the product cache's life, 60 s
  ProxyTimeout, LongTimeout, KnownTimeout, ConnectTimeout,
  MaxRead,         \* bound on a database read in the product guard
  Kinds,           \* the kinds of routes that a slot's requests are for
  None

ASSUME GatewayAssumption ==
  /\ {TTL, MaxRead} \subseteq Nat \ {0}
  /\ {ProxyTimeout, LongTimeout, KnownTimeout, ConnectTimeout} \subseteq Nat \ {0}

----------------------------------------------------------------------------
(* The route table, by families: path, chain, service, deadline.           *)

Route(path, chain, service, wait) ==
  [path |-> path, chain |-> chain, service |-> service, wait |-> wait]
\* A route that asks for no deadline of its own has the proxy's.
Routed(paths, chain, service) ==
  {Route(p, chain, service, "proxy") : p \in paths}

PublicRoutes ==
  Routed({<<"auth", "login">>, <<"auth", "switch-org">>}, "limit", "identity")
  \cup Routed({<<"auth", "logout">>, <<"auth", "me">>, <<"auth", "my-orgs">>},
              "open", "identity")
  \cup Routed({<<"intake", "webhook">>}, "limit_key", "leads")
  \cup Routed({<<"meta", "webhook">>}, "limit", "meta")

PartnerRoutes ==
  Routed({<<"public", "leads">>, <<"public", "lead-report">>}, "key", "leads")
  \cup Routed({<<"public", "branches">>, <<"public", "users">>,
               <<"public", "locations">>}, "key", "identity")
  \cup Routed({<<"public", "communications">>}, "key_send", "communication")

NotificationRoutes ==
  {Route(<<"notifications", "stream">>, "user", "notifications", "stream")}
  \cup Routed({<<"notifications", "push">>}, "user", "notifications")

LeadRoutes ==
  Routed({<<"auth", "change-password">>}, "user", "identity")
  \cup Routed({<<"leads">>, <<"follow-ups">>, <<"campaigns">>, <<"campaign-types">>,
               <<"lookups">>}, "user", "leads")

LookupRoutes ==
  Routed({<<"lookups">>, <<"capabilities">>, <<"roles">>, <<"tenants">>,
          <<"catalogs">>}, "user", "admin")
  \cup Routed({<<"lookups">>}, "user", "tasks")
  \cup Routed({<<"lookups">>}, "user", "hr")
  \cup Routed({<<"lookups">>}, "user", "leads")

UserRoutes == Routed({<<"users">>, <<"api-clients">>}, "user", "identity")

BranchRoutes ==
  Routed({<<"assignments">>, <<"locations">>, <<"activities">>, <<"analytics">>},
         "user", "leads")
  \cup Routed({<<"orgs">>, <<"lead-sources">>}, "user", "identity")

MetaRoutes ==
  Routed({<<"meta", "crm-event">>, <<"meta", "integration">>}, "user", "meta")
  \cup Routed({<<"meta", "page-org-map">>, <<"meta", "pages">>,
               <<"meta", "campaigns">>, <<"meta", "ad-accounts">>}, "super", "meta")
  \cup {Route(<<"meta", p>>, "super", "meta", "long") : p \in {"campaigns", "ad-accounts"}}

LeadPullRoutes ==
  Routed({<<"meta", "lead-pull">>, <<"meta", "lead-inbox">>}, "super", "meta")
  \cup Routed({<<"lead-assignment">>}, "super", "leads")
  \cup Routed({<<"communications", "status">>}, "user", "communication")
  \cup Routed({<<"communications", "send">>}, "send", "communication")

LeaveRoutes ==
  Routed({<<"hr", "employees">>, <<"hr", "leave">>, <<"hr", "holidays">>}, "user", "hr")

AttendanceRoutes ==
  Routed({<<"hr", "attendance">>, <<"hr", "shifts">>, <<"hr", "geo-exceptions">>,
          <<"hr", "modules">>, <<"hr", "me">>}, "user", "hr")

TaskRoutes ==
  Routed({<<"task-lists">>, <<"tasks">>}, "user", "tasks")
  \cup Routed({<<"dashboard">>, <<"org", "performance">>}, "user", "leads")

Routes ==
  PublicRoutes \cup PartnerRoutes \cup NotificationRoutes \cup LeadRoutes
  \cup LookupRoutes \cup UserRoutes \cup BranchRoutes \cup MetaRoutes
  \cup LeadPullRoutes \cup LeaveRoutes \cup AttendanceRoutes \cup TaskRoutes

\* productForRoute: the licence a family needs, by its prefix.
ProductForRoute(path) ==
  CASE path[1] = "hr" ->
         IF Len(path) > 1 /\ path[2] \in {"employees", "modules"} THEN None ELSE "hr"
    [] path[1] \in {"tasks", "task-lists"} -> "task"
    [] path[1] \in {"leads", "assignments", "campaigns", "follow-ups", "analytics",
                    "activities", "locations", "dashboard"} -> "lms"
    [] path = <<"org", "performance">> -> "lms"
    [] OTHER -> None

\* What the pipeline does with a route.
KindOf(r) == [chain |-> r.chain, product |-> ProductForRoute(r.path), wait |-> r.wait]
RouteKinds == {KindOf(r) : r \in Routes}

ASSUME KindAssumption == Kinds \in [Requests -> SUBSET RouteKinds]
KindsInUse == UNION {Kinds[r] : r \in Requests}
Products == {k.product : k \in KindsInUse} \ {None}

\* The recipients a public send names: users or leads of the tenant, a phone
\* number with less than ten digits, whosever it is, and anybody else.
Recipients == SUBSET {"user", "lead", "short", "stranger"}

\* The steps of a route's chain, and those of every request.
Steps(kind) ==
  {"send", "fetch", "body", "done"} \cup
  CASE kind.chain \in {"open", "limit"} -> {}
    [] kind.chain \in {"key", "limit_key"} -> {"auth"}
    [] kind.chain = "key_send" -> {"auth", "users", "known", "known_body"}
    [] OTHER -> {"auth", "product"}
                \cup (IF kind.product = None THEN {} ELSE {"read", "resume"})
                \cup (IF kind.chain = "user" THEN {} ELSE {"role"})
Pcs == {"auth", "product", "read", "resume", "role", "users", "known",
        "known_body", "send", "fetch", "body", "done"}
Request == [kind: KindsInUse, age: Nat, left: Nat, to: Recipients,
            seen: SUBSET Products, pc: Pcs, status: Nat \cup {None}]

ASSUME NoneAssumption == None \notin Nat \cup Request

----------------------------------------------------------------------------
VARIABLES
  req,       \* the request in a slot: its kind, where it is, what it has seen
  work,      \* external: what the service does for it
  modules,   \* entity.tenant_modules: the products licensed (admin-service)
  gone,      \* history: the ticks since a product was withdrawn
  cache      \* packages/platform-authz: the cached answer of that table

vars == <<req, work, modules, gone, cache>>

Timed == {"read", "resume", "known", "fetch"}
At(r, pc) == req[r] # None /\ req[r].pc = pc
\* On to the next step, which measures its own time.
To(r, pc) ==
  req' = [req EXCEPT ![r].pc = pc, ![r].age = 0, ![r].left = 0, ![r].seen = {}]
Wait(kind) == CASE kind.wait = "long" -> LongTimeout
                [] kind.wait = "stream" -> ConnectTimeout
                [] OTHER -> ProxyTimeout
\* Ages are counted up to here.
Slow(kind) == Wait(kind) + KnownTimeout + MaxRead
Answer(r, status) ==
  req' = [req EXCEPT ![r].pc = "done", ![r].status = status, ![r].to = {},
                     ![r].age = 0, ![r].left = 0, ![r].seen = {}]

Init ==
  /\ req = [r \in Requests |-> None]
  /\ work = [r \in Requests |-> "none"]
  /\ modules = Products
  /\ gone = [p \in Products |-> None]
  /\ cache = None

----------------------------------------------------------------------------
(* The chain.                                                              *)

\* A request comes in; a limited route may answer 429 before anything else
\* (the limiter is module FixedWindow, checked with ApiKeys).
Arrive(r, kind, to) ==
  /\ req[r] = None /\ work[r] = "none"
  /\ \E pc \in (CASE kind.chain = "limit" -> {"send", "done"}
                  [] kind.chain = "limit_key" -> {"auth", "done"}
                  [] kind.chain = "open" -> {"send"}
                  [] OTHER -> {"auth"}) :
       req' = [req EXCEPT ![r] =
         [kind |-> kind, age |-> 0, left |-> 0, to |-> to, seen |-> {}, pc |-> pc,
          status |-> IF pc = "done" THEN 429 ELSE None]]
  /\ UNCHANGED <<work, modules, gone, cache>>

\* Where a request goes that has its licence.
AfterProduct(kind) == IF kind.chain \in {"super", "send"} THEN "role" ELSE "send"

\* authPreHandler, publicApiKeyAuth or the webhook's own key, passed or refused;
\* productGuard lets a caller without a tenant, a super_admin, through.
Authenticate(r) ==
  LET kind == req[r].kind IN
  /\ At(r, "auth")
  /\ \/ Answer(r, 401)
     \/ To(r, CASE kind.chain \in {"key", "limit_key"} -> "send"
                [] kind.chain = "key_send" -> "users"
                [] OTHER -> "product")
     \/ kind.chain \in {"user", "super"} /\ To(r, AfterProduct(kind))
  /\ UNCHANGED <<work, modules, gone, cache>>

Judge(r, products) ==
  IF req[r].kind.product \in products THEN To(r, AfterProduct(req[r].kind))
  ELSE Answer(r, 403)

\* productGuard: an ungated route passes, the cache answers at once, and a
\* miss starts a read.
CheckProduct(r) ==
  LET kind == req[r].kind IN
  /\ At(r, "product")
  /\ IF kind.product = None THEN To(r, AfterProduct(kind))
     ELSE IF cache # None /\ cache.left > 0 THEN Judge(r, cache.products)
     ELSE req' = [req EXCEPT ![r].pc = "read", ![r].age = 0]
  /\ UNCHANGED <<work, modules, gone, cache>>

\* The query sees the table.
ReadModules(r) ==
  /\ At(r, "read")
  /\ req' = [req EXCEPT ![r].pc = "resume", ![r].seen = modules]
  /\ UNCHANGED <<work, modules, gone, cache>>

\* The query fails: nothing is cached, and the guard's exception is a 500.
ReadFails(r) ==
  /\ At(r, "read")
  /\ Answer(r, 500)
  /\ UNCHANGED <<work, modules, gone, cache>>

\* Mutant: the entry's life starts when the answer is stored.
LifeFromStore(r) == TTL

\* expiresAt counts from the moment before the query.
Life(r) == IF req[r].age >= TTL THEN 0 ELSE TTL - req[r].age

\* The answer is back: it is cached, whoever cached what meanwhile.
StoreProducts(r) ==
  /\ At(r, "resume")
  /\ cache' = [products |-> req[r].seen, left |-> Life(r)]
  /\ Judge(r, req[r].seen)
  /\ UNCHANGED <<work, modules, gone>>

\* superAdminGuard, or communicationSendGuard's rank.
CheckRole(r) ==
  /\ At(r, "role")
  /\ \/ Answer(r, 403)
     \/ To(r, "send")
  /\ UNCHANGED <<work, modules, gone, cache>>

----------------------------------------------------------------------------
(* publicCommsGuard.                                                       *)

\* Of the phones, only those with ten digits are looked up; whom the tenant's
\* own users do not account for, leads-service is asked about.
LookedUp(to) == to \ {"short"}
KnownUserContacts(to) == to \cap {"user"}

\* Somebody to send to, the scope of free text, and the query, which may fail.
FindUsers(r) ==
  LET others == LookedUp(req[r].to) \ KnownUserContacts(LookedUp(req[r].to)) IN
  /\ At(r, "users")
  /\ IF req[r].to = {} THEN Answer(r, 400)
     ELSE \/ \E status \in {403, 500} : Answer(r, status)
          \/ others = {} /\ To(r, "send")
          \/ others # {}
             /\ req' = [req EXCEPT ![r].pc = "known", ![r].age = 0,
                                    ![r].left = KnownTimeout]
  /\ UNCHANGED <<work, modules, gone, cache>>

\* leads-service's headers are here; the deadline of the fetch ends with them.
KnownHeaders(r) ==
  /\ At(r, "known")
  /\ To(r, "known_body")
  /\ UNCHANGED <<work, modules, gone, cache>>

\* The recipients it knows; one it was asked about and does not is refused.
KnownAnswers(r) ==
  /\ At(r, "known_body")
  /\ IF LookedUp(req[r].to) \subseteq {"user", "lead"} THEN To(r, "send")
     ELSE Answer(r, 400)
  /\ UNCHANGED <<work, modules, gone, cache>>

\* Mutant: without an answer the recipients pass.
RefuseOpen(r) == To(r, "send")

\* Nobody it was asked about is known.
RefuseUnknown(r) == Answer(r, 400)

\* leads-service is down, too slow, or answers something else.
KnownFails(r) ==
  /\ At(r, "known") \/ At(r, "known_body")
  /\ RefuseUnknown(r)
  /\ UNCHANGED <<work, modules, gone, cache>>

----------------------------------------------------------------------------
(* proxyTo, proxyToRaw and proxySSE.                                       *)

\* Mutant: a fetch without a deadline.
DeadlineNever(kind) == None

Deadline(kind) == Wait(kind)

Send(r) ==
  /\ At(r, "send")
  /\ req' = [req EXCEPT ![r].pc = "fetch", ![r].age = 0,
                        ![r].left = Deadline(req[r].kind)]
  /\ work' = [work EXCEPT ![r] = "running"]
  /\ UNCHANGED <<modules, gone, cache>>

\* External: the service has done its work, whether or not anybody waits.
WorkEnds(r) ==
  /\ work[r] = "running"
  /\ work' = [work EXCEPT ![r] = "done"]
  /\ UNCHANGED <<req, modules, gone, cache>>

\* The upstream's headers: fetch resolves, its timer is cleared.
Headers(r) ==
  /\ At(r, "fetch")
  /\ work[r] = "done"
  /\ req' = [req EXCEPT ![r].pc = "body", ![r].status = 200, ![r].age = 0,
                        ![r].left = 0]
  /\ UNCHANGED <<work, modules, gone, cache>>

\* The stream of the answer ends, or the client of an event stream leaves.
BodyEnds(r) ==
  /\ At(r, "body")
  /\ Answer(r, req[r].status)
  /\ UNCHANGED <<work, modules, gone, cache>>

\* The connection fails: 502, and the service may or may not have the request.
FetchFails(r) ==
  /\ At(r, "fetch")
  /\ Answer(r, 502)
  /\ work' \in {work, [work EXCEPT ![r] = "none"]}
  /\ UNCHANGED <<modules, gone, cache>>

\* The timer aborts the fetch: 504.  The service works on.
FetchTimesOut(r) ==
  /\ At(r, "fetch") /\ req[r].left = 0
  /\ Answer(r, 504)
  /\ UNCHANGED <<work, modules, gone, cache>>

KnownTimesOut(r) == At(r, "known") /\ req[r].left = 0 /\ KnownFails(r)

\* The answer is out and the work is over: the slot is free.
Close(r) ==
  /\ At(r, "done") /\ work[r] # "running"
  /\ req' = [req EXCEPT ![r] = None]
  /\ work' = [work EXCEPT ![r] = "none"]
  /\ UNCHANGED <<modules, gone, cache>>

----------------------------------------------------------------------------
(* The world.                                                              *)

\* admin-service replaces the tenant's modules; it tells nobody.
ChangeModules(p) ==
  /\ modules' = IF p \in modules THEN modules \ {p} ELSE modules \cup {p}
  /\ gone' = [gone EXCEPT ![p] = IF p \in modules THEN 0 ELSE None]
  /\ UNCHANGED <<req, work, cache>>

\* The process is restarted: its memory is lost, the services work on.
Restart ==
  /\ req' = [r \in Requests |-> None]
  /\ work' = [r \in Requests |-> "none"]
  /\ cache' = None
  /\ UNCHANGED <<modules, gone>>

\* Timers that are due fire before time goes on, and a query has ended within
\* MaxRead; nothing is said of how long a service takes.
TimeMayPass ==
  \A r \in Requests : req[r] # None =>
    /\ req[r].pc \in {"fetch", "known"} => req[r].left # 0
    /\ req[r].pc \in {"read", "resume"} => req[r].age < MaxRead

Tick ==
  /\ TimeMayPass
  /\ req' = [r \in Requests |->
       IF req[r] # None /\ req[r].pc \in Timed
       THEN [req[r] EXCEPT !.age = IF @ < Slow(req[r].kind) THEN @ + 1 ELSE @,
                           !.left = IF @ \in {0, None} THEN @ ELSE @ - 1]
       ELSE req[r]]
  /\ gone' = [p \in Products |->
       IF gone[p] = None \/ gone[p] > TTL + MaxRead THEN gone[p] ELSE gone[p] + 1]
  /\ cache' = IF cache = None \/ cache.left = 0 THEN cache
              ELSE [cache EXCEPT !.left = @ - 1]
  /\ UNCHANGED <<work, modules>>

Handle(r) ==
  \/ Authenticate(r) \/ CheckProduct(r)
  \/ ReadModules(r) \/ ReadFails(r) \/ StoreProducts(r)
  \/ CheckRole(r) \/ FindUsers(r) \/ Send(r) \/ FetchTimesOut(r)
  \/ KnownTimesOut(r)

Next ==
  \/ \E r \in Requests : \E kind \in Kinds[r] :
       \E to \in (IF kind.chain = "key_send" THEN Recipients ELSE {{}}) :
         Arrive(r, kind, to)
  \/ \E r \in Requests :
       \/ Handle(r) \/ Close(r)
       \/ WorkEnds(r) \/ Headers(r) \/ BodyEnds(r) \/ FetchFails(r)
       \/ KnownHeaders(r) \/ KnownAnswers(r) \/ KnownFails(r)
  \/ \E p \in Products : ChangeModules(p)
  \/ Restart
  \/ Tick

\* What the process, its timers and its database do by themselves, and time.
\* Nothing is assumed of the services: one that never answers, never closes a
\* connection and never stops working is among the behaviours.  Strong for
\* Tick: no stream of requests, each of which Tick waits for, stops the clock.
Fairness ==
  /\ SF_vars(Tick)
  /\ \A r \in Requests : WF_vars(Handle(r))

Spec == Init /\ [][Next]_vars
FairSpec == Spec /\ Fairness

----------------------------------------------------------------------------
(* Properties.                                                             *)

(* A request is at a step of its route's chain; while it waits for a         *)
(* service, the ticks that have passed and those that are left add up to     *)
(* its deadline.  Work runs in a slot only for a request that got as far.    *)
TypeOK ==
  /\ req \in [Requests -> Request \cup {None}]
  /\ work \in [Requests -> {"none", "running", "done"}]
  /\ modules \subseteq Products
  /\ gone \in [Products -> Nat \cup {None}]
  /\ cache \in [products: SUBSET Products, left: 0..TTL] \cup {None}
  /\ \A r \in Requests : req[r] # None =>
       /\ req[r].pc \in Steps(req[r].kind)
       /\ req[r].pc = "fetch" => req[r].age + req[r].left = Wait(req[r].kind)
       /\ req[r].pc = "known" => req[r].age + req[r].left = KnownTimeout
       /\ req[r].age <= Slow(req[r].kind)
       /\ (req[r].status = None) = (req[r].pc \notin {"body", "done"})
       /\ req[r].pc \in {"fetch", "body"} => work[r] # "none"
  /\ \A r \in Requests : req[r] = None => work[r] = "none"
  /\ \A p \in Products : (gone[p] = None) = (p \in modules)

(* The 60 s entitlement cache, whose reads overlap and are stored in any    *)
(* order: whoever is let through for a product has had it less than a TTL   *)
(* ago, or during the request's own query.                                  *)
EntitlementsAreRecent ==
  [][\A r \in Requests :
       /\ At(r, "product") \/ At(r, "resume")
       /\ req'[r] # None /\ req'[r].pc \in {"role", "send"}
       /\ req[r].kind.product # None /\ req[r].kind.product \notin modules
       => \/ gone[req[r].kind.product] < TTL
          \/ At(r, "resume") /\ gone[req[r].kind.product] <= req[r].age]_vars

(* The public send fails closed, however its two lookups end: what leaves    *)
(* for communication-service names somebody, and nobody but users and leads  *)
(* of the tenant -- "every email/phone must resolve to a platform user OR an *)
(* LMS lead" -- save for the phone numbers with less than ten digits, which  *)
(* the guard does not look up.                                               *)
OnlyShortPhonesGoUnchecked ==
  \A r \in Requests :
    req[r] # None /\ req[r].kind.chain = "key_send" /\ req[r].pc \in {"fetch", "body"}
    => req[r].to # {} /\ req[r].to \subseteq {"user", "lead", "short"}

(* No service can hold a request without a status, not even one that never   *)
(* answers: the chain's own steps and the three deadlines end it, or the     *)
(* headers are in of an answer whose body nothing bounds.                    *)
EveryRequestIsAnswered ==
  \A r \in Requests :
    (req[r] # None /\ req[r].pc \notin {"body", "known_body"})
    ~> (req[r] = None \/ req[r].pc \in {"done", "body", "known_body"})

============================================================================
