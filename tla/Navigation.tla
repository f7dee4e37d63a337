----------------------------- MODULE Navigation -----------------------------
(***************************************************************************)
(* One browser tab among the web apps, which share one session cookie.     *)
(* Each app decides for itself where a request without a usable session    *)
(* goes: the middleware by the cookie's claims alone, the pages behind it  *)
(* by asking the gateway, the login pages by asking it too.  A load is one *)
(* response: a redirect, or a page that is shown.                          *)
(***************************************************************************)
EXTENDS Naturals, FiniteSets

CONSTANTS MaxRedirects, None

VARIABLES
  cookie,    \* claims of the session cookie, or None
  live,      \* the gateway would still accept it
  gateway,   \* the gateway answers
  account,   \* what identity has of the person using the tab
  at,        \* the address: app, page and callback
  shown,     \* what the page shows, or None while it loads
  redirects, \* history: redirects since something last changed
  wanted     \* history: the page a redirect to the login is to come back to

tab == <<cookie, live, gateway, account, at, shown, redirects, wanted>>

\* In the order in which a landing is chosen.
Products == {"lms", "hr"}
Consoles == {"admin", "lookup"}
Accounts == [forced: BOOLEAN, opens: SUBSET (Products \cup Consoles),
             branches: {1, 2}, tenantWide: BOOLEAN]
Licences == {{"lms", "hr"}, {"hr"}}

Page(app, page) == [app |-> app, page |-> page, callback |-> None]
Auth(page, callback) == [app |-> "auth", page |-> page, callback |-> callback]
Landing(product) == Page(product, "home")

\* Every page a user may ask for by address or link.
Entrances ==
  {Page(a, p) : a \in Products \cup Consoles, p \in {"home", "deep"}}
    \cup {Page(c, "login") : c \in Consoles}
    \cup {Auth(p, None) : p \in {"login", "select", "password", "no-access"}}

Init ==
  /\ cookie = None /\ live = FALSE /\ gateway = TRUE
  /\ account \in Accounts
  /\ at = Auth("login", None) /\ shown = None
  /\ redirects = 0 /\ wanted = None

----------------------------------------------------------------------------
(* What changes by itself: every count of redirects starts anew. *)

Changes == redirects' = 0 /\ wanted' = None /\ UNCHANGED at

\* Revocation, expiry, or an administrator's reset of the password.
SessionEnds ==
  /\ live
  /\ live' = FALSE
  /\ account' \in {account, [account EXCEPT !.forced = TRUE]}
  /\ UNCHANGED <<cookie, gateway, shown>>
  /\ Changes

GatewayFlips ==
  /\ gateway' = ~gateway
  /\ UNCHANGED <<cookie, live, account, shown>>
  /\ Changes

----------------------------------------------------------------------------
(* Where a response leads. *)

Go(place) ==
  /\ at' = place /\ shown' = None
  /\ UNCHANGED <<cookie, live, gateway, account>>

Redirect(place) == Go(place) /\ redirects' = redirects + 1

Show(what) ==
  /\ shown' = what
  /\ UNCHANGED <<cookie, live, gateway, account, at, redirects, wanted>>

\* getServerSession: the token verifies and /auth/me confirms it.
ServerSession == cookie # None /\ live /\ gateway

UsableProducts(licensed) == licensed \cap account.opens

\* The first usable product, in order; the last screen if there is none.
SessionDestination(licensed) ==
  LET usable == UsableProducts(licensed) IN
  IF "lms" \in usable THEN Landing("lms")
  ELSE IF "hr" \in usable THEN Landing("hr")
  ELSE Auth("no-access", None)

Or(callback, place) == IF callback # None THEN callback ELSE place

\* Mutant: the callback is built from the port the server listens on, which
\* is the published port of another app.
CallbackOfTheListener(place) ==
  IF place.app = "lookup" THEN [place EXCEPT !.app = "lms"] ELSE place

\* bounce: the app's own public address, and the path.
CallbackOf(place) == place

----------------------------------------------------------------------------
(* The loads. *)

Guarded == at.page \in {"home", "deep"}

\* createProductMiddleware, in front of every page of a product or console.
Bounce ==
  /\ shown = None /\ Guarded /\ cookie = None
  /\ Redirect(Auth("login", CallbackOf(at)))
  /\ wanted' = at

ForcePasswordChange ==
  /\ shown = None /\ Guarded /\ cookie # None /\ cookie.forced
  /\ Redirect(Auth("password", None))
  /\ wanted' = None

Passed == shown = None /\ Guarded /\ cookie # None /\ ~cookie.forced

\* requireSession, the layout of the products: the path to come back to is the
\* one its caller, a product's layout, has fixed.
LoadProduct ==
  /\ Passed /\ at.app \in Products
  /\ IF ~ServerSession
     THEN \E page \in {"home", "deep"} :
            LET back == Page(at.app, page) IN
            Redirect(Auth("login", CallbackOf(back))) /\ wanted' = back
     ELSE IF account.forced THEN Redirect(Auth("password", None)) /\ wanted' = None
     ELSE Show("page")

\* Mutant: a user the console does not admit is sent to its login page.
LoadConsoleStrict ==
  /\ Passed /\ at.app \in Consoles
  /\ IF ~ServerSession \/ at.app \notin account.opens
     THEN Redirect(Page(at.app, "login")) /\ wanted' = None
     ELSE Show("page")

\* The dashboard layouts of admin-web and lookup-admin: a console that does
\* not admit the user says so in place.
LoadConsole ==
  /\ Passed /\ at.app \in Consoles
  /\ IF ~ServerSession THEN Redirect(Page(at.app, "login")) /\ wanted' = None
     ELSE Show(IF at.app \in account.opens THEN "page" ELSE "restricted")

\* The consoles' own login pages, from single-host days.
LoadConsoleLogin ==
  /\ shown = None /\ at.app \in Consoles /\ at.page = "login"
  /\ IF ServerSession THEN Redirect(Page(at.app, "home")) /\ UNCHANGED wanted
     ELSE Show("form")

LoadLogin ==
  /\ shown = None /\ at.app = "auth" /\ at.page = "login"
  /\ IF ServerSession
     THEN Redirect(Or(at.callback, SessionDestination(cookie.licensed))) /\ UNCHANGED wanted
     ELSE Show("form")

LoadSelectBranch ==
  /\ shown = None /\ at.app = "auth" /\ at.page = "select"
  /\ IF ~ServerSession THEN Redirect(Auth("login", at.callback)) /\ UNCHANGED wanted
     ELSE Show("branches")

LoadChangePassword ==
  /\ shown = None /\ at.app = "auth" /\ at.page = "password"
  /\ IF ~ServerSession THEN Redirect(Auth("login", None)) /\ wanted' = None
     ELSE Show("form")

LoadNoAccess ==
  /\ shown = None /\ at.app = "auth" /\ at.page = "no-access"
  /\ IF ~ServerSession THEN Redirect(Auth("login", None)) /\ UNCHANGED wanted
     ELSE IF UsableProducts(cookie.licensed) # {}
     THEN Redirect(SessionDestination(cookie.licensed)) /\ UNCHANGED wanted
     ELSE Show("no access")

----------------------------------------------------------------------------
(* What the user does. *)

Assign(place) == at' = place /\ shown' = None /\ redirects' = 0

\* An address, a link, or the reload a refused request of the page causes.
Visit(place) ==
  /\ Assign(place)
  /\ wanted' = None
  /\ UNCHANGED <<cookie, live, gateway, account>>

\* The page asks the gateway, which refuses: the page is loaded again.
HandleUnauthorized ==
  /\ shown = "page" /\ ~live
  /\ Assign(at)
  /\ UNCHANGED <<cookie, live, gateway, account, wanted>>

Mint(forced, licensed) ==
  /\ gateway
  /\ cookie' = [forced |-> forced, licensed |-> licensed]
  /\ live' = TRUE
  /\ UNCHANGED gateway

\* auth-web's form: several branches are chosen from first, if their list
\* can be had and no password change is due.
LoginHere(licensed) ==
  LET product == Or(at.callback, SessionDestination(licensed)) IN
  /\ shown = "form" /\ at.app = "auth" /\ at.page = "login"
  /\ Mint(account.forced, licensed)
  /\ \/ Assign(product)
     \/ ~account.forced /\ ~account.tenantWide /\ account.branches > 1
        /\ Assign(Auth("select", product))
  /\ UNCHANGED <<account, wanted>>

\* The consoles' forms know no branches.
LoginAtConsole(licensed) ==
  /\ shown = "form" /\ at.app \in Consoles
  /\ Mint(account.forced, licensed)
  /\ Assign(Page(at.app, "home"))
  /\ UNCHANGED <<account, wanted>>

\* SelectBranchList: the branch chosen re-mints the session; a single branch
\* and a list that cannot be had go straight on.
SelectBranch ==
  LET next == Or(at.callback, SessionDestination(cookie.licensed)) IN
  /\ shown = "branches"
  /\ Assign(next)
  /\ \/ account.branches > 1 /\ live /\ Mint(cookie.forced, cookie.licensed)
     \/ UNCHANGED <<cookie, live, gateway>>
  /\ UNCHANGED <<account, wanted>>

ChangePassword ==
  /\ shown = "form" /\ at.app = "auth" /\ at.page = "password" /\ live
  /\ Mint(FALSE, cookie.licensed)
  /\ account' = [account EXCEPT !.forced = FALSE]
  /\ Assign(Or(at.callback, SessionDestination(cookie.licensed)))
  /\ UNCHANGED wanted

\* UserMenu leads to the same page, and back.
AskToChangePassword ==
  /\ shown = "page"
  /\ Visit(Auth("password", at))

\* The switcher drops down when there is a choice, "All branches" included.
SwitchOffered == shown = "page" /\ (account.branches > 1 \/ account.tenantWide)

\* BranchSwitcher: the role in the other branch may open other consoles and
\* products; the page is loaded again as it stands.
SwitchBranch(opens) ==
  /\ SwitchOffered /\ live
  /\ Mint(cookie.forced, cookie.licensed)
  /\ account' = [account EXCEPT !.opens = opens]
  /\ Assign(at)
  /\ wanted' = None

\* A logout that fails leaves the cookie, and goes to a login all the same:
\* the console's own from a console that does not admit the user.
SignOut ==
  /\ shown \in {"page", "restricted", "no access"}
  /\ \/ cookie' = None /\ live' = FALSE
     \/ UNCHANGED <<cookie, live>>
  /\ Assign(IF shown = "restricted" THEN Page(at.app, "login") ELSE Auth("login", None))
  /\ wanted' = None
  /\ UNCHANGED <<gateway, account>>

Next ==
  \/ SessionEnds \/ GatewayFlips
  \/ Bounce \/ ForcePasswordChange \/ LoadProduct \/ LoadConsole \/ LoadConsoleLogin
  \/ LoadLogin \/ LoadSelectBranch \/ LoadChangePassword \/ LoadNoAccess
  \/ \E place \in Entrances : Visit(place)
  \/ HandleUnauthorized
  \/ \E licensed \in Licences : LoginHere(licensed) \/ LoginAtConsole(licensed)
  \/ SelectBranch \/ ChangePassword \/ AskToChangePassword
  \/ \E opens \in SUBSET {"lms", "lookup"} : SwitchBranch(opens)
  \/ SignOut

Spec == Init /\ [][Next]_tab

----------------------------------------------------------------------------
TypeOK ==
  /\ cookie # None => cookie.licensed \in Licences
  /\ live => cookie # None
  /\ account \in Accounts
  /\ shown \in {None, "page", "restricted", "form", "branches", "no access"}

(* "The old redirect looped forever -- the login page saw a valid session    *)
(* and bounced straight back here": once nothing changes any more, whatever  *)
(* the cookie claims, the gateway answers and the account may open, every    *)
(* request ends on a page after at most MaxRedirects redirects.              *)
RedirectsEnd == redirects <= MaxRedirects

(* A request that was redirected to the login comes back, through the form   *)
(* and the choice of a branch, to the page it was for, and to no other app's *)
(* -- or, when not the middleware but a product's layout turned it away, to  *)
(* the page of that product which the layout names -- unless the user goes   *)
(* elsewhere, a password change is due or the session ends again.            *)
LoginReturnsToTheRequest ==
  wanted # None /\ shown \in {"page", "restricted"} => at = wanted

=============================================================================
