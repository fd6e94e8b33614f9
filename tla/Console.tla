------------------------------ MODULE Console -------------------------------
(***************************************************************************)
(* The admin console: the shell with the branding module as its resolver,  *)
(* and the browser of an operator of each tenant. The application is built *)
(* first and serves requests then. ServeHTTP of shell.go resolves the      *)
(* profile of the tenant, sends those who have not completed their setup   *)
(* to the branding page, and renders what was asked for; others save       *)
(* meanwhile. The pages name the logo by an address that changes with      *)
(* every save, and the browser keeps what it has got from an address.      *)
(***************************************************************************)
EXTENDS Naturals, FiniteSets, Sequences

CONSTANTS
    Modules, Managed, Base, StoreFails, Nobody,
    Tenants, Logos, Calls, Faulty, PerSecond, MaxTime,
    NoRow, NoLogo, NoTenant, NoRequest, Never,
    Paths       \* what operators ask for

VARIABLES
    resources, pages, sidebar, checks, building, up,
    now, row, call,
    serving,    \* whether the application is built and listens
    request,    \* what the browser of each tenant waits for: see Requests
    view,       \* what the browser of each tenant shows: see Seen
    cache       \* what it has got from the addresses of logos

Shell == INSTANCE AdminShell
Brand == INSTANCE Branding

vars == <<resources, pages, sidebar, checks, building, up, now, row, call,
          serving, request, view, cache>>

Seconds == 0 .. MaxTime \div PerSecond

\* A request whose profile has been resolved, or could not be, and what was in it.
\* settled: whether a save or a skip had been answered by then; bookkeeping for
\* properties, which nothing reads.
Requests == [ path : Paths, resolved : BOOLEAN, complete : BOOLEAN,
              url : Seconds \union {Never}, settled : BOOLEAN ]

ASSUME ConsoleOK ==
    /\ Managed \subseteq Modules \ {"auth_management"}
    /\ "branding_management" \in Managed
    /\ Modules \subseteq Shell!Packages
    /\ {StoreFails, Faulty} \subseteq BOOLEAN
    /\ PerSecond \in Nat \ {0} /\ MaxTime \in Nat
    /\ Nobody \notin Modules /\ NoLogo \notin Logos /\ NoTenant \notin Tenants
    /\ Never \notin Nat /\ NoRow \notin Brand!Rows \union Brand!Records
    /\ NoRequest \notin Requests

Places == {"none", "setup", "page", "home", "list", "form", "not found", "error"}

\* The place that was served, and the address of the logo in it.
Seen(place, url) == [place |-> place, url |-> url]

BrandingPage == <<Base, "branding">>

Elsewhere == UNCHANGED <<resources, pages, sidebar, checks, building, up, now, row, call>>

-----------------------------------------------------------------------------
(* Faults: what a definition would be with a plausible bug.                 *)

\* The gate sends the branding page to itself.
GatedEverywhere(q) == q.resolved /\ ~q.complete

-----------------------------------------------------------------------------

\* The first-login gate. A resolver that fails lets everybody pass.
Gated(q) == q.resolved /\ ~q.complete /\ q.path # BrandingPage

\* The branding page resolves the profile once more, by itself, and fails if it cannot;
\* the chrome of another page without a profile is the stock one.
Rendered(t, q) ==
    LET place == Shell!Route(q.path) IN
    CASE place = "page"      -> {Seen(place, Brand!LogoURL(t))}
                                \union (IF Faulty THEN {Seen("error", Never)} ELSE {})
      [] place = "not found" -> {Seen(place, Never)}
      [] OTHER               -> {Seen(place, q.url)}

Served(t, q) == IF Gated(q) THEN {Seen("setup", Never)} ELSE Rendered(t, q)

Serve ==
    /\ ~serving /\ up = Modules /\ Shell!Reached("none")
    /\ serving' = TRUE
    /\ UNCHANGED <<request, view, cache>> /\ Elsewhere

\* A request comes in, and the profile is resolved, once, for the gate and the chrome.
Visit(t, path) ==
    /\ serving /\ request[t] = NoRequest
    /\ \E resolved \in {TRUE, ~Faulty} :
           request' = [request EXCEPT ![t] =
               [ path |-> path, resolved |-> resolved,
                 complete |-> resolved /\ Brand!SetupComplete(t),
                 url |-> IF resolved THEN Brand!LogoURL(t) ELSE Never,
                 settled |-> Brand!Saved(t) ]]
    /\ UNCHANGED <<serving, view, cache>> /\ Elsewhere

\* The gate, or the page.
Respond(t) ==
    /\ request[t] # NoRequest
    /\ request' = [request EXCEPT ![t] = NoRequest]
    /\ \E v \in Served(t, request[t]) : view' = [view EXCEPT ![t] = v]
    /\ UNCHANGED <<serving, cache>> /\ Elsewhere

\* GET of the logo a page names: whatever address was asked for, it is the logo of
\* now, and nothing is kept when there is none.
FetchLogo(t) ==
    /\ serving /\ view[t].url # Never
    /\ cache[t][view[t].url] = NoLogo
    /\ row[t].logo # NoLogo
    /\ cache' = [cache EXCEPT ![t][view[t].url] = row[t].logo]
    /\ UNCHANGED <<serving, request, view>> /\ Elsewhere

\* max-age has passed, or the browser wants the room.
Forget(t, s) ==
    /\ cache[t][s] # NoLogo
    /\ cache' = [cache EXCEPT ![t][s] = NoLogo]
    /\ UNCHANGED <<serving, request, view>> /\ Elsewhere

Build ==
    /\ ~serving /\ Shell!Build
    /\ UNCHANGED <<now, row, call, serving, request, view, cache>>

Branded ==
    /\ serving /\ Brand!Next
    /\ UNCHANGED <<resources, pages, sidebar, checks, building, up,
                   serving, request, view, cache>>

Init ==
    /\ Shell!Init /\ Brand!Init
    /\ serving = FALSE
    /\ request = [t \in Tenants |-> NoRequest]
    /\ view = [t \in Tenants |-> Seen("none", Never)]
    /\ cache = [t \in Tenants |-> [s \in Seconds |-> NoLogo]]

Next ==
    \/ Build \/ Serve \/ Branded
    \/ \E t \in Tenants :
        \/ \E path \in Paths : Visit(t, path)
        \/ Respond(t)
        \/ FetchLogo(t)
        \/ \E s \in Seconds : Forget(t, s)

Spec == Init /\ [][Next]_vars

-----------------------------------------------------------------------------
(* Properties *)

TypeOK ==
    /\ Shell!TypeOK /\ Brand!TypeOK
    /\ serving \in BOOLEAN
    /\ request \in [Tenants -> Requests \union {NoRequest}]
    /\ view \in [Tenants -> [place : Places, url : Seconds \union {Never}]]
    /\ cache \in [Tenants -> [Seconds -> Logos \union {NoLogo}]]

\* SidebarSections promises "one group per distinct label, in Order" (shell.go:283)
\* and sidebar items "a route the shell actually serves" (portslib.go:48): in whichever
\* order modules are built, and again after errors, the rail is the one the modules
\* declare and what is up is in it once. Under another base path than "/admin" the
\* links of the reference modules lead nowhere.
RailIsRight ==
    /\ Shell!RailIsGrouped
    /\ Shell!WhatIsUpIsThere
    /\ Base = "/admin" => Shell!LinksResolve

\* "Incomplete setup redirects to the branding page" (options.go:37). Nobody is sent
\* there who came after a save or skip was answered, whose profile could not be resolved
\* ("degrades to the default chrome instead of redirect-looping", shell.go:367), who is
\* there already, or before anything is there; and nobody whose profile was resolved
\* gets past it before some save or skip has sent its statement.
SetupIsFinal ==
    [][\A t \in Tenants : LET q == request[t] IN
        q # NoRequest /\ request'[t] = NoRequest =>
            IF view'[t].place = "setup"
            THEN /\ q.resolved /\ ~q.settled /\ q.path # BrandingPage
                 /\ Shell!Route(BrandingPage) = "page"
            ELSE q.resolved /\ q.path # BrandingPage =>
                     \E c \in Calls : call[c].tenant = t /\ Brand!Sent(c)]_<<request, view>>

\* What a save was not given it keeps, see Branding.
NotGivenIsKept == Brand!NotGivenIsKept

\* LogoURL is "a cache-busting servable route derived from UpdatedAt" (service.go:315):
\* what a browser has for the address of today's logo is no older than the second of
\* the last save, although pages and logos are got by different requests. It may be
\* older where a save waited so long between the clock and its statement that one of a
\* later second was there before it: then the address is one that was used already.
InTime(t) == Brand!Second(row[t].updated) = Brand!Second(row[t].newest)

LogoIsCurrent ==
    \A t \in Tenants :
        Brand!LogoURL(t) # Never /\ InTime(t) =>
            cache[t][Brand!LogoURL(t)] \in row[t].shown \union {NoLogo}

-----------------------------------------------------------------------------
(* The inductive invariant behind all of them.                              *)

\* Addresses are of seconds no later than the latest in which the tenant has been
\* written, so that none is known, and nothing kept under it, before that second.
Known(t, s) ==
    \/ view[t].url = s \/ cache[t][s] # NoLogo
    \/ request[t] # NoRequest /\ request[t].url = s

AddressInv ==
    \A t \in Tenants : \A s \in Seconds :
        Known(t, s) => row[t] # NoRow /\ s <= Brand!Second(row[t].newest)

CacheInv ==
    \A t \in Tenants : row[t] # NoRow =>
        cache[t][Brand!Second(row[t].newest)] \in row[t].shown \union {NoLogo}

\* What was resolved is what a save or skip had written by then, or its absence.
RequestInv ==
    \A t \in Tenants : LET q == request[t] IN q # NoRequest =>
        /\ serving
        /\ q.complete => q.resolved /\ row[t] # NoRow
        /\ q.resolved /\ q.settled => q.complete

ServingInv == serving => up = Modules

IInv ==
    /\ TypeOK
    /\ Shell!BuildInv /\ Shell!UpInv /\ Shell!SectionInv /\ ServingInv
    /\ Brand!RowInv /\ Brand!CallInv
    /\ RequestInv /\ AddressInv /\ CacheInv

=============================================================================
