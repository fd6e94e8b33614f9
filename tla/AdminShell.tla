----------------------------- MODULE AdminShell -----------------------------
(***************************************************************************)
(* The admin shell, src/pkg/admin/shell.go, while the application is built *)
(* and after: NewModule of every package opens its store and registers a   *)
(* resource or a page, a section of the sidebar and a health check, one    *)
(* after the other; the shell refuses what it has already, merges sections *)
(* of one label into one group of the rail, and routes paths.              *)
(*                                                                         *)
(* A path is the sequence of its segments, the base path being the first.  *)
(***************************************************************************)
EXTENDS Naturals, FiniteSets, Sequences, SequencesExt

CONSTANTS
    Modules,    \* the packages the application composes, see Declared
    Managed,    \* those of them that register with the admin shell
    Base,       \* the path the shell is mounted under
    StoreFails, \* whether opening a store may fail
    Nobody

VARIABLES
    resources, pages, sidebar,  \* the registries, in the order of registration
    checks,                     \* names in the health registry
    building,                   \* what is under construction, and how far it is
    up                          \* modules whose NewModule has returned one

vars == <<resources, pages, sidebar, checks, building, up>>

-----------------------------------------------------------------------------
(* What the packages register: their admin.go. An item of the sidebar is    *)
(* given its path, "/admin" included, whatever the shell is mounted under.  *)

NoResource == [entity |-> "", columns |-> <<>>, fields |-> <<>>, may |-> {}, when |-> {}]

Declaration(label, order, item, page, resource) ==
    [label |-> label, order |-> order, item |-> item, page |-> page, resource |-> resource]

Listed(m, label, order, resource) ==
    Declaration(label, order, <<"/admin", m, resource.entity>>, <<>>, resource)

Tenant == Listed("tenant_management", "Workspace", 10,
    [ entity |-> "Tenant", columns |-> <<"name", "slug", "updated_at">>,
      fields |-> <<"name", "slug">>, may |-> {"edit"}, when |-> {} ])

User == Listed("user_management", "Access", 20,
    [ entity |-> "User",
      columns |-> <<"display_name", "email", "username", "active", "created_at">>,
      fields |-> <<"display_name", "email", "username", "password", "active">>,
      may |-> {"create", "edit", "delete"}, when |-> {} ])

APIKey == Listed("api_key_management", "Access", 30,
    [ entity |-> "APIKey",
      columns |-> <<"name", "prefix", "scopes", "last_used_at", "expires_at">>,
      fields |-> <<"name", "scopes", "ttl_seconds">>,
      may |-> {"create", "delete"}, when |-> {} ])

Content == Listed("content_management", "Publishing", 40,
    [ entity |-> "Content",
      columns |-> <<"title", "kind", "slug", "published_at", "updated_at">>,
      fields |-> <<"title", "slug", "kind", "body_format", "body">>,
      may |-> {"create", "edit", "delete"},
      when |-> {[field |-> "published_at", operator |-> op, value |-> ""] :
                op \in {"empty", "not_empty"}} ])

Notification == Listed("notification_management", "Operations", 50,
    [ entity |-> "Notification", columns |-> <<"title", "category", "severity", "emitted_at">>,
      fields |-> <<"title", "category", "severity", "body">>,
      may |-> {"create"}, when |-> {} ])

Audit == Listed("audit_management", "Operations", 90,
    [ entity |-> "AuditEvent",
      columns |-> <<"emitted_at", "actor", "action", "resource", "severity">>,
      fields |-> <<>>, may |-> {}, when |-> {} ])

Health == Listed("health_management", "Operations", 80,
    [ entity |-> "Health", columns |-> <<"status", "checks">>, fields |-> <<>>,
      may |-> {}, when |-> {} ])

\* A page of its own under the base path it is told, which here is the shell's.
Branding == Declaration("Workspace", 95, <<Base, "branding">>, <<Base, "branding">>, NoResource)

\* Of these, auth_management registers nothing with the registrar it is given.
Packages ==
    { "auth_management", "tenant_management", "user_management", "api_key_management",
      "content_management", "notification_management", "audit_management",
      "health_management", "branding_management" }

Declared(m) ==
    CASE m = "tenant_management"       -> Tenant
      [] m = "user_management"         -> User
      [] m = "api_key_management"      -> APIKey
      [] m = "content_management"      -> Content
      [] m = "notification_management" -> Notification
      [] m = "audit_management"        -> Audit
      [] m = "health_management"       -> Health
      [] m = "branding_management"     -> Branding

\* In the order of the alphabet, by which sections of one Order are sorted.
Labels == <<"Access", "Operations", "Publishing", "Workspace">>
Rank(label) == CHOOSE i \in DOMAIN Labels : Labels[i] = label

-----------------------------------------------------------------------------
(* The shell *)

Distinct(s) == Cardinality(ToSet(s)) = Len(s)

\* A condition on a row compares a field with a value, or asks whether it is empty.
Sound(c) ==
    /\ c.field # ""
    /\ c.operator \in {"equals", "empty", "not_empty"}
    /\ (c.operator = "equals") = (c.value # "")

\* normalizeResource: names, a column, no key twice, conditions that can be evaluated.
Complete(r) ==
    /\ r.entity # "" /\ r.columns # <<>>
    /\ Distinct(r.columns) /\ Distinct(r.fields)
    /\ \A c \in r.when : Sound(c)

HasResource(m, r) == \E x \in ToSet(resources) : x.module = m /\ x.entity = r.entity
HasPage(m, path) == \E x \in ToSet(pages) : x.module = m /\ x.path = path
HasSection(m, label) == \E x \in ToSet(sidebar) : x.module = m /\ x.label = label

\* The stable sort of SidebarSections, as the indices of the sections.
Sooner(i, j) ==
    LET a == sidebar[i]  b == sidebar[j] IN
    \/ a.order < b.order
    \/ a.order = b.order /\ Rank(a.label) < Rank(b.label)
    \/ a.order = b.order /\ a.label = b.label /\ i < j

\* A section stands after all those that go before it.
Place(i) == 1 + Cardinality({j \in DOMAIN sidebar : Sooner(j, i)})
Members == [n \in DOMAIN sidebar |-> sidebar[CHOOSE i \in DOMAIN sidebar : Place(i) = n]]

Joined(out, member) ==
    IF \E g \in DOMAIN out : out[g].label = member.label
    THEN [g \in DOMAIN out |-> IF out[g].label = member.label
            THEN [out[g] EXCEPT !.items = @ \o member.items] ELSE out[g]]
    ELSE Append(out, member)

\* A fault: sections that follow one another under one label only.
JoinedToTheLast(out, member) ==
    IF out # <<>> /\ out[Len(out)].label = member.label
    THEN [out EXCEPT ![Len(out)].items = @ \o member.items]
    ELSE Append(out, member)

Merged(out, member) == Joined(out, member)

\* The groups of the first n members.
Groups[n \in 0 .. Len(sidebar)] ==
    IF n = 0 THEN <<>> ELSE Merged(Groups[n - 1], Members[n])

SidebarSections == Groups[Len(sidebar)]

\* ServeHTTP behind the gate: pages, home, then lists and forms.
Route(path) ==
    IF \E x \in ToSet(pages) : x.path = path THEN "page"
    ELSE IF path = <<Base>> THEN "home"
    ELSE LET found == {x \in ToSet(resources) :
                 Len(path) > 2 /\ SubSeq(path, 1, 3) = <<Base, x.module, x.entity>>}
         IN  IF \E x \in found : Len(path) = 3 THEN "list"
             ELSE IF \E x \in found : /\ Len(path) = 4
                                      /\ (IF path[4] = "new" THEN "create" ELSE "edit") \in x.may
             THEN "form" ELSE "not found"

\* What the home page counts as areas.
ModulesSummary == {x.module : x \in ToSet(resources) \union ToSet(pages)}

-----------------------------------------------------------------------------

\* NewModule: the store, which the health module does not have, the admin surface when
\* there is a registrar, and the check.
Surface(m) ==
    IF m \notin Managed THEN "health"
    ELSE IF Declared(m).page # <<>> THEN "page" ELSE "resource"

NextStep(m, at) ==
    CASE at = "none"     -> IF m = "health_management" THEN Surface(m) ELSE "store"
      [] at = "store"    -> Surface(m)
      [] at = "resource" -> "section"
      [] at = "page"     -> "section"
      [] at = "section"  -> "health"

Reached(at) == building.at = at
GoOn == building' = [building EXCEPT !.at = NextStep(building.module, building.at)]
Fail == building' = [module |-> Nobody, at |-> "none"]

\* The application builds one module after the other; nothing stops it from building
\* one twice, or again after an error.
NewModule(m) ==
    /\ Reached("none")
    /\ building' = [module |-> m, at |-> NextStep(m, "none")]
    /\ UNCHANGED <<resources, pages, sidebar, checks, up>>

\* Open of the store: the database, and its migrations, see Migrate.
Opens == {TRUE, ~StoreFails}

OpenStore ==
    /\ Reached("store")
    /\ \E opened \in Opens : IF opened THEN GoOn ELSE Fail
    /\ UNCHANGED <<resources, pages, sidebar, checks, up>>

RegisterResource ==
    /\ Reached("resource")
    /\ LET m == building.module  r == Declared(m).resource IN
       IF Complete(r) /\ ~HasResource(m, r)
       THEN /\ resources' = Append(resources,
                  [module |-> m, entity |-> r.entity, may |-> r.may])
            /\ GoOn
       ELSE Fail /\ UNCHANGED resources
    /\ UNCHANGED <<pages, sidebar, checks, up>>

RegisterPage ==
    /\ Reached("page")
    /\ LET m == building.module  path == Declared(m).page IN
       IF ~HasPage(m, path)
       THEN pages' = Append(pages, [module |-> m, path |-> path]) /\ GoOn
       ELSE Fail /\ UNCHANGED pages
    /\ UNCHANGED <<resources, sidebar, checks, up>>

RegisterSidebarSection ==
    /\ Reached("section")
    /\ LET m == building.module  d == Declared(m) IN
       IF ~HasSection(m, d.label)
       THEN /\ sidebar' = Append(sidebar, [module |-> m, label |-> d.label,
                  order |-> d.order, items |-> <<d.item>>])
            /\ GoOn
       ELSE Fail /\ UNCHANGED sidebar
    /\ UNCHANGED <<resources, pages, checks, up>>

\* The check of the store, which all but the health module itself have.
RegisterHealth ==
    /\ Reached("health")
    /\ checks' = checks \union ({building.module} \ {"health_management"})
    /\ up' = up \union {building.module}
    /\ building' = [module |-> Nobody, at |-> "none"]
    /\ UNCHANGED <<resources, pages, sidebar>>

Init ==
    /\ resources = <<>> /\ pages = <<>> /\ sidebar = <<>>
    /\ checks = {} /\ up = {}
    /\ building = [module |-> Nobody, at |-> "none"]

Build ==
    \/ \E m \in Modules : NewModule(m)
    \/ OpenStore
    \/ RegisterResource \/ RegisterPage \/ RegisterSidebarSection
    \/ RegisterHealth

-----------------------------------------------------------------------------

TypeOK ==
    /\ resources \in Seq([ module : Managed,
                           entity : {Declared(m).resource.entity : m \in Managed},
                           may : SUBSET {"create", "edit", "delete"} ])
    /\ pages \in Seq([module : Managed, path : {Declared(m).page : m \in Managed}])
    /\ sidebar \in Seq([ module : Managed, label : ToSet(Labels), order : Nat,
                         items : {<<Declared(m).item>> : m \in Managed} ])
    /\ checks \subseteq Modules /\ up \subseteq Modules
    /\ building \in [ module : Modules \union {Nobody},
                      at : {"none", "store", "resource", "page", "section", "health"} ]

\* "One group per distinct label, in Order", each at its earliest member's place and
\* with its items in member order (shell.go:283): the rail by what it should be, from
\* the modules alone, whichever order they were built in.
Shown == {m \in Managed : \E x \in ToSet(sidebar) : x.module = m}

RailIsGrouped ==
    LET rail == SidebarSections IN
    /\ {rail[g].label : g \in DOMAIN rail} = {Declared(m).label : m \in Shown}
    /\ \A g, h \in DOMAIN rail : g < h =>
           /\ rail[g].label # rail[h].label
           /\ \E m \in Shown : Declared(m).label = rail[g].label /\
                  \A n \in Shown : Declared(n).label = rail[h].label =>
                      Declared(m).order <= Declared(n).order
    /\ \A g \in DOMAIN rail :
           LET items == rail[g].items
               mine == {m \in Shown : Declared(m).label = rail[g].label}
           IN  /\ ToSet(items) = {Declared(m).item : m \in mine}
               /\ \A m, n \in mine : \A i, j \in DOMAIN items :
                      items[i] = Declared(m).item /\ items[j] = Declared(n).item /\ i < j
                      => Declared(m).order < Declared(n).order

\* "So the link resolves to a route the shell actually serves" (portslib.go:48).
LinksResolve ==
    \A g \in DOMAIN SidebarSections : \A path \in ToSet(SidebarSections[g].items) :
        Route(path) # "not found"

\* What NewModule has returned is there, once: in the rail, on the home page, behind
\* its link and in the health report, although modules are built again after errors.
WhatIsUpIsThere ==
    /\ up \intersect Managed \subseteq Shown \intersect ModulesSummary
    /\ up \ {"health_management"} = checks
    /\ \A i, j \in DOMAIN sidebar : i # j => sidebar[i].items # sidebar[j].items

-----------------------------------------------------------------------------
(* Parts of the inductive invariant of Console.                             *)

Surfaced(m) ==
    IF Declared(m).page # <<>> THEN HasPage(m, Declared(m).page)
    ELSE HasResource(m, Declared(m).resource)

\* How far a module has got tells what it has registered.
BuildInv ==
    LET m == building.module IN
    /\ ~Reached("none") => m \in Modules
    /\ Reached("resource") => m \in Managed /\ Declared(m).page = <<>>
    /\ Reached("page") => m \in Managed /\ Declared(m).page # <<>>
    /\ Reached("section") => m \in Managed /\ Surfaced(m)
    /\ Reached("health") /\ m \in Managed => Surfaced(m) /\ m \in Shown

UpInv ==
    /\ \A m \in up \intersect Managed : Surfaced(m) /\ m \in Shown
    /\ up \ {"health_management"} = checks

\* No module has two sections, and each is the one it declares and leads to what the
\* module has registered.
SectionInv ==
    /\ \A x \in ToSet(sidebar) :
           /\ x.label = Declared(x.module).label /\ x.order = Declared(x.module).order
           /\ x.items = <<Declared(x.module).item>> /\ Surfaced(x.module)
    /\ \A i, j \in DOMAIN sidebar : i # j => sidebar[i].module # sidebar[j].module

=============================================================================
