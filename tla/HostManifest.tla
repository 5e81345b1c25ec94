---------------------------- MODULE HostManifest ----------------------------
(***************************************************************************)
(* What LoadHost (internal/manifest/host.go) and canonicalHostedApplications *)
(* (run/multihost.go) make of a pulp.host.toml.  Identifiers are numbers   *)
(* whose order is the order of the strings; 0 is a string that the         *)
(* identifier pattern refuses, or, for an alias, a blank one: it has a     *)
(* default, and an alias that the pattern refuses is negative.             *)
(* A route path is the sequence of its segments.  An application is what   *)
(* LoadApp returned for it: which cells provide and which cells ask for    *)
(* what, and which capabilities they declare.                              *)
(***************************************************************************)
EXTENDS Integers, Sequences, FiniteSets, SequencesExt, FiniteSetsExt

\* An application entry of the host manifest is a record with the fields id,
\* count, aliases, storage, event, dependsOn, cells, units and caps.  A cell
\* has a name, the providers it offers and its grants; so has the artifact of an
\* execution unit, which also has members.  A grant names a provider and, when it
\* is qualified, an application (Unqualified otherwise).
Unqualified == 0

----------------------------------------------------------------------------
(* instances, namespaces and dependencies of one entry *)

InstanceCount(entry) == IF entry.count = 0 THEN 1 ELSE entry.count

\* The alias of the n-th instance; a blank or missing one is "<id>-<n>",
\* which the number n stands for.
AliasOf(entry, n) ==
    IF n <= Len(entry.aliases) /\ entry.aliases[n] # 0 THEN entry.aliases[n] ELSE n

normalizeApplicationInstances(entry) == {AliasOf(entry, n) : n \in 1 .. InstanceCount(entry)}

InstancesValid(entry) ==
    /\ Len(entry.aliases) <= InstanceCount(entry)
    /\ Cardinality(normalizeApplicationInstances(entry)) = InstanceCount(entry)
    /\ \A alias \in normalizeApplicationInstances(entry) : alias > 0

normalizeHostedDependencies(entry) == entry.dependsOn \ {0}

\* loadHostedApplication, for an entry whose application manifest loads.
loadHostedApplication(entry) ==
    /\ entry.id # 0
    /\ InstancesValid(entry)
    /\ entry.storage # 0
    /\ entry.event # 0

----------------------------------------------------------------------------
(* the composition: h is a host manifest with the fields apps, routes and   *)
(* health, the path the gateway answers itself                             *)

\* health_path is not given; one that LoadHost refuses, as the root, is <<0>>.
NoHealth == <<>>

Ids(h) == {h.apps[k].id : k \in DOMAIN h.apps}
EntryOf(h, a) == h.apps[CHOOSE k \in DOMAIN h.apps : h.apps[k].id = a]
DependsOn(h, a) == normalizeHostedDependencies(EntryOf(h, a))
InstancesOf(h, a) == {<<a, n>> : n \in normalizeApplicationInstances(EntryOf(h, a))}

\* No identifier and no namespace belongs to two entries.
OwnersAreUnique(h) ==
    \A j, k \in DOMAIN h.apps : j # k =>
        /\ h.apps[j].id # h.apps[k].id
        /\ h.apps[j].storage # h.apps[k].storage
        /\ h.apps[j].event # h.apps[k].event

\* The identifiers that visit has on its stack above a: what a leads to.
Reaches(h) ==
    LET reach[n \in 0 .. Cardinality(Ids(h))] ==
            [a \in Ids(h) |->
                IF n = 0 THEN DependsOn(h, a)
                ELSE UNION ({reach[n - 1][a]} \cup {reach[n - 1][b] : b \in reach[n - 1][a]})]
    IN reach[Cardinality(Ids(h))]

\* resolveApplicationOrder fails for an unknown dependency, and when the search
\* comes back to an application that it is still visiting.
resolveApplicationOrder(h) ==
    /\ \A a \in Ids(h) : DependsOn(h, a) \subseteq Ids(h)
    /\ \A a \in Ids(h) : a \notin Reaches(h)[a]

\* The cells, each with its application, that offer p to an application.
Owners(h, apps, p) ==
    UNION {{<<a, c.name>> : c \in {d \in EntryOf(h, a).cells : p \in d.provides}} : a \in apps}

\* A grant names one cell of the direct dependencies, or of the named one.
validateHostConsumes(h) ==
    \A a \in Ids(h) : \A c \in EntryOf(h, a).cells : \A g \in c.hostConsumes :
        LET from == IF g.app = Unqualified THEN DependsOn(h, a) ELSE DependsOn(h, a) \cap {g.app}
        IN Cardinality(Owners(h, from, g.provider)) = 1

\* The instance a route binds: the named one, or the only one.
RouteTarget(h, r) ==
    IF r.instance = 0 THEN CHOOSE i \in InstancesOf(h, r.app) : TRUE ELSE <<r.app, r.instance>>

\* A route path that is not canonical is the sequence <<0>>.
loadRouteBindings(h) ==
    /\ \A j, k \in DOMAIN h.routes : h.routes[j].path = h.routes[k].path => j = k
    /\ \A k \in DOMAIN h.routes :
        LET r == h.routes[k] IN
        /\ r.path # <<0>>
        /\ r.app \in Ids(h)
        /\ r.instance = 0 => Cardinality(InstancesOf(h, r.app)) = 1
        /\ RouteTarget(h, r) \in InstancesOf(h, r.app)

LoadHost(h) ==
    /\ h.apps # <<>>
    /\ h.health # <<0>>
    /\ \A k \in DOMAIN h.apps : loadHostedApplication(h.apps[k])
    /\ OwnersAreUnique(h)
    /\ resolveApplicationOrder(h)
    /\ validateHostConsumes(h)
    /\ loadRouteBindings(h)

----------------------------------------------------------------------------
(* the start order *)

\* The members of S, one after the other: the least of those that are left and
\* whose predecessors have all been taken; some stay behind on a cycle.
InOrder(S, predecessors) ==
    LET order[n \in 0 .. Cardinality(S)] ==
            IF n = 0 THEN <<>>
            ELSE LET taken == Range(order[n - 1])
                     ready == {a \in S \ taken : predecessors[a] \subseteq taken}
                 IN IF ready = {} THEN order[n - 1] ELSE Append(order[n - 1], Min(ready))
    IN order[Cardinality(S)]

\* Faulty variant: the applications by name.
canonicalApplicationOrderByName(h) == InOrder(Ids(h), [a \in Ids(h) |-> {}])

\* canonicalApplicationOrder: the first application, by name, of those whose
\* dependencies have all been taken.
canonicalApplicationOrder(h) == InOrder(Ids(h), [a \in Ids(h) |-> DependsOn(h, a)])

\* The instances of an application in the order of their names.
SortedInstances(h, a) ==
    LET names == normalizeApplicationInstances(EntryOf(h, a))
        sorted == InOrder(names, [n \in names |-> {}])
    IN [k \in 1 .. Len(sorted) |-> <<a, sorted[k]>>]

canonicalHostedApplications(h) ==
    LET apps == canonicalApplicationOrder(h)
        ordered[n \in 0 .. Len(apps)] ==
            IF n = 0 THEN <<>> ELSE ordered[n - 1] \o SortedInstances(h, apps[n])
    IN ordered[Len(apps)]

----------------------------------------------------------------------------
(* cross-application grants *)

\* allowsCrossApplicationCall for a cell c of instance i: the grant is the
\* provider's name, or that name qualified by the target's application, and the
\* target's application is a direct dependency.
allowsCrossApplicationCall(h, i, c, j, p) ==
    /\ i # j
    /\ \E g \in c.hostConsumes : g.provider = p /\ g.app \in {Unqualified, j[1]}
    /\ j[1] \in DependsOn(h, i[1])

\* The cells of a started application by address: the members of an execution
\* unit have none, their artifact answers for them.
Physical(entry) ==
    {c \in entry.cells : \A u \in entry.units : c.name \notin u.members}
        \cup {[name |-> u.name, provides |-> u.provides, hostConsumes |-> u.hostConsumes] : u \in entry.units}

\* callDeclaredProvider: the named address exists and declares the provider.
callDeclaredProvider(h, j, cell, p) ==
    \E c \in Physical(EntryOf(h, j[1])) : c.name = cell /\ p \in c.provides

----------------------------------------------------------------------------
(* routes *)

\* gatewayPrefixMatches: a prefix matches whole segments.
gatewayPrefixMatches(prefix, path) == IsPrefix(prefix, path)

\* The routes as NewHostGatewayWithRouters sorts them: longest prefix first.
GatewayRoutes(h) ==
    LET longest(r, s) == Len(r.path) > Len(s.path)
    IN SortSeq(h.routes, longest)

\* The route ServeHTTP picks: the first that matches.
MatchedRoute(routes, path) ==
    SelectInSeq(routes, LAMBDA r : gatewayPrefixMatches(r.path, path))

=============================================================================
