----------------------------- MODULE MCHosting -----------------------------
(***************************************************************************)
(* Host manifests for Hosting.  Application 2 offers provider 1 from cell 1; *)
(* application 3 offers provider 2 from cell 1, and in some manifests      *)
(* provider 1 too, from a member of an execution unit.                     *)
(***************************************************************************)
EXTENDS Hosting

Grant(a, p) == [app |-> a, provider |-> p]
MCCell(n, provides, grants) == [name |-> n, provides |-> provides, hostConsumes |-> grants]
App(id, deps, cells, declared) ==
    [id |-> id, count |-> 0, aliases |-> <<>>, storage |-> id, event |-> id, dependsOn |-> deps,
     cells |-> cells, units |-> {}, caps |-> declared]
Route(path, a, n) == [path |-> path, app |-> a, instance |-> n]
HostOf(apps, routes) == [apps |-> apps, routes |-> routes, health |-> <<2>>]

\* An application that calls two others, one of which calls the third.
First(deps, grants) == App(1, deps, {MCCell(1, {}, grants)}, {})
Middle(deps, grants, declared) == App(2, deps, {MCCell(1, {1}, grants)}, declared)
Base(deps) == App(3, deps, {MCCell(1, {2}, {})}, {})

Chain == HostOf(<<First({2}, {Grant(0, 1)}), Middle({3}, {Grant(3, 2)}, {"http"}), Base({})>>, <<>>)

\* Two providers of the same name, told apart by a qualified grant; one is a
\* member of an execution unit.
Twins(grants) ==
    HostOf(<<First({2, 3}, grants), Middle({}, {}, {"store"}),
             [Base({}) EXCEPT !.cells = @ \cup {MCCell(2, {1}, {}), MCCell(3, {}, {})},
                              !.units = {[name |-> 4, members |-> {2, 3}, provides |-> {1}, hostConsumes |-> {}]}]>>,
           <<>>)

\* A site behind the gateway: nested routes to two applications, or to two
\* instances of one, with their names given or not.
Web(id, n, aliases, deps) == [App(id, deps, {MCCell(1, {}, {})}, {"http"}) EXCEPT !.count = n, !.aliases = aliases]
Site == HostOf(<<Web(1, 0, <<>>, {2}), Web(2, 1, <<0>>, {})>>, <<Route(<<>>, 1, 0), Route(<<1>>, 2, 1)>>)
Pair(aliases) == HostOf(<<Web(2, 2, aliases, {})>>, <<Route(<<1>>, 2, 2)>>)

\* The dependency graphs over three applications with at least three edges: all
\* orders of a chain with a short cut, and cycles.
Graphs ==
    {HostOf([k \in 1 .. 3 |-> App(k, d[k], {MCCell(1, {}, {})}, {})], <<>>) :
        d \in {e \in [1 .. 3 -> SUBSET (1 .. 3)] : Cardinality(e[1]) + Cardinality(e[2]) + Cardinality(e[3]) > 2}}

\* One application behind the gateway, whose listener moves.
Solo == HostOf(<<Web(4, 1, <<>>, {})>>, <<Route(<<1>>, 4, 0)>>)

Broken(h) ==
    {[h EXCEPT !.apps[1].id = n] : n \in {0, 2}}
        \cup {[h EXCEPT !.apps[1].storage = n] : n \in {0, 2}}
        \cup {[h EXCEPT !.apps[1].event = n] : n \in {0, 2}}
        \cup {[h EXCEPT !.apps[1].dependsOn = d] : d \in {{1}, {0, 4}}}
        \cup {[h EXCEPT !.apps[1].aliases = <<1, 2>>]}
        \cup {[h EXCEPT !.routes = <<r>>] : r \in {Route(<<0>>, 1, 1), Route(<<1>>, 4, 0), Route(<<1>>, 1, 2)}}
        \cup {[h EXCEPT !.routes = <<Route(<<1>>, 1, 0), Route(<<1>>, 2, 0)>>]}
        \cup {[h EXCEPT !.apps[1].caps = {"global"}], [h EXCEPT !.apps = <<>>], [h EXCEPT !.health = <<0>>]}

MCManifests ==
    {Chain, Site}
        \cup {Twins({g}) : g \in {Grant(0, 1), Grant(2, 1), Grant(3, 1), Grant(0, 3)}}
        \cup {Pair(<<2, 0>>), [Pair(<<3, 2>>) EXCEPT !.health = NoHealth]}
        \cup Broken(Site)
        \cup Graphs
        \cup {Solo}

MCCaps == <<"global", "http", "store">>
MCPaths == {<<>>, <<1, 2>>, <<2>>}
=============================================================================
