--------------------------- MODULE MCPublication ---------------------------
(***************************************************************************)
(* Instances of Publication.  Modules 1, 2 and 3 are libraries, 4 and 5    *)
(* the sources of two cells, 9 is the fused release.  The instances of the *)
(* registry have uploads, a project and no host; those of fusion have two  *)
(* hosts, whose applications differ, over a registry that has the sources. *)
(***************************************************************************)
EXTENDS Publication, TLC

R == INSTANCE Registry

CONSTANTS h1, h2, u1, u2, u3

MCHost == {h1, h2}
MCUpload == {u1, u2, u3}
MCModuleIDs == {1, 2, 3, 4, 5, 9}

V(major, minor) == R!Version(major, minor, 0)
Beta(major, minor) == [V(major, minor) EXCEPT !.pre = <<[num |-> FALSE, val |-> 1], [num |-> TRUE, val |-> 2]>>]
Caret(v) == [op |-> "caret", base |-> v]
Tilde(v) == [op |-> "tilde", base |-> v]
AnyVersion == [op |-> "any", base |-> V(0, 0)]
Dep(id, req) == [id |-> id, req |-> req]

\* A library release with one artifact per target, and the bytes sent with it.
Raw(id, v, deps, targets, content) ==
    [id |-> id, version |-> v, deps |-> deps,
     arts |-> [k \in DOMAIN targets |-> [target |-> targets[k], digest |-> R!Sum(<<id, v, targets[k], content>>)]],
     provides |-> {}, capabilities |-> {}, abi |-> ""]
BytesOf(raw) == [t \in {raw.arts[k].target : k \in DOMAIN raw.arts} |->
                    raw.arts[CHOOSE k \in DOMAIN raw.arts : raw.arts[k].target = t].digest[2]]

Wasm1 == <<"wasm">>
Both == <<Wasm1, <<"docs">>>>
Send(raw) ==
    [command |-> "publish", file |-> raw, bytes |-> BytesOf(raw), hosted |-> TRUE, allowed |-> TRUE,
     pc |-> "command", raw |-> raw, n |-> 0]
NoUpload == [Send(Raw(0, V(0, 0), << >>, << >>, 0)) EXCEPT !.pc = "off"]
\* A client of its own, which may leave out an artifact; the bytes of a refresh
\* are newer than the manifest; pulp-registry serve keeps no metadata.
Post(send) == [send EXCEPT !.command = "post"]
Newer(send) ==
    [send EXCEPT !.command = "publish-refresh", !.bytes = [t \in DOMAIN @ |-> [@[t] EXCEPT ![4] = @ + 1]]]
Served(send) == [send EXCEPT !.hosted = FALSE]
Without(send, t) == [send EXCEPT !.bytes = [x \in DOMAIN @ \ {t} |-> @[x]]]

\* A store with these releases.
Holding(raws) ==
    LET ms == {R!ParseManifest(raw) : raw \in raws}
    IN  [dirs |-> {R!ReleaseOf(m) : m \in ms},
         manifests |-> [r \in {R!ReleaseOf(m) : m \in ms} |-> CHOOSE m \in ms : R!ReleaseOf(m) = r],
         blobs |-> UNION {R!Digests(m) : m \in ms}]

\* A cell that asks to be fused, and one that runs by itself.
Cell(n, deps) ==
    [name |-> n, version |-> V(1, 0), schema |-> 0, provides |-> {10 + n}, consumes |-> {}, dependsOn |-> deps,
     capabilities |-> {"http"}, execution |-> [mode |-> "fusible", group |-> 1, abi |-> "pulp-v1"],
     dedicated |-> FALSE, snapshotable |-> FALSE, restart |-> "", pages |-> 16, timeout |-> 0,
     config |-> << >>, configEnv |-> << >>, wasm |-> <<"cell", n>>, pin |-> NoPin]
Isolated(n, deps) ==
    [Cell(n, deps) EXCEPT !.execution = [mode |-> "", group |-> 0, abi |-> ""], !.pin = R!Sum(<<"cell", n>>)]
SendCell(cell, id) ==
    [Send(Raw(id, V(1, 0), << >>, <<Wasm1>>, 0)) EXCEPT !.command = "publish-cell", !.bytes = Wasm1 :> cell.wasm]
        @@ [cell |-> cell, id |-> id, target |-> Wasm1]

----------------------------------------------------------------------------
(* the registry instances *)

A10 == Raw(1, V(1, 0), <<Dep(2, Caret(V(1, 0)))>>, Both, 0)
A11 == Raw(1, V(1, 1), <<Dep(2, Caret(V(2, 0))), Dep(3, AnyVersion)>>, Both, 0)
B10 == Raw(2, V(1, 0), << >>, <<Wasm1>>, 0)
B12 == Raw(2, V(1, 2), <<Dep(3, Tilde(V(1, 0)))>>, <<Wasm1>>, 0)
B20 == Raw(2, V(2, 0), <<Dep(1, AnyVersion), Dep(2, Caret(V(1, 0)))>>, <<Wasm1>>, 0)
B20t == Raw(2, V(2, 0), <<Dep(1, Tilde(V(1, 0)))>>, <<Wasm1>>, 0)
B21b == Raw(2, Beta(2, 1), << >>, <<Wasm1>>, 0)
C10 == Raw(3, V(1, 0), << >>, Both, 0)
C11 == Raw(3, V(1, 1), << >>, <<<<"docs">>>>, 0)
Roots(req) == {[id |-> 1, req |-> req]}

OffHost == [app |-> Invalid]

Registry(base, sends, roots, locks) ==
    [origin |-> Holding(base), uploads |-> sends, project |-> [target |-> Wasm1, roots |-> roots],
     locks |-> locks, hosts |-> [h \in MCHost |-> OffHost], crashes |-> 0, statusCalls |-> 1]

LockFor(raws, roots) ==
    R!Resolve(R!View(EmptyStore, Holding(raws), [status |-> << >>, owners |-> << >>], {}, MCModuleIDs), Wasm1, roots)

RegistryInstances ==
    { \* a newer release whose dependency comes late and asks for the older one
      Registry({A10, B10, C10}, (u1 :> Send(A11) @@ u2 :> Send(B20t) @@ u3 :> NoUpload),
               Roots(AnyVersion), {R!NoLock}),
      \* two releases under one version, and one that is not allowed
      Registry({B10}, (u1 :> Send(A10) @@ u2 :> Send([A10 EXCEPT !.deps = << >>])
                        @@ u3 :> [Send(B12) EXCEPT !.allowed = FALSE]), Roots(Caret(V(1, 0))), {R!NoLock}),
      \* a cycle through a release that also asks for an older one of itself, a
      \* release without all its bytes, a pre-release; a lock made elsewhere
      Registry({A10, A11, C11}, (u1 :> Send(B20) @@ u2 :> Post(Without(Send(C10), <<"docs">>)) @@ u3 :> Send(B21b)),
               Roots(AnyVersion) \cup {[id |-> 3, req |-> AnyVersion]},
               {LockFor({A10, B10, C10}, Roots(AnyVersion))}),
      \* a lock made elsewhere for the same roots
      Registry({A10, B10}, (u1 :> Send(C10) @@ u2 :> Newer(Send(B12)) @@ u3 :> NoUpload),
               Roots(AnyVersion), {LockFor({A10, B10}, Roots(AnyVersion))}),
      \* pulp-registry serve, cells as modules, and a release without artifacts
      [Registry({A10}, (u1 :> Served(SendCell(Isolated(6, {}), 2)) @@ u2 :> Served(Post(Send([B10 EXCEPT !.arts = << >>])))
                         @@ u3 :> Served(SendCell([Isolated(7, {}) EXCEPT !.pin = R!Sum("old")], 3))),
                Roots(AnyVersion), {R!NoLock}) EXCEPT !.statusCalls = 0] }

----------------------------------------------------------------------------
(* the fusion instances *)

SourceRaw(id, v, entrypoint) ==
    [id |-> id, version |-> v, deps |-> << >>,
     arts |-> <<[target |-> <<"source">>,
                 digest |-> R!Sum(<<"source", [module |-> id, import |-> id, entrypoint |-> entrypoint]>>)]>>,
     provides |-> {}, capabilities |-> {}, abi |-> ""]
Sources == Holding({SourceRaw(4, V(1, 0), "Register"), SourceRaw(5, V(1, 0), "Register"), SourceRaw(5, V(1, 1), "Register")})

Application(cells) ==
    [schema |-> 1, name |-> 1, version |-> V(1, 0), requirePins |-> FALSE,
     cells |-> [k \in DOMAIN cells |-> [path |-> k, manifest |-> cells[k]]],
     orchestrator |-> [path |-> Len(cells), script |-> "lua", pin |-> R!Sum("lua")],
     placements |-> << >>, units |-> << >>]

\* 1 and 2 are fused and 2 needs 5; 3 needs 2 and may run twice; 4 is the
\* orchestrator.
Main == Application(<<Cell(1, {}), Cell(2, {5}), Isolated(3, {2}), Isolated(5, {}), Isolated(4, {1, 3})>>)
Twice(app) == [app EXCEPT !.placements = <<[cell |-> 3, instances |-> << >>, aliases |-> << >>, count |-> 2, config |-> << >>]>>]
\* 3 depends on 1 and 2 on 3: as one artifact 1 and 2 would wait for 3.
Between == Application(<<Cell(1, {}), Isolated(3, {1}), Cell(2, {3})>>)
\* One member has a capability the other lacks.
Uneven == [Main EXCEPT !.cells[2].manifest.capabilities = {}]
\* 3 asks for a provider that two cells offer.
Ambiguous == [Main EXCEPT !.cells[1].manifest.provides = {12}, !.cells[3].manifest.consumes = {12}]
\* A manual unit for both members, and one for a member and an outsider.
Manual(members) ==
    [Main EXCEPT !.units = <<[name |-> 1, members |-> members,
                              artifact |-> [Isolated(8, {}) EXCEPT !.provides = {11, 12, 13}]]>>]

\* Two manual units beside each other.
Pair(first, second) ==
    LET unit(name, members, k) ==
            [name |-> name, members |-> members,
             artifact |-> [Isolated(k, {}) EXCEPT !.provides = {11, 12, 13, 15}]]
    IN  [Application(<<Isolated(1, {}), Isolated(2, {}), Isolated(3, {}), Isolated(5, {}), Isolated(4, {1})>>)
            EXCEPT !.units = <<unit(first, {1, 2}, 8), unit(second, {3, 5}, 9)>>]

Start(app, go, minor, toolchain, fallback) ==
    [app |-> app, env |-> << >>, go |-> go, bindings |-> (1 :> <<4, V(1, 0)>> @@ 2 :> <<5, V(1, minor)>>),
     module |-> 9, version |-> V(1, 0), target |-> "wasip1", physical |-> 7, fallback |-> fallback,
     toolchain |-> toolchain, publishes |-> TRUE]

Fusing(c, d, deaths, calls) ==
    [origin |-> Sources, uploads |-> [u \in MCUpload |-> NoUpload], project |-> [target |-> Wasm1, roots |-> {}],
     locks |-> {R!NoLock}, hosts |-> (h1 :> c @@ h2 :> d),
     crashes |-> deaths, statusCalls |-> calls]

FusionInstances ==
    { Fusing(Start(Twice(Main), 1, 0, 1, TRUE), Start(Main, 1, 0, 1, FALSE), 1, 0),  \* the same artifact
      Fusing(Start(Twice(Main), 1, 0, 1, TRUE), Start(Main, 1, 1, 1, TRUE), 1, 0),   \* another source
      Fusing(Start(Main, 1, 0, 1, FALSE), Start(Main, 2, 0, 1, TRUE), 0, 1),         \* another Go version
      Fusing(Start(Main, 1, 0, 1, TRUE), Start(Main, 1, 0, 2, TRUE), 0, 0),          \* another toolchain
      Fusing(Start(Between, 1, 0, 1, TRUE), [Start(Main, 1, 0, 1, TRUE) EXCEPT !.publishes = FALSE], 1, 0),
      Fusing(Start(Uneven, 1, 0, 1, TRUE), Start(Ambiguous, 1, 0, 1, TRUE), 0, 0),
      Fusing(Start(Manual({1, 2}), 1, 0, 1, TRUE), Start(Manual({2, 3}), 1, 0, 1, TRUE), 0, 0),
      Fusing(Start(Pair(1, 2), 1, 0, 1, TRUE), Start(Pair(1, 1), 1, 0, 1, TRUE), 0, 0),
      Fusing([Start(Main, 1, 0, 1, TRUE) EXCEPT !.bindings = 1 :> <<4, V(1, 0)>>],
             [Start(Main, 1, 0, 1, TRUE) EXCEPT !.app.cells[2].manifest.pages = 8], 0, 0) }

\* Other projects of the user fetch one library and one source.
MCFetches == {<<2, V(1, 0)>>, <<4, V(1, 0)>>}

MCInstances == RegistryInstances \cup FusionInstances

\* The registry answers, fails for some libraries and one source, or for all.
SomeUnanswered == {{}, {2, 3, 4}}
AllUnanswered == {{}, MCModuleIDs}
Reachable == {{}}

============================================================================
