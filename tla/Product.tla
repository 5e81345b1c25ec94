------------------------------ MODULE Product ------------------------------
(***************************************************************************)
(* Product descriptors, the plan they resolve to, the files an assembly    *)
(* writes and what LoadHost and loadFrozenLaunch make of a directory       *)
(* (product/descriptor.go, product/release.go), without the processes.     *)
(*                                                                         *)
(* A directory is a function from the paths of its files to their content; *)
(* one without files is the same as none.  Identities, versions and        *)
(* extensions are numbers, 0 is one that its pattern refuses; an identity  *)
(* above Dotted has a dot in it.  The application and the cell manifests   *)
(* are numbered: number k pins artifact k, a script or a Wasm file.        *)
(***************************************************************************)
EXTENDS Integers, Sequences, FiniteSets, SequencesExt

LOCAL A == INSTANCE AppManifest
LOCAL H == INSTANCE HostManifest

Manifest(k) == <<"manifest", k>>
Artifact(k) == <<"artifact", k>>
Surface(i) == <<"surface", i>>
DescriptorFile == <<"pulp.product.json", 0>>
ModuleFile == <<"module", 0>>
HostFile == <<"pulp.host.toml", 0>>
PlanFile == <<"pulp.product.plan.json", 0>>
LaunchFile == <<"pulp.product.launch.json", 0>>
Executable == <<"bin", 0>>

NoFiles == [p \in {} |-> 0]
Write(dir, p, content) == [q \in DOMAIN dir \cup {p} |-> IF q = p THEN content ELSE dir[q]]
Merge(dir, more) == [q \in DOMAIN dir \cup DOMAIN more |-> IF q \in DOMAIN more THEN more[q] ELSE dir[q]]

Sum(bytes) == <<"sha256", bytes>>
NoPin == A!NoPin

\* The digest of a directory covers every path and every content.
treeDigest(dir) == Sum(dir)

----------------------------------------------------------------------------
(* the descriptor *)

Dotted == 100
DefaultInstance == 1

Distinct(list) == \A i, j \in DOMAIN list : list[i] = list[j] => i = j
Column(list, f(_)) == [k \in DOMAIN list |-> f(list[k])]
IdsOf(list) == Column(list, LAMBDA x : x.id)

validateCapabilities(required, optional) ==
    Distinct(required \o optional) /\ 0 \notin Range(required \o optional)

\* An instance is 0 when it is left out and negative when it is no identity;
\* a path that is empty, absolute or leaves the root is 0.
ValidApplication(d, k) ==
    LET app == d.apps[k] IN
    /\ app.id # 0
    /\ app.manifest # 0
    /\ app.instance >= 0
    /\ Distinct(app.deps)
    /\ Range(app.deps) \subseteq Range(IdsOf(d.apps)) \ {app.id}

ValidSurface(s) ==
    /\ s.id # 0
    /\ s.kind \in {"web", "tauri", "capacitor", "headless"}
    /\ s.kind # "headless" => s.root # 0

Validate(d) ==
    /\ d.schema = 1 /\ d.id # 0 /\ d.version # 0 /\ d.module # 0
    /\ d.apps # << >> /\ Distinct(IdsOf(d.apps))
    /\ \A k \in DOMAIN d.apps : ValidApplication(d, k)
    /\ d.entry.app \in Range(IdsOf(d.apps))
    /\ d.surfaces # << >> /\ Distinct(IdsOf(d.surfaces))
    /\ \A k \in DOMAIN d.surfaces : ValidSurface(d.surfaces[k])
    /\ d.entry.surface \in Range(IdsOf(d.surfaces))
    /\ d.entry.path \in {"", "absolute"}
    /\ validateCapabilities(d.required, d.optional)
    /\ 0 \notin Range(d.extensions)

\* What Resolve must find in the directory of the descriptor.
Named(d) ==
    {Manifest(d.apps[k].manifest) : k \in DOMAIN d.apps} \cup {ModuleFile}
        \cup {Surface(s.root) : s \in {s \in Range(d.surfaces) : s.kind # "headless"}}

Resolvable(dir) ==
    /\ DescriptorFile \in DOMAIN dir
    /\ Validate(dir[DescriptorFile])
    /\ Named(dir[DescriptorFile]) \subseteq DOMAIN dir
    /\ Range(dir[DescriptorFile].required) \subseteq Range(dir[DescriptorFile].extensions)

Resolve(dir) ==
    LET d == dir[DescriptorFile]
        instance(k) == IF d.apps[k].instance = 0 THEN DefaultInstance ELSE d.apps[k].instance
    IN  [id |-> d.id, version |-> d.version, entry |-> d.entry, surfaces |-> d.surfaces,
         apps |-> [k \in DOMAIN d.apps |-> [d.apps[k] EXCEPT !.instance = instance(k)]]]

----------------------------------------------------------------------------
(* the applications of a directory *)

\* An application manifest pins its script and lists cells and the artifacts of
\* its execution units; a cell manifest pins its Wasm.
Listed(app) == Range(app.cells) \cup {app.units[u].artifact : u \in DOMAIN app.units}
Fused(app) == UNION {app.units[u].members : u \in DOMAIN app.units}

PinHolds(dir, k, required) ==
    /\ Manifest(k) \in DOMAIN dir
    /\ dir[Manifest(k)].pin # NoPin => Artifact(k) \in DOMAIN dir
    /\ A!verifyWASMDigest([pin |-> dir[Manifest(k)].pin, wasm |-> dir[Artifact(k)]], required)

\* A cell that an execution unit contains is loaded, but its Wasm is not verified.
PinsVerified(dir, app) ==
    \A c \in Listed(app) \ Fused(app) : PinHolds(dir, c, app.requirePins)

\* What LoadApp asks of the files: the script, its pin and the manifests of the
\* cells.  What it asks of the cells as a set (buildSet, placements, execution
\* units, one placed orchestrator) is in AppManifest, and here it holds of every
\* application.
LoadApp(dir, k) ==
    /\ PinHolds(dir, k, TRUE)
    /\ \A c \in Range(dir[Manifest(k)].cells) : Manifest(c) \in DOMAIN dir
    /\ PinsVerified(dir, dir[Manifest(k)])

\* The composition that the host manifest of a directory denotes.
Composition(dir, host) ==
    [host EXCEPT !.apps = [k \in DOMAIN host.apps |->
        LET app == dir[Manifest(host.apps[k].manifest)]
        IN  [id |-> host.apps[k].id, count |-> 0, aliases |-> host.apps[k].aliases,
             storage |-> host.apps[k].id, event |-> host.apps[k].id,
             dependsOn |-> host.apps[k].dependsOn, units |-> {}, caps |-> {},
             cells |-> {[name |-> c, provides |-> dir[Manifest(c)].provides,
                         hostConsumes |-> dir[Manifest(c)].hostConsumes] : c \in Range(app.cells)}]]]

\* Where the paths of a host manifest in dir lead: into dir itself or, if they are
\* those of a linked assembly, out of it to whatever is there.
Root(dir, host, beyond) == IF host.linked THEN beyond ELSE dir

LoadHost(dir, host, beyond) ==
    LET root == Root(dir, host, beyond) IN
    /\ \A k \in DOMAIN host.apps : LoadApp(root, host.apps[k].manifest)
    /\ H!LoadHost(Composition(root, host))

----------------------------------------------------------------------------
(* what an assembly copies and writes *)

\* freezeApplications: the files of the applications.
FrozenPaths(dir, plan) ==
    LET of(k) == {k} \cup Listed(dir[Manifest(k)])
        all == UNION {of(plan.apps[k].manifest) : k \in DOMAIN plan.apps}
    IN  {Manifest(c) : c \in all} \cup {Artifact(c) : c \in all}

Selected(plan, id) == CHOOSE s \in Range(plan.surfaces) : s.id = id

\* An assembly also freezes the descriptor and the surface it is built for.
CopiedPaths(dir, plan, surface) ==
    FrozenPaths(dir, plan) \cup {DescriptorFile}
        \cup IF surface.kind = "headless" THEN {} ELSE {Surface(surface.root)}

\* renderHost.  The host's identifiers have no dot, a product's may.  Paths are
\* relative to the assembly: to the copies in packages/ that freezeApplications
\* has put into the plan, and otherwise to the manifests of the checkout.
renderHost(plan, frozen) ==
    LET identifier(n) == IF n > Dotted THEN 0 ELSE n
        alias(n) == IF n > Dotted THEN -1 ELSE n
        entry == CHOOSE k \in DOMAIN plan.apps : plan.apps[k].id = plan.entry.app
    IN  [linked |-> ~frozen,
         apps |-> [k \in DOMAIN plan.apps |->
            [id |-> identifier(plan.apps[k].id), manifest |-> plan.apps[k].manifest,
             aliases |-> <<alias(plan.apps[k].instance)>>,
             dependsOn |-> {identifier(n) : n \in Range(plan.apps[k].deps)}]],
         routes |-> <<[path |-> << >>, app |-> identifier(plan.entry.app),
                       instance |-> alias(plan.apps[entry].instance)]>>,
         health |-> <<1, 2>>]

\* A frozen plan keeps the root of the surface it was assembled for only.
RecordedPlan(plan, surface, frozen) ==
    [plan EXCEPT !.surfaces = [k \in DOMAIN @ |->
        IF frozen /\ @[k].id # surface.id THEN [@[k] EXCEPT !.root = 0] ELSE @[k]]]

LaunchContract(plan, surface, frozen) ==
    [schema |-> 1, product |-> plan.id, version |-> plan.version,
     mode |-> IF frozen THEN "frozen" ELSE "linked", host |-> HostFile,
     entrypoint |-> IF plan.entry.path = "" THEN "/" ELSE plan.entry.path,
     application |-> plan.entry.app, surface |-> surface]

\* What AssembleFrozen makes of a directory that nobody changes meanwhile.
AssembleFrozen(dir) ==
    LET plan == Resolve(dir)
        surface == Selected(plan, plan.entry.surface)
        copied == CopiedPaths(dir, plan, surface)
    IN  [p \in copied \cup {HostFile, PlanFile, LaunchFile} |->
            CASE p \in copied -> dir[p]
              [] p = HostFile -> renderHost(plan, TRUE)
              [] p = PlanFile -> RecordedPlan(plan, surface, TRUE)
              [] p = LaunchFile -> LaunchContract(plan, surface, TRUE)]

\* loadFrozenLaunch accepts the directory and LoadHost the host it names.
Launches(dir, beyond) ==
    /\ LaunchFile \in DOMAIN dir
    /\ dir[LaunchFile].schema = 1 /\ dir[LaunchFile].mode = "frozen"
    /\ dir[LaunchFile].host \in DOMAIN dir
    /\ LoadHost(dir, dir[dir[LaunchFile].host], beyond)

============================================================================
