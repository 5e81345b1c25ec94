------------------------------- MODULE Fusion -------------------------------
(***************************************************************************)
(* Fusion without its processes: the plan that groups cells                *)
(* (internal/fusion/plan.go), recipes, built artifacts and their           *)
(* attestations (artifact.go, builder.go, select.go), and the physical     *)
(* layout an application starts with (run/application_runtime.go,          *)
(* run/physical_dependency_plan.go).  Cells and applications are as in     *)
(* AppManifest, registry manifests as in Registry.                         *)
(***************************************************************************)
EXTENDS AppManifest

Reg == INSTANCE Registry
LOCAL Dag(N) == INSTANCE DependencyPlan

MemberABIV2 == "pulp-member-v2"

----------------------------------------------------------------------------
(* the plan: cells are grouped by group and ABI *)

Key(spec) == <<spec.execution.group, spec.execution.abi>>

\* Two members can share one instance.
compatible(a, b) ==
    /\ ~a.dedicated /\ ~b.dedicated
    /\ a.execution.abi # MemberABIV2 => ~a.snapshotable /\ ~b.snapshotable /\ a.config = b.config
    /\ a.restart = b.restart
    /\ a.pages = b.pages
    /\ a.timeout = b.timeout
    /\ a.capabilities = b.capabilities

Fusible(specs) == {i \in DOMAIN specs : specs[i].execution.mode = "fusible"}

MembersOf(specs, key) == {specs[i] : i \in {i \in Fusible(specs) : Key(specs[i]) = key}}

\* Build: one group per key, in the order of the keys, its members by name (the
\* order of two ABIs of one group is left out).
Groups(specs) ==
    LET keys == {Key(specs[i]) : i \in Fusible(specs)}
        accepted == {key \in keys :
                        /\ Cardinality(MembersOf(specs, key)) >= 2
                        /\ \A a, b \in MembersOf(specs, key) : compatible(a, b)}
        members(key) == SetToSortSeq(MembersOf(specs, key), LAMBDA a, b : a.name < b.name)
        group(key) == [name |-> key[1], abi |-> key[2], members |-> members(key)]
        order == SetToSortSeq(accepted, LAMBDA j, k : j[1] < k[1])
    IN  [n \in DOMAIN order |-> group(order[n])]

----------------------------------------------------------------------------
(* recipes.  A source is what FusionSource read from a registry release.    *)

RecipeMember(spec, source, v2) ==
    [name |-> spec.name, version |-> spec.version, providers |-> spec.provides,
     capabilities |-> spec.capabilities, source |-> source,
     config |-> IF v2 THEN spec.config ELSE << >>, snapshotable |-> v2 /\ spec.snapshotable]

\* NewRecipe; sources maps the members that have a bound and locked release to
\* its source.
NewRecipe(group, go, sources) ==
    LET v2 == group.abi = MemberABIV2
    IN  [abi |-> group.abi, group |-> group.name, go |-> go, v2 |-> v2,
         members |-> [k \in DOMAIN group.members |->
                        RecipeMember(group.members[k], sources[group.members[k].name], v2)]]

\* RecipeFromLock, NewRecipe and ValidateRecipe succeed.
RecipeValid(group, go, sources) ==
    /\ go # 0
    /\ \A k \in DOMAIN group.members : group.members[k].name \in DOMAIN sources
    /\ \A j, k \in DOMAIN group.members :
            j # k => group.members[j].provides \cap group.members[k].provides = {}
    /\ \A n \in DOMAIN sources :
            sources[n].entrypoint = (IF group.abi = MemberABIV2 THEN "RegisterV2" ELSE "Register")

validateBuildRecipe(recipe) ==
    LET m == recipe.members
    IN  /\ Len(m) >= 2
        /\ \A j, k \in DOMAIN m :
                /\ m[j].capabilities = m[k].capabilities
                /\ j # k => m[j].providers \cap m[k].providers = {} /\ m[j].source.import # m[k].source.import

\* One Go module file cannot require two versions of a module.
generateGoModule(recipe) ==
    LET m == recipe.members
    IN  \A j, k \in DOMAIN m :
            m[j].source.module = m[k].source.module => m[j].source.version = m[k].source.version

Buildable(recipe) == validateBuildRecipe(recipe) /\ generateGoModule(recipe)

RecipeDigest(recipe) == Reg!Sum(recipe)

\* NewArtifactMetadata.
ArtifactMetadata(recipe, artifact) ==
    LET all(f(_)) == UNION {f(recipe.members[k]) : k \in DOMAIN recipe.members}
    IN  [v2 |-> recipe.v2, group |-> recipe.group, abi |-> recipe.abi,
         members |-> all(LAMBDA m : {m.name}), providers |-> all(LAMBDA m : m.providers),
         capabilities |-> all(LAMBDA m : m.capabilities),
         recipe |-> RecipeDigest(recipe), artifact |-> artifact]

\* Faulty variant: the recipe digest is not compared.
ValidateArtifactIdentity(metadata, recipe) ==
    metadata.group = recipe.group /\ metadata.abi = recipe.abi

ValidateArtifact(metadata, recipe) == metadata = ArtifactMetadata(recipe, metadata.artifact)

----------------------------------------------------------------------------
(* the builder: the toolchain is external and turns a recipe into Wasm      *)

Wasm(recipe, toolchain) == <<"wasm", recipe, toolchain>>

\* Build's result, for a recipe that is Buildable.
BuildResult(recipe, toolchain) ==
    LET wasm == Wasm(recipe, toolchain)
    IN  [wasm |-> wasm,
         attestation |-> <<"attestation", ArtifactMetadata(recipe, Reg!Sum(wasm)), toolchain>>]

AttestationTarget(target) == <<target, "fusion-attestation">>

\* RegistryPublication: a manifest without dependencies and its two blobs.
RegistryPublication(result, id, version, target) ==
    LET metadata == result.attestation[2]
    IN  [id |-> id, version |-> version, deps |-> << >>,
         arts |-> <<[target |-> <<target>>, digest |-> Reg!Sum(result.wasm)],
                    [target |-> AttestationTarget(target), digest |-> Reg!Sum(result.attestation)]>>,
         provides |-> metadata.providers, capabilities |-> metadata.capabilities, abi |-> metadata.abi]

\* SelectFromRegistry after the lock was verified: the locked artifact and its
\* companion attestation, against the recipe that is wanted.
SelectFromRegistry(view, lock, id, recipe) ==
    LET m == view.manifests[<<id, lock.modules[id].version>>]
        att == AttestationTarget(lock.target[1])
        attestation == m.arts[att][2]
        metadata == attestation[2]
    IN  /\ id \in DOMAIN lock.modules
        /\ att \in DOMAIN m.arts
        /\ m.arts[att] \in view.blobs
        /\ attestation[1] = "attestation"
        /\ m.abi = metadata.abi
        /\ m.provides = metadata.providers
        /\ m.capabilities = metadata.capabilities
        /\ metadata.artifact = lock.modules[id].artifact
        /\ ValidateArtifact(metadata, recipe)

\* DirectoryMaterializer keeps the Wasm under its digest.
Materialize(artifacts, wasm) == artifacts \cup {Reg!Sum(wasm)}

\* A physical cell has exactly what the attestation says.
ValidateCellArtifact(spec, metadata, wasm) ==
    /\ spec.provides = metadata.providers
    /\ spec.capabilities = metadata.capabilities
    /\ spec.execution.abi = metadata.abi
    /\ spec.pin = Reg!Sum(wasm)

\* The physical cell the coordinator derives from a selection.
PhysicalSpec(name, version, metadata, wasm) ==
    [name |-> name, version |-> version, provides |-> metadata.providers, consumes |-> {},
     dependsOn |-> {}, capabilities |-> metadata.capabilities,
     execution |-> [mode |-> "fusible", group |-> metadata.group, abi |-> metadata.abi],
     dedicated |-> FALSE, snapshotable |-> FALSE, restart |-> "", pages |-> 0, timeout |-> 0,
     config |-> << >>, wasm |-> wasm, pin |-> Reg!Sum(wasm)]

----------------------------------------------------------------------------
(* the physical layout *)

\* A group whose members all belong to one manual unit keeps it; a group
\* that overlaps units otherwise cannot be started.
OwnedBy(app, member) == {app.units[k].name : k \in {k \in DOMAIN app.units : member \in app.units[k].members}}
MemberNames(group) == {group.members[k].name : k \in DOMAIN group.members}
ManualUnits(app, group) == UNION {OwnedBy(app, m) : m \in MemberNames(group)}
CoveredMembers(app, group) == {m \in MemberNames(group) : OwnedBy(app, m) # {}}
OverlapsUnit(app, group) ==
    /\ CoveredMembers(app, group) # {}
    /\ Cardinality(ManualUnits(app, group)) # 1 \/ CoveredMembers(app, group) # MemberNames(group)

\* The unit an activation adds: the attested artifact with the members' policy.
AutomaticUnit(group, physical) ==
    LET base == group.members[1]
    IN  [name |-> physical.name, members |-> MemberNames(group),
         artifact |-> [physical EXCEPT !.config = base.config, !.restart = base.restart,
                                       !.pages = base.pages, !.timeout = base.timeout]]

UnitOf(units, n) == CHOOSE k \in DOMAIN units : n \in units[k].members
IsMember(units, n) == \E k \in DOMAIN units : n \in units[k].members

\* A member must have one placement, the primary one.
PlacementsValid(app, units) ==
    \A p \in Range(app.placements) : IsMember(units, p.spec.name) =>
        p.instance = Primary /\ p.address = <<p.spec.name>>

\* executionPlacements: a unit stands where the first member of a unit of its
\* name stood.
executionPlacements(app, units) ==
    LET ps == app.placements
        unit(k) == units[UnitOf(units, ps[k].spec.name)]
        first(k) == \A j \in 1 .. k - 1 : IsMember(units, ps[j].spec.name) => unit(j).name # unit(k).name
        emit(k) == IF ~IsMember(units, ps[k].spec.name) THEN <<ps[k]>>
                   ELSE IF first(k)
                   THEN <<[spec |-> unit(k).artifact, instance |-> Primary,
                           address |-> <<unit(k).artifact.name>>]>>
                   ELSE << >>
    IN  FlattenSeq([k \in DOMAIN ps |-> emit(k)])

\* Where a logical cell runs, and which logical cells a placement runs.
Hosts(app, units, placements, n) ==
    IF IsMember(units, n) THEN {<<units[UnitOf(units, n)].artifact.name>>}
    ELSE {placements[k].address : k \in {k \in DOMAIN placements : placements[k].spec.name = n}}

Logical(app, units, placements, address) ==
    {n \in Names(app.cells) : address \in Hosts(app, units, placements, n)}

\* Faulty variant: only the first member's dependencies count.
physicalDependenciesFirst(app, units, placements, address) ==
    LET logical == Logical(app, units, placements, address)
        n == Min(logical)
    IN  IF logical = {} THEN {}
        ELSE UNION {Hosts(app, units, placements, d) : d \in app.cells[IndexOf(app.cells, n)].dependsOn}
                \ {address}

physicalDependencies(app, units, placements, address) ==
    LET needed == UNION {app.cells[IndexOf(app.cells, n)].dependsOn :
                            n \in Logical(app, units, placements, address)}
    IN  UNION {Hosts(app, units, placements, d) : d \in needed} \ {address}

\* physicalDependencyPlan: the graph over the positions of the placements.  A
\* dependency that is not placed is one the planner refuses.
physicalDependencyPlan(app, units, placements) ==
    [k \in DOMAIN placements |->
        LET needed == physicalDependencies(app, units, placements, placements[k].address)
        IN  {j \in DOMAIN placements : placements[j].address \in needed}]

\* The addresses in the order they start, or Invalid.
Layout(app, units) ==
    LET placements == executionPlacements(app, units)
        graph == physicalDependencyPlan(app, units, placements)
        order == StartOrder(graph, Len(placements))
        addresses == {placements[k].address : k \in DOMAIN placements}
    IN  IF \/ ~PlacementsValid(app, units)
           \/ \E a \in addresses : ~(physicalDependencies(app, units, placements, a) \subseteq addresses)
           \/ \E j, k \in DOMAIN placements : j # k /\ placements[j].address = placements[k].address
           \/ ~Dag(Len(placements))!Accepted(graph)
        THEN Invalid
        ELSE [start |-> [k \in DOMAIN order |-> placements[order[k]].address]]

============================================================================
