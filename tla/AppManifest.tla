---------------------------- MODULE AppManifest ----------------------------
(***************************************************************************)
(* What Load and LoadApp (internal/manifest) make of a pulp.app.toml and   *)
(* the pulp.cell.toml files it lists.  Names, providers, paths and other   *)
(* texts are numbers that order like the strings, 0 is a blank one, and a  *)
(* blank version is Invalid; lists whose order and duplicates              *)
(* normalisation removes are sets.  Bytes and digests are as in Registry;  *)
(* NoPin is an absent wasm_sha256.  A configuration has no nested tables,  *)
(* so config_env reaches every key.                                        *)
(***************************************************************************)
EXTENDS Integers, Sequences, FiniteSets, TLC, SequencesExt, FiniteSetsExt

LOCAL R == INSTANCE Registry
LOCAL Graph(N) == INSTANCE DependencyPlan

NoPin == <<"sha256">>
Invalid == [err |-> "invalid manifest"]
Bad(x) == "err" \in DOMAIN x

----------------------------------------------------------------------------
(* one cell: Load *)

normalizeRestart(restart) == IF restart = "" THEN "on_crash" ELSE restart

\* An isolated cell names no group and no ABI, a fusible one names both.
normalizeExecution(e) ==
    LET mode == IF e.mode = "" THEN "isolated" ELSE e.mode
    IN  CASE mode = "isolated" /\ e.group = 0 /\ e.abi = "" -> [e EXCEPT !.mode = mode]
          [] mode = "fusible" /\ e.group # 0 /\ e.abi # "" -> e
          [] OTHER -> Invalid

\* config_env: a variable that is set replaces the value of its key.  The path of a
\* nested key is one key here, and one that leads through a value is left out.
withEnvironment(config, configEnv, env) ==
    LET set == {k \in DOMAIN configEnv : configEnv[k] \in DOMAIN env}
    IN  [k \in DOMAIN config \cup set |-> IF k \in set THEN env[configEnv[k]] ELSE config[k]]

Load(raw, env) ==
    IF \/ raw.name = 0
       \/ Bad(raw.version)
       \/ raw.schema \notin {0, 1}
       \/ normalizeRestart(raw.restart) \notin {"never", "on_crash", "always"}
       \/ Bad(normalizeExecution(raw.execution))
       \/ 0 \in DOMAIN raw.configEnv \cup Range(raw.configEnv)
    THEN Invalid
    ELSE [name |-> raw.name, version |-> raw.version,
          provides |-> raw.provides \ {0}, consumes |-> raw.consumes \ {0},
          dependsOn |-> raw.dependsOn \ {0}, capabilities |-> raw.capabilities,
          execution |-> normalizeExecution(raw.execution),
          dedicated |-> raw.dedicated, snapshotable |-> raw.snapshotable,
          restart |-> normalizeRestart(raw.restart), pages |-> raw.pages, timeout |-> raw.timeout,
          config |-> withEnvironment(raw.config, raw.configEnv, env),
          wasm |-> raw.wasm, pin |-> raw.pin]

verifyWASMDigest(spec, required) ==
    IF spec.pin = NoPin THEN ~required ELSE R!Sum(spec.wasm) = spec.pin

----------------------------------------------------------------------------
(* the cells of one deployment: buildSet *)

Names(specs) == {specs[i].name : i \in DOMAIN specs}
ProvidersOf(specs, p) == {specs[i].name : i \in {i \in DOMAIN specs : p \in specs[i].provides}}
IndexOf(specs, n) == CHOOSE i \in DOMAIN specs : specs[i].name = n

\* The plan over the positions of the list.
DependencyGraph(specs) ==
    [i \in DOMAIN specs |-> {IndexOf(specs, d) : d \in specs[i].dependsOn}]

\* dependency.Build's StartOrder.
StartOrder(graph, n) ==
    LET level == [i \in 1 .. n |-> Graph(n)!LevelOf(graph, i)]
    IN  SortSeq([i \in 1 .. n |-> i], LAMBDA i, j : level[i] < level[j] \/ (level[i] = level[j] /\ i < j))

buildSet(specs) ==
    /\ specs # << >>
    /\ \A i, j \in DOMAIN specs : specs[i].name = specs[j].name => i = j
    /\ \A i \in DOMAIN specs : \A p \in specs[i].consumes : Cardinality(ProvidersOf(specs, p)) = 1
    /\ \A i \in DOMAIN specs : specs[i].dependsOn \subseteq Names(specs) \ {specs[i].name}
    /\ Graph(Len(specs))!Accepted(DependencyGraph(specs))

Ordered(specs) ==
    LET order == StartOrder(DependencyGraph(specs), Len(specs))
    IN  [k \in DOMAIN order |-> specs[order[k]]]

----------------------------------------------------------------------------
(* placements and execution units *)

Primary == "primary"

\* count and aliases of a cell_placements entry; the instances it does not name
\* are numbered.
placementInstances(p) ==
    LET named == IF p.instances # << >> THEN p.instances ELSE p.aliases
    IN  IF p.count > Len(named)
        THEN named \o [k \in 1 .. p.count - Len(named) |-> Len(named) + k]
        ELSE named

validInstances(p) ==
    LET named == IF p.instances # << >> THEN p.instances ELSE p.aliases
        all == placementInstances(p)
    IN  /\ p.count >= 0
        /\ p.count > 0 /\ named # << >> => Len(named) = p.count
        /\ all # << >>
        /\ \A i \in DOMAIN all : all[i] # 0
        /\ \A i, j \in DOMAIN all : all[i] = all[j] => i = j

clonePlacementSpec(spec, override) == [spec EXCEPT !.config = override @@ @]

ConfiguredFor(raws, n) == {k \in DOMAIN raws : raws[k].cell = n}

validPlacements(specs, raws) ==
    /\ \A k \in DOMAIN raws : raws[k].cell \in Names(specs) /\ validInstances(raws[k])
    /\ \A j, k \in DOMAIN raws : raws[j].cell = raws[k].cell => j = k

\* An address is <<cell>> for a single instance and <<cell, instance>> otherwise.
PlacementsOf(spec, raws) ==
    LET k == CHOOSE k \in ConfiguredFor(raws, spec.name) : TRUE
        all == placementInstances(raws[k])
    IN  IF ConfiguredFor(raws, spec.name) = {}
        THEN <<[spec |-> spec, instance |-> Primary, address |-> <<spec.name>>]>>
        ELSE [i \in DOMAIN all |->
                [spec |-> clonePlacementSpec(spec, raws[k].config), instance |-> all[i],
                 address |-> IF Len(all) > 1 THEN <<spec.name, all[i]>> ELSE <<spec.name>>]]

buildAppPlacements(specs, raws) ==
    LET ordered == Ordered(specs)
    IN  FlattenSeq([k \in DOMAIN ordered |-> PlacementsOf(ordered[k], raws)])

\* A unit's artifact is a cell that offers what its members offer.
validExecutionUnit(specs, unit, required) ==
    /\ unit.name # 0
    /\ ~Bad(unit.artifact)
    /\ verifyWASMDigest(unit.artifact, required)
    /\ Cardinality(unit.members) >= 2
    /\ unit.members \subseteq Names(specs)
    /\ \A n \in unit.members : specs[IndexOf(specs, n)].provides \subseteq unit.artifact.provides

buildExecutionUnits(specs, units, required) ==
    /\ \A k \in DOMAIN units : validExecutionUnit(specs, units[k], required)
    /\ \A j, k \in DOMAIN units : j # k => units[j].members \cap units[k].members = {}

----------------------------------------------------------------------------
(* the application: LoadApp.  raw.cells are the listed files with the path  *)
(* of each, raw.orchestrator names one of the paths and pins a script.      *)

LoadedUnits(raw, env) ==
    [k \in DOMAIN raw.units |-> [raw.units[k] EXCEPT !.artifact = Load(@, env), !.members = @ \ {0}]]

LoadApp(raw, env) ==
    LET loaded == [k \in DOMAIN raw.cells |-> Load(raw.cells[k].manifest, env)]
        main == {k \in DOMAIN raw.cells : raw.cells[k].path = raw.orchestrator.path}
        specs == [k \in DOMAIN loaded |->
                    IF k \in main THEN [loaded[k] EXCEPT !.config = ("script" :> raw.orchestrator.script) @@ @]
                    ELSE loaded[k]]
        units == LoadedUnits(raw, env)
        placements == buildAppPlacements(specs, raw.placements)
        fused == UNION {units[k].members : k \in DOMAIN units}
    IN  IF \/ raw.schema \notin {0, 1}
           \/ raw.name = 0 \/ Bad(raw.version)
           \/ raw.cells = << >>
           \/ \E k \in DOMAIN raw.cells : raw.cells[k].path = 0
           \/ \E j, k \in DOMAIN raw.cells : j # k /\ raw.cells[j].path = raw.cells[k].path
           \/ main = {}
           \/ R!Sum(raw.orchestrator.script) # raw.orchestrator.pin
           \/ \E k \in DOMAIN loaded : Bad(loaded[k])
           \/ ~buildSet(specs)
           \/ ~validPlacements(specs, raw.placements)
           \/ ~buildExecutionUnits(specs, units, raw.requirePins)
           \/ \E k \in DOMAIN specs :
                specs[k].name \notin fused /\ ~verifyWASMDigest(specs[k], raw.requirePins)
           \/ Cardinality({p \in DOMAIN placements :
                    placements[p].spec.name \in {specs[k].name : k \in main}}) # 1
        THEN Invalid
        ELSE [name |-> raw.name, version |-> raw.version, cells |-> specs,
              placements |-> placements, units |-> units]

============================================================================
