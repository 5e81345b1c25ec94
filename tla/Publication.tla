---------------------------- MODULE Publication ----------------------------
(***************************************************************************)
(* Releases on their way: uploads to a hosted registry, a project that     *)
(* keeps a lock against it, and hosts whose fusion coordinators build,     *)
(* publish, resolve and start fused artifacts through a local cache that   *)
(* they share with the project and with other clients.                     *)
(*                                                                         *)
(* A publication writes to a store in steps of their own (a blob, the      *)
(* release directory, the manifest link), and a host may die between two   *)
(* of them; so does the fetch of another client.  A resolution or a        *)
(* verification of the project or of a host reads the stores in one step,  *)
(* and what it fetches is whole in the cache after that step.  Requests    *)
(* for the modules of an outage fail.                                      *)
(***************************************************************************)
EXTENDS Fusion

CONSTANTS
    Host,           \* the processes that start an application
    Upload,         \* the publications that clients send to the registry
    Instances,      \* which processes exist, what they are given, and how often
                    \* hosts may die and release statuses may be set
    ModuleIDs,      \* the modules a resolution may meet
    Fetches,        \* the releases that other clients of the cache may fetch
    Outages         \* the sets of modules the hosted registry may fail to answer for

VARIABLES
    origin,     \* the hosted registry's LocalStore
    meta,       \* its MemoryMetadata
    upload,     \* [Upload -> the command, its files, and the request under way]
    cache,      \* the LocalStore of the user cache
    fetching,   \* the releases other clients have downloaded and not yet linked
    project,    \* pulp.modules.toml: target and roots
    lock,       \* pulp.lock
    artifacts,  \* the materializer's directory, a set of digests
    host,       \* [Host -> the state of its start]
    crashes,    \* how often hosts may still die, together
    statusCalls \* how often a release status may still be set

vars == <<origin, meta, upload, cache, fetching, project, lock, artifacts, host, crashes, statusCalls>>

EmptyStore == [dirs |-> {}, manifests |-> << >>, blobs |-> {}]

----------------------------------------------------------------------------
(* what the processes are given *)

\* A store that Publish wrote and nothing else: every manifest lies in the
\* directory of its release, beside its artifacts.
StoreOK(s) ==
    /\ DOMAIN s = {"dirs", "manifests", "blobs"}
    /\ IsFiniteSet(s.dirs) /\ s.dirs \subseteq Nat \X Reg!Versions
    /\ DOMAIN s.manifests \subseteq s.dirs
    /\ \A r \in DOMAIN s.manifests :
            /\ Reg!ReleaseOf(s.manifests[r]) = r
            /\ DOMAIN s.manifests[r].deps \subseteq Nat
            /\ Reg!Digests(s.manifests[r]) \subseteq s.blobs

\* A manifest as decoded, before it is parsed.
RawOK(raw) ==
    /\ {"id", "version", "deps", "arts"} \subseteq DOMAIN raw
    /\ raw.id \in Nat /\ raw.version \in Reg!Versions
    /\ \A i \in DOMAIN raw.deps : raw.deps[i].id \in Nat
    /\ raw.arts \in Seq(Range(raw.arts))

\* A command that has not run, with its files.
UploadOK(up) ==
    /\ {"pc", "n", "raw", "file"} \subseteq DOMAIN up
    /\ up.pc = "command" /\ up.n = 0
    /\ up.command \in {"publish", "publish-refresh", "post", "publish-cell"}
    /\ RawOK(up.file)
    /\ \A k \in DOMAIN up.file.arts : DOMAIN up.file.arts[k] = {"target", "digest"}
    /\ up.command = "publish-cell" => up.id \in Nat /\ (Bad(up.cell.version) \/ up.cell.version \in Reg!Versions)

\* An attestation is one that Build wrote: it names the recipe of its artifact,
\* and Build accepted that recipe.  Nothing in the code can compare the two; a
\* registry and a host rely on the publisher for it.
Attested(target, digest) ==
    target = AttestationTarget(target[1]) /\ digest[2][1] = "attestation" =>
        LET metadata == digest[2][2]
            recipe == metadata.artifact[2][2]
        IN  metadata.recipe = RecipeDigest(recipe) /\ Buildable(recipe)

StoreAttested(s) ==
    \A r \in DOMAIN s.manifests : \A t \in DOMAIN s.manifests[r].arts : Attested(t, s.manifests[r].arts[t])
RawAttested(raw) == \A k \in DOMAIN raw.arts : Attested(raw.arts[k].target, raw.arts[k].digest)
UploadAttested(up) ==
    /\ RawAttested(up.file)
    /\ \A t \in DOMAIN up.bytes : Attested(t, Reg!Sum(up.bytes[t]))
    /\ up.command = "publish-cell" => Attested(up.target, Reg!Sum(up.cell.wasm))

\* The release a host resolves its fused artifact to.
ConfigOK(config) == config.module \in ModuleIDs /\ config.version \in Reg!Versions

\* A lock that Resolve made: the releases it names admit one another.  The
\* manifest of a locked module is known by its digest.
LockedManifest(lok, id) == lok.modules[id].manifest[2]
LockOK(lok) ==
    /\ \A root \in lok.roots :
            root.id \in DOMAIN lok.modules /\ Reg!Matches(root.req, lok.modules[root.id].version)
    /\ \A id \in DOMAIN lok.modules :
            LET lm == lok.modules[id]
                m == LockedManifest(lok, id)
            IN  /\ lm.manifest = Reg!Sum(m)
                /\ DOMAIN lm.deps = DOMAIN m.deps
                /\ \A d \in DOMAIN m.deps :
                        /\ d \in DOMAIN lok.modules
                        /\ lm.deps[d] = lok.modules[d].version
                        /\ Reg!Matches(m.deps[d], lok.modules[d].version)
                /\ lok.target \in DOMAIN m.arts
                /\ m.arts[lok.target] = lm.artifact

LocksFor(lok, p) == lok # Reg!NoLock /\ lok.target = p.target /\ lok.roots = p.roots

\* A lock the project begins with was made from the registry's releases, and
\* not from what a host of the same cache publishes.
GivenLock(i, lok) ==
    LocksFor(lok, i.project) =>
        /\ LockOK(lok)
        /\ \A id \in DOMAIN lok.modules :
                LET r == <<id, lok.modules[id].version>>
                IN  /\ r \in DOMAIN i.origin.manifests
                    /\ i.origin.manifests[r] = LockedManifest(lok, id)
                    /\ \A h \in Host :
                            i.hosts[h].app = Invalid \/ <<i.hosts[h].module, i.hosts[h].version>> # r

ASSUME ModuleIDsAssumption == ModuleIDs \subseteq Nat \ {0}

ASSUME OutagesAssumption == Outages \subseteq SUBSET ModuleIDs /\ {} \in Outages

ASSUME InstancesAssumption ==
    \A i \in Instances :
        /\ StoreOK(i.origin) /\ StoreAttested(i.origin)
        /\ \A u \in Upload :
                i.uploads[u].pc = "off" \/ (UploadOK(i.uploads[u]) /\ UploadAttested(i.uploads[u]))
        /\ \A root \in i.project.roots : root.id \in Nat
        /\ \A lok \in i.locks : GivenLock(i, lok)
        /\ \A h \in Host : i.hosts[h].app = Invalid \/ ConfigOK(i.hosts[h])

----------------------------------------------------------------------------

\* The stores as the project and the coordinators see them during an outage,
\* and without one.
Seen(down) == Reg!View(cache, origin, meta, down, ModuleIDs)
Store == Seen({})

Fresh(config) ==
    [config |-> config, pc |-> IF config.app = Invalid THEN "off" ELSE "load", k |-> 1, n |-> 0,
     app |-> Invalid, units |-> << >>, recipe |-> << >>, why |-> "", layout |-> Invalid]

\* OpenLocal has created the empty directories; an instance may begin with
\* releases that were published before.
Init ==
    \E i \in Instances :
        /\ origin = i.origin
        /\ meta = [status |-> << >>, owners |-> << >>]
        /\ upload = [u \in Upload |-> i.uploads[u]]
        /\ cache = EmptyStore
        /\ fetching = {}
        /\ project = i.project
        /\ lock \in i.locks
        /\ artifacts = {}
        /\ host = [h \in Host |-> Fresh(i.hosts[h])]
        /\ crashes = i.crashes
        /\ statusCalls = i.statusCalls

----------------------------------------------------------------------------
(* LocalStore.Publish, one write at a time *)

\* writeImmutable of an artifact: the path is the digest, so what is there is
\* what would be written.
WriteBlob(s, d) == [s EXCEPT !.blobs = @ \cup {d}]

\* Faulty variant: the manifest does not wait for the artifacts.
BlobsWrittenOrNot(n, raw) == n <= Len(raw.arts)

\* The artifacts have all been written.
BlobsWritten(n, raw) == n = Len(raw.arts)

\* writeImmutable of the manifest finds it there, equal or not.
Exists(s, m) == Reg!ReleaseOf(m) \in DOMAIN s.manifests
Same(s, m) == Exists(s, m) /\ s.manifests[Reg!ReleaseOf(m)] = m

\* Its MkdirAll, which makes the version visible.
MakeDirectory(s, m) == [s EXCEPT !.dirs = @ \cup {Reg!ReleaseOf(m)}]

\* Faulty variant: the new file replaces the one that is there.
LinkReplaces(s, m) ==
    [s EXCEPT !.manifests = [r \in DOMAIN @ \cup {Reg!ReleaseOf(m)} |->
                                IF r = Reg!ReleaseOf(m) THEN m ELSE @[r]]]

\* Its Link; on an existing file it is tried again and finds it.
Link(s, m) ==
    IF Exists(s, m) THEN s
    ELSE [s EXCEPT !.manifests = [r \in DOMAIN @ \cup {Reg!ReleaseOf(m)} |->
                                    IF r = Reg!ReleaseOf(m) THEN m ELSE @[r]]]

----------------------------------------------------------------------------
(* uploads: the pulp-registry command, and the handler of one request *)

Uploading(u, pc) == upload[u].pc = pc
Manifest(u) == Reg!ParseManifest(upload[u].raw)
RegistryOnly == UNCHANGED <<cache, fetching, project, lock, artifacts, host, crashes, statusCalls>>

Targets(raw) == {raw.arts[k].target : k \in DOMAIN raw.arts}

\* publish-cell makes the manifest of a release from the one of a cell.
CellRelease(cell, id, target) ==
    [id |-> id, version |-> cell.version, deps |-> << >>,
     arts |-> <<[target |-> target, digest |-> Reg!Sum(cell.wasm)]>>,
     provides |-> cell.provides, capabilities |-> cell.capabilities, abi |-> cell.execution.abi]

\* The manifest a command sends: publish checks that every artifact has its
\* file and no file is left over, and -refresh recomputes the digests.
Outgoing(up) ==
    LET cell == Load(up.cell, << >>)
    IN  CASE up.command = "publish-cell" ->
                IF Bad(cell) \/ (cell.pin # NoPin /\ ~verifyWASMDigest(cell, TRUE)) THEN Invalid
                ELSE CellRelease(cell, up.id, up.target)
          [] up.command = "post" -> up.file
          [] up.command \in {"publish", "publish-refresh"} ->
                IF Bad(Reg!ParseManifest(up.file)) \/ DOMAIN up.bytes # Targets(up.file) THEN Invalid
                ELSE IF up.command = "publish" THEN up.file ELSE Reg!RefreshArtifacts(up.file, up.bytes)

\* HTTPPublisher.Publish sends only blobs that have the digest they go by.
Sendable(up, raw) ==
    \A k \in DOMAIN raw.arts :
        raw.arts[k].target \in DOMAIN up.bytes => Reg!Sum(up.bytes[raw.arts[k].target]) = raw.arts[k].digest

Submit(u) ==
    LET raw == Outgoing(upload[u])
    IN  /\ Uploading(u, "command")
        /\ upload' = [upload EXCEPT ![u] =
                        IF ~Bad(raw) /\ Sendable(upload[u], raw)
                        THEN [@ EXCEPT !.pc = "sent", !.raw = raw]
                        ELSE [@ EXCEPT !.pc = "refused"]]
        /\ UNCHANGED <<origin, meta>>
        /\ RegistryOnly

\* The handler authenticates, parses and authorizes before anything is written.
Receive(u) ==
    /\ Uploading(u, "sent")
    /\ upload' = [upload EXCEPT ![u].pc =
                    IF upload[u].allowed /\ ~Bad(Manifest(u)) THEN "blobs" ELSE "refused"]
    /\ UNCHANGED <<origin, meta>>
    /\ RegistryOnly

\* pulp-registry serve answers now; a HostedRegistry has its metadata to write.
Written(u) == IF upload[u].hosted THEN "record" ELSE "created"

\* Publish takes the artifacts one by one; bytes that are missing or that do
\* not match end it, and what it wrote so far stays.
UploadBlob(u) ==
    LET a == upload[u].raw.arts[upload[u].n + 1]
        given == a.target \in DOMAIN upload[u].bytes /\ Reg!Sum(upload[u].bytes[a.target]) = a.digest
    IN  /\ Uploading(u, "blobs")
        /\ upload[u].n < Len(upload[u].raw.arts)
        /\ IF given
           THEN /\ origin' = WriteBlob(origin, a.digest)
                /\ upload' = [upload EXCEPT ![u].n = @ + 1]
           ELSE /\ upload' = [upload EXCEPT ![u].pc = "refused"]
                /\ UNCHANGED origin
        /\ UNCHANGED meta
        /\ RegistryOnly

UploadDirectory(u) ==
    /\ Uploading(u, "blobs")
    /\ BlobsWritten(upload[u].n, upload[u].raw)
    /\ IF Exists(origin, Manifest(u))
       THEN /\ upload' = [upload EXCEPT ![u].pc = IF Same(origin, Manifest(u)) THEN Written(u) ELSE "refused"]
            /\ UNCHANGED origin
       ELSE /\ upload' = [upload EXCEPT ![u].pc = "link"]
            /\ origin' = MakeDirectory(origin, Manifest(u))
    /\ UNCHANGED meta
    /\ RegistryOnly

UploadLink(u) ==
    /\ Uploading(u, "link")
    /\ origin' = Link(origin, Manifest(u))
    /\ upload' = [upload EXCEPT ![u].pc = IF Same(origin', Manifest(u)) THEN Written(u) ELSE "refused"]
    /\ UNCHANGED meta
    /\ RegistryOnly

\* Metadata.Record, after the release can already be read.
Record(u) ==
    LET ds == Reg!Digests(Manifest(u))
        owners(d) == IF d \in DOMAIN meta.owners THEN meta.owners[d] ELSE {}
    IN  /\ Uploading(u, "record")
        /\ upload' = [upload EXCEPT ![u].pc = "created"]
        /\ meta' = [meta EXCEPT !.owners = [d \in DOMAIN @ \cup ds |->
                        IF d \in ds THEN owners(d) \cup {Reg!ReleaseOf(Manifest(u))} ELSE @[d]]]
        /\ UNCHANGED origin
        /\ RegistryOnly

\* publish -refresh rewrites its manifest after the release is published.
Rewrite(u) ==
    /\ Uploading(u, "created")
    /\ upload[u].command = "publish-refresh"
    /\ upload' = [upload EXCEPT ![u].pc = "done", ![u].file = upload[u].raw]
    /\ UNCHANGED <<origin, meta>>
    /\ RegistryOnly

\* POST /v1/release-status for a release that is stored.
SetReleaseStatus(r, state) ==
    /\ statusCalls > 0
    /\ Reg!Status(meta, r) # state
    /\ meta' = [meta EXCEPT !.status = [x \in DOMAIN @ \cup {r} |-> IF x = r THEN state ELSE @[x]]]
    /\ statusCalls' = statusCalls - 1
    /\ UNCHANGED <<origin, upload, cache, fetching, project, lock, artifacts, host, crashes>>

----------------------------------------------------------------------------
(* another client of the cache fetches a release: CachedStore.Manifest      *)

CacheOnly == UNCHANGED <<origin, meta, upload, project, lock, artifacts, host, crashes, statusCalls>>

Download(r) ==
    /\ r \notin fetching
    /\ Reg!Fetchable(cache, origin, meta, {}, r)
    /\ fetching' = fetching \cup {r}
    /\ UNCHANGED cache
    /\ CacheOnly

FetchBlob(r, d) ==
    /\ r \in fetching
    /\ d \in Reg!Digests(origin.manifests[r]) \ cache.blobs
    /\ cache' = WriteBlob(cache, d)
    /\ UNCHANGED fetching
    /\ CacheOnly

FetchDirectory(r) ==
    /\ r \in fetching \ cache.dirs
    /\ Reg!Digests(origin.manifests[r]) \subseteq cache.blobs
    /\ cache' = MakeDirectory(cache, origin.manifests[r])
    /\ UNCHANGED fetching
    /\ CacheOnly

FetchLink(r) ==
    /\ r \in fetching \cap cache.dirs
    /\ Reg!Digests(origin.manifests[r]) \subseteq cache.blobs
    /\ cache' = Link(cache, origin.manifests[r])
    /\ fetching' = fetching \ {r}
    /\ CacheOnly

Fetch(r) ==
    Download(r) \/ (\E d \in Reg!Digests(origin.manifests[r]) : FetchBlob(r, d)) \/ FetchDirectory(r) \/ FetchLink(r)

----------------------------------------------------------------------------
(* the project: pulp-registry sync *)

\* ParseProject refuses a project without modules and one that names a module twice.
ParseProject(p) == p.roots # {} /\ \A a, b \in p.roots : a.id = b.id => a = b

\* Faulty variant: a lock is only kept while it names the newest versions.
KeepsLockIfNewest(view) ==
    lock = Reg!Resolve(view, project.target, project.roots)

\* EnsureProjectLock keeps a lock for the same target and roots that verifies.
KeepsLock(view) ==
    /\ lock # Reg!NoLock
    /\ lock.target = project.target
    /\ lock.roots = project.roots
    /\ Reg!Verify(view, lock)

\* The manifests a verification or a resolution reads are cached by it.
Verified(down) ==
    LET read == IF lock # Reg!NoLock /\ lock.target = project.target /\ lock.roots = project.roots
                THEN Reg!VerifyReads(Seen(down), lock) ELSE {}
    IN  Reg!Filled(cache, origin, meta, down, read)

\* Any error of the verification, also one of the network, makes the project
\* resolve again.
Sync(down, then) ==
    LET verified == Verified(down)
        view == Reg!View(verified, origin, meta, then, ModuleIDs)
        solved == Reg!Solve(view, project.roots)
        new == Reg!Resolve(view, project.target, project.roots)
    IN  /\ ParseProject(project)
        /\ IF KeepsLock(Seen(down))
           THEN cache' = verified /\ UNCHANGED lock
           ELSE /\ cache' = Reg!Filled(verified, origin, meta, then, solved.asked)
                /\ lock' = IF new = Reg!NoLock THEN lock ELSE new
        /\ UNCHANGED <<origin, meta, upload, fetching, project, artifacts, host, crashes, statusCalls>>

----------------------------------------------------------------------------
(* a host starts its application *)

At(h, pc) == host[h].pc = pc
Config(h) == host[h].config
App(h) == host[h].app
GroupOf(h) == Groups(App(h).cells)[host[h].k]
Step(h, next) == host' = [host EXCEPT ![h] = next]
HostOnly == UNCHANGED <<origin, meta, upload, fetching, project, lock, crashes, statusCalls>>
NoWrite == UNCHANGED <<cache, artifacts>>

\* Prepare failed: the group stays isolated if the request allows it, and the
\* start fails otherwise.
Fallback(h, why) ==
    IF Config(h).fallback
    THEN [host[h] EXCEPT !.pc = "group", !.k = @ + 1, !.n = 0, !.recipe = << >>, !.why = why]
    ELSE [host[h] EXCEPT !.pc = "failed", !.why = why]

LoadApplication(h) ==
    LET app == LoadApp(Config(h).app, Config(h).env)
    IN  /\ At(h, "load")
        /\ Step(h, [host[h] EXCEPT !.app = app, !.pc = IF Bad(app) THEN "failed" ELSE "group"])
        /\ HostOnly /\ NoWrite

\* prepareAutomaticFusion's loop, and the layout after it.
NextGroup(h) ==
    LET app == App(h)
        layout == Layout(app, app.units \o host[h].units)
    IN  /\ At(h, "group")
        /\ IF host[h].k \notin DOMAIN Groups(app.cells)
           THEN Step(h, [host[h] EXCEPT !.layout = layout, !.pc = IF Bad(layout) THEN "failed" ELSE "started"])
           ELSE Step(h, [host[h] EXCEPT
                            !.pc = CASE OverlapsUnit(app, GroupOf(h)) -> "failed"
                                     [] CoveredMembers(app, GroupOf(h)) = {} -> "recipe"
                                     [] OTHER -> "group",
                            !.k = IF ~OverlapsUnit(app, GroupOf(h)) /\ CoveredMembers(app, GroupOf(h)) # {}
                                  THEN @ + 1 ELSE @])
        /\ HostOnly /\ NoWrite

\* FusionSource of a bound release, which caches it.
SourceOf(view, r) == view.manifests[r].arts[<<"source">>][2][2] @@ [version |-> r[2]]
HasSource(view, r) == r \in DOMAIN view.manifests /\ <<"source">> \in DOMAIN view.manifests[r].arts

ReadSources(h, down) ==
    LET view == Seen(down)
        bound == {n \in DOMAIN Config(h).bindings \cap MemberNames(GroupOf(h)) :
                    HasSource(view, Config(h).bindings[n])}
        sources == [n \in bound |-> SourceOf(view, Config(h).bindings[n])]
    IN  /\ At(h, "recipe")
        /\ cache' = Reg!Filled(cache, origin, meta, down, {Config(h).bindings[n] : n \in bound})
        /\ Step(h, IF RecipeValid(GroupOf(h), Config(h).go, sources)
                   THEN [host[h] EXCEPT !.pc = "exists", !.recipe = NewRecipe(GroupOf(h), Config(h).go, sources)]
                   ELSE Fallback(h, "recipe"))
        /\ UNCHANGED artifacts
        /\ HostOnly

Fused(h) == <<Config(h).module, Config(h).version>>

\* releaseExists lists the versions, not the manifests.
ReleaseExists(h, down) ==
    LET fails == Reg!ListingFails(cache, origin, meta, down, Fused(h)[1])
        listed == Fused(h)[2] \in Seen(down).versions[Fused(h)[1]]
    IN  /\ At(h, "exists")
        /\ Step(h, CASE fails -> Fallback(h, "list")
                     [] ~fails /\ listed -> [host[h] EXCEPT !.pc = "resolve"]
                     [] ~fails /\ ~listed /\ Config(h).publishes -> [host[h] EXCEPT !.pc = "build"]
                     [] OTHER -> Fallback(h, "absent"))
        /\ HostOnly /\ NoWrite

\* Builder.Build; the toolchain may fail on any recipe.
Build(h) ==
    /\ At(h, "build")
    /\ \/ Buildable(host[h].recipe) /\ Step(h, [host[h] EXCEPT !.pc = "blobs"])
       \/ Step(h, Fallback(h, "build"))
    /\ HostOnly /\ NoWrite

Result(h) == BuildResult(host[h].recipe, Config(h).toolchain)
Publishing(h) == RegistryPublication(Result(h), Fused(h)[1], Fused(h)[2], Config(h).target)
FusedManifest(h) == Reg!ParseManifest(Publishing(h))

PublishBlob(h) ==
    /\ At(h, "blobs")
    /\ ~BlobsWritten(host[h].n, Publishing(h))
    /\ cache' = WriteBlob(cache, Publishing(h).arts[host[h].n + 1].digest)
    /\ Step(h, [host[h] EXCEPT !.n = @ + 1])
    /\ UNCHANGED artifacts
    /\ HostOnly

PublishDirectory(h) ==
    /\ At(h, "blobs")
    /\ BlobsWritten(host[h].n, Publishing(h))
    /\ cache' = IF Exists(cache, FusedManifest(h)) THEN cache ELSE MakeDirectory(cache, FusedManifest(h))
    /\ Step(h, CASE ~Exists(cache, FusedManifest(h)) -> [host[h] EXCEPT !.pc = "link"]
                 [] Same(cache, FusedManifest(h)) -> [host[h] EXCEPT !.pc = "resolve"]
                 [] OTHER -> Fallback(h, "conflict"))
    /\ UNCHANGED artifacts
    /\ HostOnly

PublishLink(h) ==
    /\ At(h, "link")
    /\ cache' = Link(cache, FusedManifest(h))
    /\ Step(h, IF Same(cache', FusedManifest(h)) THEN [host[h] EXCEPT !.pc = "resolve"]
               ELSE Fallback(h, "conflict"))
    /\ UNCHANGED artifacts
    /\ HostOnly

FusedLock(h, view) ==
    Reg!Resolve(view, <<Config(h).target>>, {[id |-> Fused(h)[1], req |-> [op |-> "exact", base |-> Fused(h)[2]]]})

\* Resolve caches the release if it comes from the hosted registry.
ResolveRelease(h, down) ==
    /\ At(h, "resolve")
    /\ cache' = Reg!Filled(cache, origin, meta, down, {Fused(h)})
    /\ Step(h, IF FusedLock(h, Seen(down)) = Reg!NoLock THEN Fallback(h, "resolve") ELSE [host[h] EXCEPT !.pc = "select"])
    /\ UNCHANGED artifacts
    /\ HostOnly

\* The blobs of the selected release: the locked artifact, and the metadata of
\* its attestation.
SelectedWasm(fused, id) == fused.modules[id].artifact[2]
SelectedMetadata(view, fused, id) ==
    view.manifests[<<id, fused.modules[id].version>>].arts[AttestationTarget(fused.target[1])][2][2]

\* SelectFromRegistry, Materialize, ValidateCellArtifact and the activation.
Activate(h, down) ==
    LET view == Seen(down)
        fused == FusedLock(h, view)
        wasm == SelectedWasm(fused, Fused(h)[1])
        metadata == SelectedMetadata(view, fused, Fused(h)[1])
        physical == PhysicalSpec(Config(h).physical, Fused(h)[2], metadata, wasm)
        selected == /\ Reg!Verify(view, fused)
                    /\ SelectFromRegistry(view, fused, Fused(h)[1], host[h].recipe)
                    /\ ValidateCellArtifact(physical, metadata, wasm)
    IN  /\ At(h, "select")
        /\ artifacts' = IF selected THEN Materialize(artifacts, wasm) ELSE artifacts
        /\ Step(h, IF selected
                   THEN [host[h] EXCEPT !.pc = "group", !.k = @ + 1, !.n = 0, !.recipe = << >>,
                                        !.units = Append(@, AutomaticUnit(GroupOf(h), physical))]
                   ELSE Fallback(h, "select"))
        /\ UNCHANGED cache
        /\ HostOnly

\* The process dies during its start and is started again.
Crash(h) ==
    /\ host[h].pc \notin {"off", "load", "started", "failed"}
    /\ crashes > 0
    /\ crashes' = crashes - 1
    /\ Step(h, Fresh(Config(h)))
    /\ UNCHANGED <<origin, meta, upload, cache, fetching, project, lock, artifacts, statusCalls>>

----------------------------------------------------------------------------

Uploads(u) ==
    \/ Submit(u) \/ Receive(u) \/ UploadBlob(u) \/ UploadDirectory(u) \/ UploadLink(u)
    \/ Record(u) \/ Rewrite(u)

Prepare(h) ==
    \/ \E down \in Outages :
            ReadSources(h, down) \/ ReleaseExists(h, down) \/ ResolveRelease(h, down) \/ Activate(h, down)
    \/ Build(h) \/ PublishBlob(h) \/ PublishDirectory(h) \/ PublishLink(h)

Next ==
    \/ \E u \in Upload : Uploads(u)
    \/ \E r \in DOMAIN origin.manifests, state \in {"active", "yanked", "revoked"} : SetReleaseStatus(r, state)
    \/ \E r \in DOMAIN origin.manifests \cap Fetches : Fetch(r)
    \/ \E down, then \in Outages : Sync(down, then)
    \/ \E h \in Host : LoadApplication(h) \/ NextGroup(h) \/ Prepare(h) \/ Crash(h)

Spec == Init /\ [][Next]_vars

----------------------------------------------------------------------------
(* properties *)

\* Whatever fails or dies between two writes, a manifest that can be read has
\* all its artifacts beside it, in the registry and in the cache (LocalStore.Publish
\* writes the manifest last).
ReleaseIsComplete ==
    \A s \in {origin, cache} : \A r \in DOMAIN s.manifests : Reg!Digests(s.manifests[r]) \subseteq s.blobs

\* No upload, no coordinator and no fetch changes or removes a release that a
\* store holds, also when two of them publish different bytes under one version
\* at the same time (writeImmutable).
ReleasesAreImmutable ==
    [][/\ \A r \in DOMAIN origin.manifests :
            r \in DOMAIN origin'.manifests /\ origin'.manifests[r] = origin.manifests[r]
       /\ \A r \in DOMAIN cache.manifests :
            r \in DOMAIN cache'.manifests /\ cache'.manifests[r] = cache.manifests[r]]_<<origin, cache>>

\* At every moment of every publication the solver finds a selection of versions
\* exactly when one exists, prefers the newest version of the first root, and
\* what Resolve locks passes Verify on the same stores.
ResolutionIsExact ==
    ParseProject(project) =>
        \A down \in Outages :
            LET view == Seen(down)
                new == Reg!Resolve(view, project.target, project.roots)
            IN  /\ Reg!SolvesExactly(view, project.roots)
                /\ new # Reg!NoLock => Reg!Verify(view, new)

LockedReleases == {<<id, lock.modules[id].version>> : id \in DOMAIN lock.modules}

\* A locked release can be had neither from the cache nor from the registry.
Withdrawn == \E r \in LockedReleases : r \notin DOMAIN Store.manifests

\* A locked release is not cached, and the registry may fail to answer for it.
OutOfReach == \E r \in LockedReleases \ DOMAIN cache.manifests : r[1] \in UNION Outages

Relocked == lock # Reg!NoLock => lock.target # project.target \/ lock.roots # project.roots

\* A sync moves an existing lock only when the project asks for something else,
\* when a locked release is gone, or when one is not cached and the registry may
\* be out of reach: newer releases, and a release that is yanked or revoked
\* after it was cached, leave the lock as it is, and so does any outage once
\* the locked releases are cached (EnsureProjectLock).
LockIsStable == [][Relocked \/ Withdrawn \/ OutOfReach]_lock

\* A lock for the same project whose releases the registry still has is kept,
\* whether the registry can be reached or not (docs/MODULE_WORKFLOW.md).
ValidLockIsReused == [][Relocked \/ Withdrawn]_lock

\* What a host starts in place of its cells was built from exactly its own
\* cells, sources and Go version, whoever published it, and brings exactly
\* their providers and capabilities (SelectFromRegistry).
FusedMatchesRecipe ==
    \A h \in Host : \A k \in DOMAIN host[h].units :
        LET unit == host[h].units[k]
            ours == [n \in unit.members |-> SourceOf(cache, Config(h).bindings[n])]
        IN  /\ Reg!Sum(unit.artifact.wasm) \in artifacts
            /\ \E group \in Range(Groups(App(h).cells)) :
                /\ unit.members = MemberNames(group)
                /\ unit.artifact.wasm[2] = NewRecipe(group, Config(h).go, ours)
                /\ unit.artifact.provides = UNION {m.provides : m \in Range(group.members)}
                /\ \A m \in Range(group.members) : m.capabilities = unit.artifact.capabilities

UnitsOf(h) == App(h).units \o host[h].units

\* The places in the start order at which each cell runs.
RunsAt(h) ==
    LET placements == executionPlacements(App(h), UnitsOf(h))
        start == host[h].layout.start
        hosts == [n \in Names(App(h).cells) |-> Hosts(App(h), UnitsOf(h), placements, n)]
    IN  [n \in Names(App(h).cells) |-> {k \in DOMAIN start : start[k] \in hosts[n]}]

\* The layout a host starts with runs every cell of its manifest, one artifact
\* for the cells that are fused unless two units have one name, and starts each
\* placement after every placement of what its cells depend on
\* (physicalDependencyPlan).
LayoutIsSound ==
    \A h \in Host : At(h, "started") =>
        LET app == App(h)
            units == UnitsOf(h)
            at == RunsAt(h)
            alike == \E j, k \in DOMAIN units : j # k /\ units[j].name = units[k].name
        IN  /\ \A n \in Names(app.cells) :
                    \/ alike /\ IsMember(units, n)
                    \/ Cardinality(at[n]) =
                            IF IsMember(units, n) THEN 1
                            ELSE Cardinality({p \in DOMAIN app.placements : app.placements[p].spec.name = n})
            /\ \A i \in DOMAIN app.cells : \A d \in app.cells[i].dependsOn :
                    \A j \in at[d], k \in at[app.cells[i].name] : j # k => j < k

\* Every cell of an application that has started runs in some placement
\* (ExecutionUnit: the artifact of a unit is instantiated).
EveryCellRuns == \A h \in Host : At(h, "started") => \A n \in Names(App(h).cells) : RunsAt(h)[n] # {}

\* A release that is missing is built: no preparation gives up because it
\* cannot resolve a release that nobody has published and nobody is publishing
\* (Coordinator, and the atomicity LocalStore.Publish promises).
MissingIsBuilt ==
    \A h \in Host :
        host[h].why = "resolve" =>
            Fused(h) \in DOMAIN cache.manifests \/ \E g \in Host : At(g, "link")

============================================================================
