------------------------------ MODULE Registry ------------------------------
(***************************************************************************)
(* The module registry without its processes (registry/): versions and     *)
(* requirements, manifests, what a local store, a hosted registry and a    *)
(* cached store answer, and resolution and verification of a lock.         *)
(*                                                                         *)
(* A module ID is a number that orders like the string; 0 is a text that   *)
(* ParseModuleID refuses.  Bytes are represented by themselves and Sum by  *)
(* a tagged copy: equal digests are equal bytes.  A size is a function of  *)
(* the bytes and is left out.                                              *)
(*                                                                         *)
(* The hosted registry has no mirrors: nothing in the repository sets      *)
(* HostedRegistry.Mirrors.  down is the set of modules for which requests  *)
(* to it fail; a blob that cannot be had fails the release it is in.       *)
(***************************************************************************)
EXTENDS Integers, Sequences, FiniteSets, SequencesExt, FiniteSetsExt

Missing == [err |-> "not found"]
Refused == [err |-> "refused"]
Unreached == [err |-> "unreached"]
Failed == {Missing, Refused, Unreached}

Sum(bytes) == <<"sha256", bytes>>

----------------------------------------------------------------------------
(* versions: pre is a sequence of identifiers, each with a flag num and a   *)
(* value that orders within the numeric and within the other identifiers   *)

Identifiers == [num : BOOLEAN, val : Nat]
Versions == [major : Nat, minor : Nat, patch : Nat, pre : Seq(Identifiers)]

Sign(x, y) == IF x < y THEN -1 ELSE IF x > y THEN 1 ELSE 0

CompareIdentifier(x, y) ==
    IF x.num = y.num THEN Sign(x.val, y.val) ELSE IF x.num THEN -1 ELSE 1

ComparePre(a, b) ==
    LET differ == {i \in 1 .. Min({Len(a), Len(b)}) : a[i] # b[i]}
    IN  IF a = b THEN 0
        ELSE IF a = << >> THEN 1
        ELSE IF b = << >> THEN -1
        ELSE IF differ # {} THEN CompareIdentifier(a[Min(differ)], b[Min(differ)])
        ELSE IF Len(a) < Len(b) THEN -1 ELSE 1

Release3(v) == <<v.major, v.minor, v.patch>>

Compare(v, o) ==
    LET differ == {i \in 1 .. 3 : Release3(v)[i] # Release3(o)[i]}
    IN  IF differ # {} THEN Sign(Release3(v)[Min(differ)], Release3(o)[Min(differ)])
        ELSE ComparePre(v.pre, o.pre)

Version(major, minor, patch) == [major |-> major, minor |-> minor, patch |-> patch, pre |-> << >>]

\* The first version a caret requirement no longer admits.
CaretUpper(b) ==
    IF b.major > 0 THEN Version(b.major + 1, 0, 0)
    ELSE IF b.minor > 0 THEN Version(0, b.minor + 1, 0)
    ELSE Version(0, 0, b.patch + 1)

Matches(req, v) ==
    CASE req.op = "any" -> v.pre = << >>
      [] req.op = "caret" ->
            Compare(v, req.base) >= 0 /\ Compare(v, CaretUpper(req.base)) < 0 /\ v.pre = << >>
      [] req.op = "tilde" ->
            /\ Compare(v, req.base) >= 0
            /\ Compare(v, Version(req.base.major, req.base.minor + 1, 0)) < 0
            /\ v.pre = << >>
      [] req.op = "exact" -> Compare(v, req.base) = 0

\* The version that a list of these versions, newest first, begins with.
Newest(vs) == CHOOSE v \in vs : \A o \in vs : Compare(v, o) >= 0

----------------------------------------------------------------------------
(* manifests: a raw one lists its dependencies and artifacts, a parsed one  *)
(* maps a module to its requirement and a target to its artifact            *)

\* The function a list of records denotes when key has no duplicates in it.
Keyed(list, key(_), value(_)) ==
    [k \in {key(list[i]) : i \in DOMAIN list} |->
        value(list[CHOOSE i \in DOMAIN list : key(list[i]) = k])]

Distinct(list, key(_)) == \A i, j \in DOMAIN list : key(list[i]) = key(list[j]) => i = j

ParseManifest(raw) ==
    LET id(d) == d.id
        target(a) == a.target
    IN  IF \/ raw.id = 0
           \/ \E i \in DOMAIN raw.deps : raw.deps[i].id = 0
           \/ raw.arts = << >>
           \/ ~Distinct(raw.deps, id)
           \/ ~Distinct(raw.arts, target)
        THEN Refused
        ELSE [id |-> raw.id, version |-> raw.version,
              deps |-> Keyed(raw.deps, id, LAMBDA d : d.req),
              arts |-> Keyed(raw.arts, target, LAMBDA a : a.digest),
              provides |-> raw.provides, capabilities |-> raw.capabilities, abi |-> raw.abi]

ReleaseOf(m) == <<m.id, m.version>>
Digests(m) == Range(m.arts)

\* RefreshArtifacts: the digests follow the bytes at hand.
RefreshArtifacts(raw, bytes) ==
    [raw EXCEPT !.arts = [i \in DOMAIN raw.arts |->
        [raw.arts[i] EXCEPT !.digest = Sum(bytes[raw.arts[i].target])]]]

----------------------------------------------------------------------------
(* what a store answers.  A local store is a directory: dirs are the        *)
(* release directories, manifests and blobs the files that are linked.      *)

LocalVersions(s, id) == {r[2] : r \in {r \in s.dirs : r[1] = id}}

LocalManifest(s, r) == IF r \in DOMAIN s.manifests THEN s.manifests[r] ELSE Missing

\* Status and AllowBlob of MemoryMetadata: meta.status has the states that were
\* set, meta.owners the releases Record has noted for a blob.
Status(meta, r) == IF r \in DOMAIN meta.status THEN meta.status[r] ELSE "active"

AllowBlob(meta, d) ==
    d \in DOMAIN meta.owners => \E r \in meta.owners[d] : Status(meta, r) # "revoked"

HostedVersions(s, meta, id) ==
    IF LocalVersions(s, id) = {} THEN Missing
    ELSE [versions |-> {v \in LocalVersions(s, id) : Status(meta, <<id, v>>) = "active"}]

HostedManifest(s, meta, r) ==
    IF Status(meta, r) = "revoked" THEN Refused ELSE LocalManifest(s, r)

HostedBlob(s, meta, d) ==
    CASE ~AllowBlob(meta, d) -> Refused
      [] AllowBlob(meta, d) /\ d \in s.blobs -> [bytes |-> d[2]]
      [] AllowBlob(meta, d) /\ d \notin s.blobs -> Missing

\* The read-only protocol: what the handler answers for a store, and what the
\* client makes of the answer, or of having none.
registryHTTPError(x) == CASE x = Missing -> 404 [] x = Refused -> 410 [] x \notin {Missing, Refused} -> 200

Handler(x) == [status |-> registryHTTPError(x), body |-> x]

NoResponse == [status |-> 0, body |-> Unreached]
Requested(lost, x) == IF lost THEN NoResponse ELSE Handler(x)

get(response) ==
    CASE response.status = 0 -> Unreached
      [] response.status = 404 -> Missing
      [] response.status = 200 -> response.body
      [] response.status \notin {0, 200, 404} -> Refused

HTTPVersions(s, meta, down, id) == get(Requested(id \in down, HostedVersions(s, meta, id)))

HTTPManifest(s, meta, down, r) ==
    LET m == get(Requested(r[1] \in down, HostedManifest(s, meta, r)))
    IN  IF m \in Failed THEN m ELSE IF ReleaseOf(m) = r THEN m ELSE Refused

HTTPBlob(s, meta, d) == get(Handler(HostedBlob(s, meta, d)))

\* CachedStore over one upstream.  Its Manifest publishes what it fetches into
\* the cache: Fetchable says whether that succeeds.
VerifiedBlob(s, meta, d) ==
    LET blob == HTTPBlob(s, meta, d)
    IN  blob \notin Failed /\ Sum(blob.bytes) = d

\* An upstream that fails is passed over if the cache knows the module.
CachedVersions(cache, origin, meta, down, id) ==
    LET listed == HTTPVersions(origin, meta, down, id)
    IN  LocalVersions(cache, id) \cup (IF listed \in Failed THEN {} ELSE listed.versions)

ListingFails(cache, origin, meta, down, id) ==
    LocalVersions(cache, id) = {} /\ HTTPVersions(origin, meta, down, id) \in Failed \ {Missing}

Fetchable(cache, origin, meta, down, r) ==
    LET m == HTTPManifest(origin, meta, down, r)
    IN  /\ r \notin DOMAIN cache.manifests
        /\ m \notin Failed
        /\ \A d \in Digests(m) : VerifiedBlob(origin, meta, d)

CachedManifest(cache, origin, meta, down, r) ==
    CASE r \in DOMAIN cache.manifests -> cache.manifests[r]
      [] Fetchable(cache, origin, meta, down, r) -> origin.manifests[r]
      [] r \notin DOMAIN cache.manifests /\ ~Fetchable(cache, origin, meta, down, r) -> Missing

CachedBlob(cache, origin, meta, d) == d \in cache.blobs \/ VerifiedBlob(origin, meta, d)

\* The same store once Manifest has been asked for every release in rs.
Filled(cache, origin, meta, down, rs) ==
    LET new == {r \in rs : Fetchable(cache, origin, meta, down, r)}
    IN  [dirs |-> cache.dirs \cup new,
         manifests |-> [r \in DOMAIN cache.manifests \cup new |->
                            IF r \in new THEN origin.manifests[r] ELSE cache.manifests[r]],
         blobs |-> cache.blobs \cup UNION {Digests(origin.manifests[r]) : r \in new}]

\* A view gathers what the three methods of a Store answer at one moment.
View(cache, origin, meta, down, ids) ==
    LET versions == [id \in ids |-> CachedVersions(cache, origin, meta, down, id)]
        readable == {r \in cache.dirs \cup origin.dirs : CachedManifest(cache, origin, meta, down, r) # Missing}
    IN  [versions |-> versions,
         manifests |-> [r \in readable |-> CachedManifest(cache, origin, meta, down, r)],
         blobs |-> {d \in cache.blobs \cup origin.blobs : CachedBlob(cache, origin, meta, d)}]

----------------------------------------------------------------------------
(* resolution: chosen is a set of releases, one for each module that has    *)
(* got a version, and stands for their manifests                            *)

IdsOf(chosen) == {r[1] : r \in chosen}
Deps(view, r) == view.manifests[r].deps

\* The constraints: who is required, and by which requirements.
Required(view, roots, chosen) ==
    {root.id : root \in roots} \cup UNION {DOMAIN Deps(view, r) : r \in chosen}

Admits(view, roots, chosen, id, v) ==
    /\ \A root \in roots : root.id = id => Matches(root.req, v)
    /\ \A r \in chosen : id \in DOMAIN Deps(view, r) => Matches(Deps(view, r)[id], v)

\* Faulty variant: what was chosen before is not looked at again.
AgreesUnchecked(view, chosen, r) == TRUE

\* The requirements of a candidate admit what was chosen before it.
Agrees(view, chosen, r) ==
    \A q \in chosen : q[1] \in DOMAIN Deps(view, r) => Matches(Deps(view, r)[q[1]], q[2])

Listed(view) == UNION {{id} \X view.versions[id] : id \in DOMAIN view.versions}

Readable(view) == Listed(view) \cap DOMAIN view.manifests

\* The first module without a version, and its versions that are still to be tried.
Open(view, roots, chosen) == Required(view, roots, chosen) \ IdsOf(chosen)

Left(view, roots, chosen, tried) ==
    LET id == Min(Open(view, roots, chosen))
    IN  {r \in Listed(view) \ tried : r[1] = id /\ Admits(view, roots, chosen, id, r[2])}

Candidate(left) == CHOOSE r \in left : r[2] = Newest({q[2] : q \in left})

Unsolved == [ok |-> FALSE, chosen |-> {}, asked |-> {}]

\* A candidate is kept if the search below it succeeds; asked are the releases
\* whose manifests are read.
Tried(r, deeper, without) ==
    [(IF deeper.ok THEN deeper ELSE without) EXCEPT !.asked = @ \cup deeper.asked \cup {r}]

\* solve takes the newest version of the module that leads to a solution.
Solve(view, roots) ==
    LET search[at \in (SUBSET Readable(view)) \X (SUBSET Listed(view))] ==
            LET chosen == at[1]
                left == Left(view, roots, chosen, at[2])
                deeper(r) == IF r \in Readable(view) /\ Agrees(view, chosen, r)
                             THEN search[<<chosen \cup {r}, {}>>] ELSE Unsolved
                try(r) == Tried(r, deeper(r), search[<<chosen, at[2] \cup {r}>>])
            IN  IF Open(view, roots, chosen) = {} THEN [ok |-> TRUE, chosen |-> chosen, asked |-> {}]
                ELSE IF left = {} THEN Unsolved
                ELSE try(Candidate(left))
    IN  search[<<{}, {}>>]

\* checkCycles: no module reaches itself through the chosen manifests.
CheckCycles(view, chosen) ==
    \A S \in SUBSET chosen : S # {} => \E r \in S : DOMAIN Deps(view, r) \cap IdsOf(S) = {}

NoLock == [err |-> "no lock"]

VersionsOf(chosen) == [id \in IdsOf(chosen) |-> (CHOOSE r \in chosen : r[1] = id)[2]]

\* The lock of a solution, with the manifest m of each module.
Locked(target, roots, version, m) ==
    IF \E id \in DOMAIN m : target \notin DOMAIN m[id].arts THEN NoLock
    ELSE [target |-> target, roots |-> roots,
          modules |-> [id \in DOMAIN m |->
              [version |-> version[id], manifest |-> Sum(m[id]), artifact |-> m[id].arts[target],
               deps |-> [d \in DOMAIN m[id].deps |-> version[d]]]]]

ManifestsOf(view, version) == [id \in DOMAIN version |-> view.manifests[<<id, version[id]>>]]

LockOf(view, target, roots, solved) ==
    IF ~solved.ok \/ ~CheckCycles(view, solved.chosen) THEN NoLock
    ELSE LET version == VersionsOf(solved.chosen) IN Locked(target, roots, version, ManifestsOf(view, version))

Resolve(view, target, roots) == LockOf(view, target, roots, Solve(view, roots))

RootsVerify(lock) ==
    \A root \in lock.roots :
        root.id \in DOMAIN lock.modules /\ Matches(root.req, lock.modules[root.id].version)

ModuleVerifies(view, lock, id) ==
    LET lm == lock.modules[id]
        m == view.manifests[<<id, lm.version>>]
    IN  /\ <<id, lm.version>> \in DOMAIN view.manifests
        /\ Sum(m) = lm.manifest
        /\ DOMAIN lm.deps = DOMAIN m.deps
        /\ \A d \in DOMAIN m.deps :
                /\ d \in DOMAIN lock.modules
                /\ lm.deps[d] = lock.modules[d].version
                /\ Matches(m.deps[d], lock.modules[d].version)
        /\ lock.target \in DOMAIN m.arts
        /\ m.arts[lock.target] = lm.artifact
        /\ lm.artifact \in view.blobs

Verify(view, lock) ==
    lock # NoLock /\ RootsVerify(lock) /\ \A id \in DOMAIN lock.modules : ModuleVerifies(view, lock, id)

\* The releases whose manifests Verify reads: it stops at the first module that fails.
VerifyReads(view, lock) ==
    IF lock = NoLock \/ ~RootsVerify(lock) THEN {}
    ELSE {<<id, lock.modules[id].version>> :
            id \in {i \in DOMAIN lock.modules :
                    \A j \in DOMAIN lock.modules : j < i => ModuleVerifies(view, lock, j)}}

----------------------------------------------------------------------------
(* what resolution is for, without a search order *)

\* The selections of one listed and readable version per module that satisfy the roots and
\* each other, and contain nothing that no root leads to.  What a module requires
\* of itself is left to the search for cycles, which refuses it.
Selections(view, roots) ==
    LET readable(id) == {v \in view.versions[id] : <<id, v>> \in DOMAIN view.manifests}
        ids == {id \in DOMAIN view.versions : readable(id) # {}}
        deps(sel, id) == view.manifests[<<id, sel[id]>>].deps
        needs(sel, S) == S \cup UNION {DOMAIN deps(sel, id) : id \in S}
    IN  {sel \in UNION {[S -> UNION {readable(id) : id \in S}] : S \in SUBSET ids} :
            /\ \A id \in DOMAIN sel : sel[id] \in readable(id)
            /\ \A root \in roots : root.id \in DOMAIN sel /\ Matches(root.req, sel[root.id])
            /\ \A id \in DOMAIN sel : \A d \in DOMAIN deps(sel, id) \ {id} :
                    d \in DOMAIN sel /\ Matches(deps(sel, id)[d], sel[d])
            /\ \A S \in SUBSET DOMAIN sel :
                    {root.id : root \in roots} \subseteq S /\ needs(sel, S) = S => S = DOMAIN sel}

\* An answer against all selections.
IsBest(solved, all, first) ==
    IF ~solved.ok THEN all = {}
    ELSE \E sel \in all :
            /\ solved.chosen = {<<id, sel[id]>> : id \in DOMAIN sel}
            /\ \A other \in all : Compare(sel[first], other[first]) >= 0

\* The solver finds a selection whenever there is one, and the newest possible
\* version of the first root.
SolvesExactly(view, roots) ==
    IsBest(Solve(view, roots), Selections(view, roots), Min({root.id : root \in roots}))

============================================================================
