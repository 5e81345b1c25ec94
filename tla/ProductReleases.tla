-------------------------- MODULE ProductReleases --------------------------
(***************************************************************************)
(* The product commands (internal/productcli/command.go) and digest-gate   *)
(* (internal/pulpcli/command.go) as processes over one checkout, one       *)
(* assembly directory and one release store: RefreshHostDigests, assemble, *)
(* the package command, InstallRelease, ActivateRelease, RollbackRelease.  *)
(* No lock orders them.  A command may meet a write that fails and may be  *)
(* killed between any two steps; developers change files meanwhile.        *)
(*                                                                         *)
(* A step writes one file.  What LoadApp, LoadHost, treeDigest and         *)
(* archiveProduct read is read in one step, and so are the files that      *)
(* planAppDigestRefresh reads for an application and, each time, the       *)
(* originals of a refresh.                                                 *)
(***************************************************************************)
EXTENDS Integers, Sequences, FiniteSets, Product

CONSTANTS Shells,       \* where commands run
          Earlier,      \* the checkout that the release before the active one was made from
          Checkout,     \* the checkout as it is, of which the active release was made
          PathsLeadBack,\* the relative paths that lead from the assembly directory to the
                        \* checkout also lead there from the directory of a release
          Edits,        \* pairs of a path and a content that they may give it
          MaxEdits, MaxFailures,
          EffortOf,     \* what each kind of command takes of the
          MaxEffort     \* total that is explored

\* The store begins with two releases that can be launched.
ASSUME LaunchableAssumption ==
    \A dir \in {Earlier, Checkout} : Launches(AssembleFrozen(dir), NoFiles)

VARIABLES source,       \* the checkout
          output,       \* the assembly directory
          bootstrap,    \* what the bootstrap file in the host's module embeds, if there is one
          releases,     \* the installed releases: a directory for each digest
          current,      \* current.json
          shell,        \* the command that each shell runs
          edits, effort, failures

budget == <<edits, effort, failures>>
files == <<source, output, bootstrap, releases, current>>
vars == <<files, shell, budget>>

None == <<"sha256">>
Idle == [pc |-> "idle"]

Enter(s, next) == shell' = [shell EXCEPT ![s] = next]
Exit(s) == Enter(s, Idle)
At(s, pc) == shell[s].pc = pc
Goto(s, pc) == Enter(s, [shell[s] EXCEPT !.pc = pc])

MayStart(s, kind) == At(s, "idle") /\ effort + EffortOf[kind] <= MaxEffort

Command(s, kind, first) ==
    /\ MayStart(s, kind)
    /\ effort' = effort + EffortOf[kind]
    /\ Enter(s, first)
    /\ UNCHANGED <<files, edits, failures>>

Failure == failures < MaxFailures /\ failures' = failures + 1

----------------------------------------------------------------------------
(* digest-gate -generate: RefreshHostDigests.  exact says that nobody else  *)
(* has written the checkout since the originals were read and that no       *)
(* rollback of a file has failed; it is not part of the program.            *)

Refreshing(r) == "exact" \in DOMAIN r
Disturbed(r) == IF Refreshing(r) THEN [r EXCEPT !.exact = FALSE] ELSE r

WriteSource(s, p, content, next) ==
    /\ source' = Write(source, p, content)
    /\ shell' = [t \in Shells |-> IF t = s THEN next ELSE Disturbed(shell[t])]

StartRefresh(s) ==
    Command(s, "refresh",
        [pc |-> "plan", apps |-> Column(source[HostFile].apps, LAMBDA a : a.manifest), updates |-> NoFiles])

\* planAppDigestRefresh: the application's manifest and those of its cells, each
\* pinning what is on disk; the artifacts of its execution units are not listed.
Pinned(k) == {k} \cup Range(source[Manifest(k)].cells)

\* All of them can be read, and what they pin.
Planned(k) ==
    /\ Manifest(k) \in DOMAIN source
    /\ \A c \in Pinned(k) : {Manifest(c), Artifact(c)} \subseteq DOMAIN source

planAppDigestRefresh(k) ==
    LET number(p) == p[2]
    IN  [p \in {Manifest(c) : c \in Pinned(k)} |-> [source[p] EXCEPT !.pin = Sum(source[Artifact(number(p))])]]

PlanApp(s) ==
    LET r == shell[s]
        planned == planAppDigestRefresh(Head(r.apps))
    IN  /\ At(s, "plan")
        /\ r.apps # << >>
        /\ IF \/ ~Planned(Head(r.apps))
              \/ \E p \in DOMAIN planned \cap DOMAIN r.updates : planned[p] # r.updates[p]
           THEN Exit(s)
           ELSE Enter(s, [r EXCEPT !.apps = Tail(@), !.updates = Merge(@, planned)])
        /\ UNCHANGED <<files, budget>>

\* What a set of files holds.
Contents(paths) == [p \in paths |-> source[p]]

ReadOriginals(s) ==
    LET r == shell[s] IN
    /\ At(s, "plan")
    /\ r.apps = << >>
    /\ Enter(s, [pc |-> "apply", updates |-> r.updates, exact |-> TRUE, originals |-> Contents(DOMAIN r.updates)])
    /\ UNCHANGED <<files, budget>>

\* applyDigestUpdates reads the originals once more.  done are the files that
\* have been replaced, in a fixed order; in which order they are put back is
\* left open.
BeginApply(s) ==
    LET r == shell[s] IN
    /\ At(s, "apply")
    /\ Enter(s, [pc |-> IF r.updates = NoFiles THEN "check" ELSE "replace",
                 updates |-> r.updates, exact |-> r.exact, originals |-> r.originals,
                 held |-> Contents(DOMAIN r.updates), done |-> {}])
    /\ UNCHANGED <<files, budget>>

Replace(s) ==
    LET r == shell[s]
        p == CHOOSE p \in DOMAIN r.updates \ r.done : TRUE
    IN
    /\ At(s, "replace")
    /\ WriteSource(s, p, r.updates[p], [r EXCEPT !.done = @ \cup {p},
            !.pc = IF r.done \cup {p} = DOMAIN r.updates THEN "check" ELSE "replace"])
    /\ UNCHANGED <<output, bootstrap, releases, current, budget>>

ReplaceFails(s) ==
    /\ At(s, "replace")
    /\ Failure
    /\ Goto(s, IF shell[s].done # {} THEN "undo" ELSE "refresh failed")
    /\ UNCHANGED <<files, edits, effort>>

\* Faulty variant: the loop ends one file early.
UndoneButOne(s, p) ==
    [shell[s] EXCEPT !.done = @ \ {p}, !.pc = IF Cardinality(shell[s].done) <= 2 THEN "refresh failed" ELSE "undo"]

\* The loop of applyDigestUpdates that puts the earlier files back, in which
\* an error is ignored.
Undone(s, p) ==
    [shell[s] EXCEPT !.done = @ \ {p}, !.pc = IF shell[s].done = {p} THEN "refresh failed" ELSE "undo"]

Undo(s) ==
    /\ At(s, "undo")
    /\ \E p \in shell[s].done : WriteSource(s, p, shell[s].held[p], Undone(s, p))
    /\ UNCHANGED <<output, bootstrap, releases, current, budget>>

\* A disk that failed once may fail again: this one is not counted.
UndoFails(s) ==
    /\ At(s, "undo")
    /\ \E p \in shell[s].done : Enter(s, Disturbed(Undone(s, p)))
    /\ UNCHANGED <<files, budget>>

\* done are now the files that have to be restored.
CheckHostDigests(s) ==
    LET r == shell[s] IN
    /\ At(s, "check")
    /\ IF LoadHost(source, source[HostFile], NoFiles) THEN Exit(s)
       ELSE Goto(s, IF r.done = {} THEN "refresh failed" ELSE "restore")
    /\ UNCHANGED <<files, budget>>

Restore(s) ==
    LET r == shell[s]
        p == CHOOSE p \in r.done : TRUE
    IN
    /\ At(s, "restore")
    /\ WriteSource(s, p, r.originals[p], [r EXCEPT !.done = @ \ {p},
            !.pc = IF r.done = {p} THEN "refresh failed" ELSE "restore"])
    /\ UNCHANGED <<output, bootstrap, releases, current, budget>>

RestoreFails(s) ==
    /\ At(s, "restore")
    /\ Failure
    /\ Enter(s, Disturbed([shell[s] EXCEPT !.pc = "refresh failed"]))
    /\ UNCHANGED <<files, edits, effort>>

ReportRefresh(s) ==
    /\ At(s, "refresh failed")
    /\ Exit(s)
    /\ UNCHANGED <<files, budget>>

Refresh(s) ==
    \/ StartRefresh(s) \/ PlanApp(s) \/ ReadOriginals(s) \/ BeginApply(s)
    \/ Replace(s) \/ ReplaceFails(s) \/ Undo(s) \/ UndoFails(s)
    \/ CheckHostDigests(s) \/ Restore(s) \/ RestoreFails(s) \/ ReportRefresh(s)

----------------------------------------------------------------------------
(* build and package: assemble, into the assembly directory or a stage that *)
(* only this command knows                                                  *)

Dir(s) == IF shell[s].staged THEN shell[s].stage ELSE output

WriteFile(s, p, content, next) ==
    IF shell[s].staged
    THEN /\ Enter(s, [next EXCEPT !.stage = Write(@, p, content)])
         /\ UNCHANGED output
    ELSE /\ Enter(s, next)
         /\ output' = Write(output, p, content)

\* A command whose descriptor does not resolve changes nothing and is left out.
\* Packages are frozen; so are builds, or they link to the checkout.  The surface
\* is the one of the entrypoint, or one that the command names.
StartAssembly(s, staged, frozen) ==
    LET kind == IF staged THEN "package" ELSE "build"
        plan == Resolve(source)
    IN  /\ MayStart(s, kind)
        /\ Resolvable(source)
        /\ \E surface \in Range(plan.surfaces) :
            Command(s, kind, [pc |-> "resolve", staged |-> staged, frozen |-> frozen,
                              stage |-> NoFiles, todo |-> {}, plan |-> plan, surface |-> surface])

\* assemble resolves the descriptor again, and the surface has to be there.
ResolveAgain(s) ==
    LET r == shell[s]
        plan == Resolve(source)
    IN  /\ At(s, "resolve")
        /\ IF Resolvable(source) /\ r.surface.id \in Range(IdsOf(plan.surfaces))
           THEN Enter(s, [r EXCEPT !.pc = IF r.frozen THEN "freeze" ELSE "host",
                                   !.plan = plan, !.surface = Selected(plan, r.surface.id)])
           ELSE Exit(s)
        /\ UNCHANGED <<files, budget>>

freezeApplications(s) ==
    LET r == shell[s] IN
    /\ At(s, "freeze")
    /\ IF \A k \in DOMAIN r.plan.apps : LoadApp(source, r.plan.apps[k].manifest)
       THEN Enter(s, [r EXCEPT !.pc = "copy", !.todo = CopiedPaths(source, r.plan, r.surface)])
       ELSE Exit(s)
    /\ UNCHANGED <<files, budget>>

\* The files are copied in a fixed order.
copyProductFile(s) ==
    LET r == shell[s]
        p == CHOOSE p \in r.todo : TRUE
    IN  /\ At(s, "copy")
        /\ WriteFile(s, p, source[p], [r EXCEPT !.todo = @ \ {p},
                !.pc = IF r.todo = {p} THEN "host" ELSE "copy"])
        /\ UNCHANGED <<source, bootstrap, releases, current, budget>>

\* atomicWriteValidated: the manifest has its name only after LoadHost took it,
\* from where it will be.
WriteHost(s) ==
    LET r == shell[s]
        host == renderHost(r.plan, r.frozen)
    IN  /\ At(s, "host")
        /\ IF LoadHost(Dir(s), host, source)
           THEN WriteFile(s, HostFile, host, [r EXCEPT !.pc = "plan file"])
           ELSE Exit(s) /\ UNCHANGED output
        /\ UNCHANGED <<source, bootstrap, releases, current, budget>>

WritePlan(s) ==
    /\ At(s, "plan file")
    /\ WriteFile(s, PlanFile, RecordedPlan(shell[s].plan, shell[s].surface, shell[s].frozen),
            [shell[s] EXCEPT !.pc = "launch"])
    /\ UNCHANGED <<source, bootstrap, releases, current, budget>>

WriteLaunch(s) ==
    /\ At(s, "launch")
    /\ WriteFile(s, LaunchFile, LaunchContract(shell[s].plan, shell[s].surface, shell[s].frozen),
            IF shell[s].staged THEN [shell[s] EXCEPT !.pc = "claim"] ELSE Idle)
    /\ UNCHANGED <<source, bootstrap, releases, current, budget>>

\* An assembly that others can see the beginning of.
Assembling(r) == r.pc \in {"copy", "host", "plan file", "launch"} /\ ~r.staged

AssemblyFails(s) ==
    /\ Assembling(shell[s])
    /\ Failure
    /\ Exit(s)
    /\ UNCHANGED <<files, edits, effort>>

\* Faulty variant: an existing file is overwritten.
ClaimModuleAnyway(s) ==
    /\ At(s, "claim")
    /\ bootstrap' = shell[s].stage
    /\ Goto(s, "compile")
    /\ UNCHANGED <<source, output, releases, current, budget>>

\* embeddedBootstrapSource archives the stage, which nobody else writes; the
\* result is created with O_CREATE|O_EXCL in the directory of the host's module.
ClaimModule(s) ==
    /\ At(s, "claim")
    /\ IF bootstrap = NoFiles
       THEN bootstrap' = shell[s].stage /\ Goto(s, "compile")
       ELSE Exit(s) /\ UNCHANGED bootstrap
    /\ UNCHANGED <<source, output, releases, current, budget>>

\* go build, of whatever bootstrap file the module has.
Compile(s) ==
    /\ At(s, "compile")
    /\ Enter(s, [pc |-> "set aside", stage |-> Write(shell[s].stage, Executable, bootstrap)])
    /\ UNCHANGED <<files, budget>>

CompileFails(s) ==
    /\ At(s, "compile")
    /\ Failure
    /\ Exit(s)
    /\ bootstrap' = NoFiles
    /\ UNCHANGED <<source, output, releases, current, edits, effort>>

\* activatePackage moves what is there out of the way.
SetAside(s) ==
    /\ At(s, "set aside")
    /\ Enter(s, [pc |-> "activate", stage |-> shell[s].stage, backup |-> output])
    /\ output' = NoFiles
    /\ UNCHANGED <<source, bootstrap, releases, current, budget>>

SetAsideFails(s) ==
    /\ At(s, "set aside")
    /\ Failure
    /\ Exit(s)
    /\ bootstrap' = NoFiles
    /\ UNCHANGED <<source, output, releases, current, edits, effort>>

\* The stage takes the name of the output.  Where a build has made a new
\* directory under that name, neither the stage nor the backup can have it.
activatePackage(s) ==
    /\ At(s, "activate")
    /\ IF output = NoFiles
       THEN output' = shell[s].stage /\ Goto(s, "clean up") /\ UNCHANGED bootstrap
       ELSE Exit(s) /\ bootstrap' = NoFiles /\ UNCHANGED output
    /\ UNCHANGED <<source, releases, current, budget>>

ActivatePackageFails(s) ==
    /\ At(s, "activate")
    /\ Failure
    /\ Exit(s)
    /\ output' = IF output = NoFiles THEN shell[s].backup ELSE output
    /\ bootstrap' = NoFiles
    /\ UNCHANGED <<source, releases, current, edits, effort>>

\* The deferred calls of the package command.
CleanUp(s) ==
    /\ At(s, "clean up")
    /\ Exit(s)
    /\ bootstrap' = NoFiles
    /\ UNCHANGED <<source, output, releases, current, budget>>

Build(s) == StartAssembly(s, FALSE, TRUE) \/ StartAssembly(s, FALSE, FALSE)
Package(s) == StartAssembly(s, TRUE, TRUE)

Assemble(s) ==
    \/ Build(s) \/ Package(s) \/ ResolveAgain(s) \/ freezeApplications(s) \/ copyProductFile(s)
    \/ WriteHost(s) \/ WritePlan(s) \/ WriteLaunch(s) \/ AssemblyFails(s)
    \/ ClaimModule(s) \/ Compile(s) \/ CompileFails(s)
    \/ SetAside(s) \/ SetAsideFails(s) \/ activatePackage(s) \/ ActivatePackageFails(s) \/ CleanUp(s)

----------------------------------------------------------------------------
(* install *)

\* An install that finds an assembly which cannot be launched changes nothing
\* and is left out.
VerifyAssembly(s) ==
    /\ Command(s, "install", [pc |-> "digest"])
    /\ Launches(output, source)

\* treeDigest, and what the directory of that digest holds, if it exists.
DigestAssembly(s) ==
    LET digest == treeDigest(output) IN
    /\ At(s, "digest")
    /\ IF output = NoFiles \/ digest \in DOMAIN releases THEN Exit(s)
       ELSE Enter(s, [pc |-> "install", digest |-> digest, copy |-> NoFiles, todo |-> DOMAIN output])
    /\ UNCHANGED <<files, budget>>

\* The files that treeDigest listed are copied in a fixed order.
copyReleaseFile(s) ==
    LET r == shell[s]
        p == CHOOSE p \in r.todo : TRUE
    IN  /\ At(s, "install")
        /\ IF p \in DOMAIN output
           THEN Enter(s, [r EXCEPT !.todo = @ \ {p}, !.copy = Write(@, p, output[p]),
                                   !.pc = IF r.todo = {p} THEN "publish" ELSE "install"])
           ELSE Exit(s)
        /\ UNCHANGED <<files, budget>>

\* The rename fails when another install was faster.
PublishRelease(s) ==
    LET r == shell[s] IN
    /\ At(s, "publish")
    /\ Exit(s)
    /\ releases' = IF r.digest \in DOMAIN releases THEN releases ELSE Write(releases, r.digest, r.copy)
    /\ UNCHANGED <<source, output, bootstrap, current, budget>>

InstallRelease(s) ==
    \/ VerifyAssembly(s) \/ DigestAssembly(s) \/ copyReleaseFile(s) \/ PublishRelease(s)

----------------------------------------------------------------------------
(* activate and rollback.  A rollback is an activation of the previous      *)
(* release, by what it read first, and then writes the state once more.     *)

\* What the paths of a linked host manifest find from a release.
Beyond == IF PathsLeadBack THEN source ELSE NoFiles

\* Faulty variant: a release is what its name says.
VerifiedByName(digest) == Launches(releases[digest], Beyond)

Verified(digest) == treeDigest(releases[digest]) = digest /\ Launches(releases[digest], Beyond)

\* Either command fails, without a trace, for a release that it cannot verify.
VerifyRelease(s, digest) ==
    /\ Command(s, "activate", [pc |-> "load state", digest |-> digest, rollback |-> FALSE, active |-> None])
    /\ Verified(digest)

StartRollback(s) ==
    /\ current.previous # None
    /\ Command(s, "rollback", [pc |-> "load state", digest |-> current.previous,
                               rollback |-> TRUE, active |-> current.active])
    /\ Verified(current.previous)

Activated(r, state) ==
    IF ~r.rollback THEN Idle ELSE [pc |-> "rewrite state", state |-> [state EXCEPT !.previous = r.active]]

LoadReleaseState(s) ==
    LET r == shell[s]
        next == [active |-> r.digest, previous |-> current.active]
    IN  /\ At(s, "load state")
        /\ IF current.active = r.digest THEN Enter(s, Activated(r, current))
           ELSE Enter(s, [pc |-> "write state", rollback |-> r.rollback, active |-> r.active, state |-> next])
        /\ UNCHANGED <<files, budget>>

writeReleaseState(s) ==
    /\ At(s, "write state")
    /\ current' = shell[s].state
    /\ Enter(s, Activated(shell[s], shell[s].state))
    /\ UNCHANGED <<source, output, bootstrap, releases, budget>>

RewriteState(s) ==
    /\ At(s, "rewrite state")
    /\ current' = shell[s].state
    /\ Exit(s)
    /\ UNCHANGED <<source, output, bootstrap, releases, budget>>

\* atomicWrite failed and left current.json as it was.
WriteStateFails(s) ==
    /\ shell[s].pc \in {"write state", "rewrite state"}
    /\ Failure
    /\ Exit(s)
    /\ UNCHANGED <<files, edits, effort>>

ActivateRelease(s) ==
    \/ \E digest \in DOMAIN releases : VerifyRelease(s, digest)
    \/ LoadReleaseState(s) \/ writeReleaseState(s)

RollbackRelease(s) == StartRollback(s) \/ RewriteState(s)

----------------------------------------------------------------------------
(* the developers, and commands that are killed *)

Edit ==
    /\ edits < MaxEdits
    /\ edits' = edits + 1
    /\ \E e \in Edits :
        /\ source[e.path] # e.content
        /\ source' = Write(source, e.path, e.content)
    /\ shell' = [s \in Shells |-> Disturbed(shell[s])]
    /\ UNCHANGED <<output, bootstrap, releases, current, effort, failures>>

\* A killed command leaves its bootstrap file and a half written checkout or
\* assembly; stages, backups and copies that it leaves have names nobody asks
\* for, so that one killed earlier might as well not have run.
LeavesTraces(r) ==
    \/ Assembling(r)
    \/ r.pc \in {"replace", "undo", "check", "restore", "compile", "set aside", "activate", "clean up", "rewrite state"}

Crash(s) ==
    /\ LeavesTraces(shell[s])
    /\ Failure
    /\ Exit(s)
    /\ UNCHANGED <<files, edits, effort>>

Init ==
    /\ source = Checkout
    /\ output = AssembleFrozen(Checkout)
    /\ LET previous == AssembleFrozen(Earlier) IN
        /\ releases = Write(Write(NoFiles, treeDigest(previous), previous), treeDigest(output), output)
        /\ current = [active |-> treeDigest(output), previous |-> treeDigest(previous)]
    /\ bootstrap = NoFiles
    /\ shell = [s \in Shells |-> Idle]
    /\ edits = 0 /\ effort = 0 /\ failures = 0

Next ==
    \/ Edit
    \/ \E s \in Shells :
        \/ Refresh(s) \/ Assemble(s) \/ InstallRelease(s) \/ ActivateRelease(s) \/ RollbackRelease(s)
        \/ WriteStateFails(s) \/ Crash(s)

Spec == Init /\ [][Next]_vars

----------------------------------------------------------------------------
(* properties *)

InUse == {current.active, current.previous} \ {None}

\* Its host manifest is that of a linked build.
ReadsCheckout(dir) == dir[dir[LaunchFile].host].linked

\* The active and the previous release are in the store, have the content that
\* their digest stands for and can be launched with nothing but that content:
\* whatever assembly an install copied from while builds and packages changed it,
\* an activation and a rollback (ActivateRelease, RollbackRelease) only ever go to
\* a good release.  The one exception is a release that got the host manifest of a
\* linked build, and only where the paths in it lead from the store to the checkout.
ActiveIsIntact ==
    \A digest \in InUse :
        /\ digest \in DOMAIN releases
        /\ treeDigest(releases[digest]) = digest
        /\ \/ Launches(releases[digest], NoFiles)
           \/ PathsLeadBack /\ ReadsCheckout(releases[digest])

\* A release that has been verified and activated has no references back to the
\* source checkout, as the host manifest of a frozen assembly has none
\* (AssembleFrozen, InstallRelease): it can be launched without the checkout.
ActiveStandsAlone ==
    \A digest \in InUse : Launches(releases[digest], NoFiles)

\* When RefreshHostDigests gives up, every manifest it touched has the bytes it
\* had: after a replacement that failed in the middle and after a graph that
\* turned out invalid, unless somebody else wrote the checkout meanwhile or
\* putting a file back failed too.
FailedRefreshRestores ==
    \A s \in Shells : At(s, "refresh failed") /\ shell[s].exact =>
        \A p \in DOMAIN shell[s].originals : source[p] = shell[s].originals[p]

\* The host executable of a package embeds the files it is packaged with:
\* package commands that share the host's module never compile the bootstrap
\* file of another one.
PackageEmbedsItself ==
    \A s \in Shells : shell[s].pc \in {"set aside", "activate"} =>
        LET stage == shell[s].stage
        IN  stage[Executable] = [p \in DOMAIN stage \ {Executable} |-> stage[p]]

============================================================================
