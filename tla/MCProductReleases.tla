------------------------ MODULE MCProductReleases ------------------------
(* A checkout with two applications that share a cell: manifests 1 and 2 are   *)
(* the applications', 3 is the cell's.  The host manifest of the checkout has   *)
(* both, and so had the release before; the product now has application 1 only, *)
(* and the script of application 2 has changed since it was pinned.             *)
EXTENDS ProductReleases, TLC

\* Three commands, or two if one of them packages.
MCEffortOf == [refresh |-> 2, build |-> 2, package |-> 3, install |-> 2, activate |-> 2, rollback |-> 2]

MCSymmetry == Permutations(Shells)

Cell(pin, grants) == [pin |-> pin, provides |-> {1}, hostConsumes |-> grants]
App(script, cells) == [pin |-> Sum(script), cells |-> cells, units |-> << >>, requirePins |-> TRUE]

MCDescriptor(version, apps, surface) ==
    [schema |-> 1, id |-> 1, version |-> version, module |-> 1,
     apps |-> SubSeq(<<[id |-> 1, manifest |-> 1, instance |-> 0, deps |-> << >>],
                       [id |-> 2, manifest |-> 2, instance |-> 2, deps |-> <<1>>]>>, 1, apps),
     entry |-> [app |-> 1, surface |-> surface, path |-> ""],
     surfaces |-> <<[id |-> 1, kind |-> "headless", root |-> 0], [id |-> 2, kind |-> "web", root |-> 1]>>,
     required |-> <<1>>, optional |-> <<2>>, extensions |-> <<2, 1>>]

MCHost == renderHost([apps |-> Reverse(MCDescriptor(3, 2, 1).apps), entry |-> MCDescriptor(3, 2, 1).entry], TRUE)

MCCheckout ==
    [p \in {Manifest(k) : k \in 1 .. 3} \cup {Artifact(k) : k \in 1 .. 3}
            \cup {DescriptorFile, ModuleFile, HostFile, Surface(1)} |->
        CASE p = Manifest(1) -> App(1, <<3>>)
          [] p = Manifest(2) -> App(1, <<3>>)
          [] p = Manifest(3) -> Cell(Sum(1), {})
          [] p = Artifact(2) -> 2
          [] p \in {Artifact(1), Artifact(3), ModuleFile, Surface(1)} -> 1
          [] p = DescriptorFile -> MCDescriptor(1, 1, 1)
          [] p = HostFile -> MCHost]

MCEarlier == Write(Write(MCCheckout, DescriptorFile, MCDescriptor(3, 2, 1)), Artifact(2), 1)

\* A grant that no dependency owns, and a version of the product that is entered
\* through its web surface.
MCEdits ==
    {[path |-> Manifest(3), content |-> Cell(Sum(1), {[provider |-> 2, app |-> 0]})],
     [path |-> DescriptorFile, content |-> MCDescriptor(2, 1, 2)]}

==========================================================================
