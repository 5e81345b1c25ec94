----------------------- MODULE ProductReleasesProofs -----------------------
(***************************************************************************)
(* Proofs about the product commands, for any number of shells, any        *)
(* checkout, edits, failures and kills.                                    *)
(*                                                                         *)
(* What a command has read is out of date as soon as another command runs. *)
(* The inductive invariant says what stays true of it nevertheless, for    *)
(* every place a command can be at: which files of the checkout a refresh  *)
(* has still to put back (Restorable), whose bootstrap file there is       *)
(* (Packaging, OneOwner), and that what an activation is about to write    *)
(* names verified releases (Activating).                                   *)
(***************************************************************************)
EXTENDS ProductReleases, TLAPS

Applying == {"replace", "undo", "check", "restore"}

\* What a refresh has written is among the files it may still put back, unless
\* somebody disturbed it.
Restorable(r, src) ==
    /\ "exact" \in DOMAIN r => r.pc \in Applying \cup {"apply", "refresh failed"}
    /\ r.pc = "plan" => {"apps", "updates"} \subseteq DOMAIN r /\ DOMAIN r.updates \subseteq DOMAIN src
    /\ r.pc \in Applying \cup {"apply", "refresh failed"} =>
        /\ DOMAIN r.originals = DOMAIN r.updates
        /\ DOMAIN r.updates \subseteq DOMAIN src
        /\ {"updates", "originals", "exact"} \subseteq DOMAIN r
    /\ r.pc \in Applying => {"done", "held"} \subseteq DOMAIN r
    /\ r.pc \in Applying /\ r.exact =>
        /\ \A p \in DOMAIN r.originals : r.held[p] = r.originals[p]
        /\ \A p \in DOMAIN r.originals \ r.done : src[p] = r.originals[p]
    /\ r.pc \in {"apply", "refresh failed"} /\ r.exact =>
        \A p \in DOMAIN r.originals : src[p] = r.originals[p]

Assembly == {"resolve", "freeze", "copy", "host", "plan file", "launch", "claim"}
Owner == {"compile", "set aside", "activate", "clean up"}

\* A stage has no executable before the host is compiled, and the host embeds
\* the stage.
Packaging(r, boot) ==
    /\ r.pc \in Assembly \cup {"compile"} =>
        /\ {"stage", "todo", "plan", "surface"} \subseteq DOMAIN r
        /\ r.stage = [p \in DOMAIN r.stage |-> r.stage[p]]
        /\ Executable \notin DOMAIN r.stage
    /\ r.pc = "copy" => r.todo # {} /\ Executable \notin r.todo
    /\ r.pc = "claim" => LaunchFile \in DOMAIN r.stage
    /\ r.pc = "compile" => boot = r.stage
    /\ r.pc \in {"set aside", "activate"} =>
        r.stage[Executable] = [p \in DOMAIN r.stage \ {Executable} |-> r.stage[p]]
    /\ r.pc \in Owner => boot # NoFiles

\* A release that can be launched, with nothing but its content.
Stands(release) == Launches(release, NoFiles) \/ (PathsLeadBack /\ ReadsCheckout(release))

\* A release that can be gone to.
Good(digest, rels) ==
    digest # None => digest \in DOMAIN rels /\ treeDigest(rels[digest]) = digest /\ Stands(rels[digest])

State(st, rels) ==
    /\ st = [active |-> st.active, previous |-> st.previous]
    /\ Good(st.active, rels)
    /\ Good(st.previous, rels)

Activating(r, rels) ==
    /\ r.pc = "load state" => Good(r.digest, rels) /\ Good(r.active, rels)
    /\ r.pc = "write state" => Good(r.active, rels) /\ State(r.state, rels)
    /\ r.pc = "rewrite state" => State(r.state, rels)

ShellOK(r, src, boot, rels) ==
    /\ "pc" \in DOMAIN r
    /\ Restorable(r, src)
    /\ Packaging(r, boot)
    /\ Activating(r, rels)

\* At most one command has a bootstrap file that it will remove.
OneOwner == \A s, t \in Shells : shell[s].pc \in Owner /\ shell[t].pc \in Owner => s = t

\* The inductive invariant.
Inv ==
    /\ DOMAIN shell = Shells
    /\ \A s \in Shells : ShellOK(shell[s], source, bootstrap, releases)
    /\ OneOwner
    /\ State(current, releases)

----------------------------------------------------------------------------

\* A command that goes on by itself, without a write that others can see.
LEMMA EnterKeeps ==
    ASSUME Inv, NEW s \in Shells, NEW next, shell' = [shell EXCEPT ![s] = next],
           source' = source, bootstrap' = bootstrap, releases' = releases, current' = current,
           ShellOK(next, source, bootstrap, releases), next.pc \in Owner => shell[s].pc \in Owner
    PROVE  Inv'
<1> USE DEF Inv
<1>1. DOMAIN shell' = Shells /\ \A t \in Shells : shell'[t] = IF t = s THEN next ELSE shell[t]
  OBVIOUS
<1>2. ASSUME NEW t \in Shells PROVE ShellOK(shell[t], source, bootstrap, releases)'
  <2>1. ShellOK(shell[t], source, bootstrap, releases)
    OBVIOUS
  <2>2. shell'[t] = next \/ shell'[t] = shell[t]
    BY <1>1
  <2>3. PICK r : r = shell'[t]
    OBVIOUS
  <2>4. ShellOK(r, source, bootstrap, releases)
    BY <2>1, <2>2, <2>3
  <2> QED
    BY <2>3, <2>4
<1>3. OneOwner'
  BY <1>1 DEF OneOwner
<1>4. State(current, releases)'
  OBVIOUS
<1> QED
  BY <1>1, <1>2, <1>3, <1>4

\* A command that ends has nothing to keep.
LEMMA IdleIsOK ==
    \A src, boot, rels : ShellOK(Idle, src, boot, rels)
BY DEF ShellOK, Idle, Restorable, Packaging, Activating, Applying, Assembly, Owner

\* A command that ends leaves nothing behind that others rely on.
LEMMA ExitKeeps ==
    ASSUME Inv, NEW s \in Shells, Exit(s),
           source' = source, bootstrap' = bootstrap, releases' = releases, current' = current
    PROVE  Inv'
<1>1. ShellOK(Idle, source, bootstrap, releases) /\ Idle.pc \notin Owner
  BY IdleIsOK DEF Idle, Owner
<1>2. shell' = [shell EXCEPT ![s] = Idle]
  BY DEF Exit, Enter
<1> HIDE DEF Idle
<1> QED
  BY <1>1, <1>2, EnterKeeps

----------------------------------------------------------------------------
(* a refresh *)

\* Somebody writes a file of the checkout: whoever is refreshing it is no longer
\* exact.
LEMMA DisturbedIsOK ==
    ASSUME NEW r, NEW src, NEW boot, NEW rels, NEW p, NEW content, ShellOK(r, src, boot, rels)
    PROVE  ShellOK(Disturbed(r), Write(src, p, content), boot, rels) /\ Disturbed(r).pc = r.pc
<1> DEFINE d == Disturbed(r)
           w == Write(src, p, content)
<1>1. /\ DOMAIN d = DOMAIN r
      /\ \A f \in DOMAIN r : f # "exact" => d[f] = r[f]
      /\ "exact" \in DOMAIN r => d.exact = FALSE
      /\ "exact" \notin DOMAIN r => d = r
  BY DEF Disturbed, Refreshing
<1>2. DOMAIN w = DOMAIN src \cup {p}
  BY DEF Write
<1>3. "pc" \in DOMAIN r /\ d.pc = r.pc
  BY <1>1 DEF ShellOK
<1>4. CASE "exact" \in DOMAIN r
  <2>1. r.pc \in Applying \cup {"apply", "refresh failed"}
    BY <1>4 DEF ShellOK, Restorable
  <2>2. Restorable(d, w)
    <3> HIDE DEF d, w
    <3> QED
      BY <1>1, <1>2, <1>3, <1>4, <2>1 DEF ShellOK, Restorable, Applying
  <2>3. Packaging(d, boot) /\ Activating(d, rels)
    <3> HIDE DEF d, w
    <3> QED
      BY <1>3, <2>1 DEF Packaging, Activating, Applying, Assembly, Owner
  <2> QED
    BY <1>1, <1>3, <2>2, <2>3 DEF ShellOK
<1>5. CASE "exact" \notin DOMAIN r
  <2>1. d = r /\ r.pc \notin Applying \cup {"apply", "refresh failed"}
    BY <1>1, <1>5 DEF ShellOK, Restorable
  <2>2. Restorable(r, w)
    <3> HIDE DEF d, w
    <3> QED
      BY <1>2, <2>1 DEF ShellOK, Restorable
  <2> QED
    BY <2>1, <2>2 DEF ShellOK
<1> QED
  BY <1>3, <1>4, <1>5

\* A write to the checkout: every refresh that is under way counts as disturbed,
\* so only the writer has to show that it can still put its files back.
LEMMA WriteKeeps ==
    ASSUME Inv, NEW s \in Shells, NEW next, NEW p, NEW content, source' = Write(source, p, content),
           shell' = [t \in Shells |-> IF t = s THEN next ELSE Disturbed(shell[t])],
           bootstrap' = bootstrap, releases' = releases, current' = current,
           ShellOK(next, Write(source, p, content), bootstrap, releases), next.pc \notin Owner
    PROVE  Inv'
<1>1. DOMAIN shell' = Shells
  OBVIOUS
<1>2. ASSUME NEW t \in Shells PROVE ShellOK(shell'[t], source', bootstrap', releases')
  <2>1. CASE t = s
    BY <2>1
  <2>2. CASE t # s
    <3>1. PICK r : r = shell[t]
      OBVIOUS
    <3>2. ShellOK(r, source, bootstrap, releases)
      BY <3>1 DEF Inv
    <3>3. shell'[t] = Disturbed(r)
      BY <2>2, <3>1
    <3> QED
      BY <3>2, <3>3, DisturbedIsOK
  <2> QED
    BY <2>1, <2>2
<1>3. \A t \in Shells : shell'[t].pc \in Owner => shell[t].pc \in Owner
  <2> SUFFICES ASSUME NEW t \in Shells, t # s PROVE shell'[t].pc = shell[t].pc
    OBVIOUS
  <2>1. PICK r : r = shell[t]
    OBVIOUS
  <2>2. ShellOK(r, source, bootstrap, releases)
    BY <2>1 DEF Inv
  <2> QED
    BY <2>1, <2>2, DisturbedIsOK
<1>4. OneOwner'
  BY <1>3 DEF OneOwner, Inv
<1>5. State(current, releases)'
  BY DEF Inv
<1> QED
  BY <1>1, <1>2, <1>4, <1>5 DEF Inv

\* The same for a developer, who runs no command.
LEMMA EditKeeps == ASSUME Inv, Edit PROVE Inv'
<1>1. PICK e \in Edits : source' = Write(source, e.path, e.content)
  BY DEF Edit
<1>2. /\ shell' = [s \in Shells |-> Disturbed(shell[s])]
      /\ bootstrap' = bootstrap /\ releases' = releases /\ current' = current
  BY DEF Edit
<1>3. PICK p, content : p = e.path /\ content = e.content
  OBVIOUS
<1>4. ASSUME NEW t \in Shells
      PROVE  ShellOK(shell'[t], source', bootstrap', releases') /\ shell'[t].pc = shell[t].pc
  <2>1. PICK r : r = shell[t]
    OBVIOUS
  <2>2. ShellOK(r, source, bootstrap, releases)
    BY <2>1 DEF Inv
  <2>3. shell'[t] = Disturbed(r) /\ source' = Write(source, p, content)
    BY <1>1, <1>2, <1>3, <2>1
  <2> QED
    BY <1>2, <2>1, <2>2, <2>3, DisturbedIsOK
<1>5. OneOwner'
  BY <1>4 DEF OneOwner, Inv
<1>6. State(current, releases)'
  BY <1>2 DEF Inv
<1> QED
  BY <1>2, <1>4, <1>5, <1>6 DEF Inv

\* Where the commands begin.
LEMMA CommandKeeps ==
    ASSUME Inv, NEW s \in Shells, NEW kind, NEW first, Command(s, kind, first),
           ShellOK(first, source, bootstrap, releases), first.pc \notin Owner
    PROVE  Inv'
BY EnterKeeps DEF Command, Enter, files

\* refresh starts and has written nothing.
LEMMA StartRefreshKeeps == ASSUME Inv, NEW s \in Shells, StartRefresh(s) PROVE Inv'
<1>1. PICK apps : Command(s, "refresh", [pc |-> "plan", apps |-> apps, updates |-> NoFiles])
  BY DEF StartRefresh
<1>2. PICK first : first = [pc |-> "plan", apps |-> apps, updates |-> NoFiles]
  OBVIOUS
<1>3. ShellOK(first, source, bootstrap, releases) /\ first.pc \notin Owner
  BY <1>2 DEF ShellOK, Restorable, Packaging, Activating, Applying, Assembly, Owner, NoFiles
<1> QED
  BY <1>1, <1>2, <1>3, CommandKeeps

\* What is planned for an application are files of the checkout.
LEMMA PlanAppKeeps == ASSUME Inv, NEW s \in Shells, PlanApp(s) PROVE Inv'
<1> DEFINE k == Head(shell[s].apps)
<1>1. PICK r : r = shell[s] /\ ShellOK(r, source, bootstrap, releases)
  BY DEF Inv
<1>2. /\ source' = source /\ bootstrap' = bootstrap /\ releases' = releases /\ current' = current
      /\ r.pc = "plan"
  BY <1>1 DEF PlanApp, files, At
<1>3. CASE Exit(s)
  BY <1>2, <1>3, ExitKeeps
<1>4. CASE ~Exit(s)
  <2>1. Planned(k) /\ Enter(s, [r EXCEPT !.apps = Tail(@), !.updates = Merge(@, planAppDigestRefresh(k))])
    BY <1>1, <1>4 DEF PlanApp
  <2>2. DOMAIN planAppDigestRefresh(k) \subseteq DOMAIN source
    BY <2>1 DEF planAppDigestRefresh, Planned
  <2>3. PICK updates : updates = Merge(r.updates, planAppDigestRefresh(k))
    OBVIOUS
  <2>4. PICK next : next = [r EXCEPT !.apps = Tail(@), !.updates = updates]
    OBVIOUS
  <2>5. {"pc", "apps", "updates"} \subseteq DOMAIN r /\ DOMAIN r.updates \subseteq DOMAIN source
        /\ "exact" \notin DOMAIN r
    BY <1>1, <1>2 DEF ShellOK, Restorable, Applying
  <2>6. DOMAIN updates \subseteq DOMAIN source
    BY <2>2, <2>3, <2>5 DEF Merge
  <2>7. next.pc = "plan" /\ DOMAIN next = DOMAIN r /\ next.updates = updates
    BY <1>2, <2>4, <2>5
  <2>8. ShellOK(next, source, bootstrap, releases) /\ next.pc \notin Owner
    BY <2>5, <2>6, <2>7 DEF ShellOK, Restorable, Packaging, Activating, Applying, Assembly, Owner
  <2>9. shell' = [shell EXCEPT ![s] = next]
    BY <2>1, <2>3, <2>4 DEF Enter
  <2> QED
    BY <1>2, <2>8, <2>9, EnterKeeps
<1> QED
  BY <1>3, <1>4

\* From here on a failed refresh is held to the contents it has just read.
LEMMA ReadOriginalsKeeps == ASSUME Inv, NEW s \in Shells, ReadOriginals(s) PROVE Inv'
<1>1. PICK r : r = shell[s] /\ ShellOK(r, source, bootstrap, releases)
  BY DEF Inv
<1>2. /\ source' = source /\ bootstrap' = bootstrap /\ releases' = releases /\ current' = current
      /\ r.pc = "plan"
  BY <1>1 DEF ReadOriginals, files, At
<1>3. PICK originals : originals = Contents(DOMAIN r.updates)
  OBVIOUS
<1>4. DOMAIN originals = DOMAIN r.updates /\ \A p \in DOMAIN originals : originals[p] = source[p]
  BY <1>3 DEF Contents
<1>5. PICK next : next = [pc |-> "apply", updates |-> r.updates, exact |-> TRUE, originals |-> originals]
  OBVIOUS
<1>6. ShellOK(next, source, bootstrap, releases) /\ next.pc \notin Owner
  BY <1>1, <1>2, <1>4, <1>5 DEF ShellOK, Restorable, Packaging, Activating, Applying, Assembly, Owner
<1>7. shell' = [shell EXCEPT ![s] = next]
  BY <1>1, <1>3, <1>5 DEF ReadOriginals, Enter
<1> QED
  BY <1>2, <1>6, <1>7, EnterKeeps

\* What applyDigestUpdates reads again is what was read before, or somebody has
\* written in between and the refresh is disturbed.
LEMMA BeginApplyKeeps == ASSUME Inv, NEW s \in Shells, BeginApply(s) PROVE Inv'
<1>1. PICK r : r = shell[s] /\ ShellOK(r, source, bootstrap, releases)
  BY DEF Inv
<1>2. /\ source' = source /\ bootstrap' = bootstrap /\ releases' = releases /\ current' = current
      /\ r.pc = "apply"
  BY <1>1 DEF BeginApply, files, At
<1>3. PICK held : held = Contents(DOMAIN r.updates)
  OBVIOUS
<1>4. PICK pc : pc = IF r.updates = NoFiles THEN "check" ELSE "replace"
  OBVIOUS
<1>5. PICK next : next = [pc |-> pc, updates |-> r.updates, exact |-> r.exact,
                          originals |-> r.originals, held |-> held, done |-> {}]
  OBVIOUS
<1>6. DOMAIN r.originals = DOMAIN r.updates /\ DOMAIN r.updates \subseteq DOMAIN source
      /\ (r.exact => \A p \in DOMAIN r.originals : source[p] = r.originals[p])
  BY <1>1, <1>2 DEF ShellOK, Restorable
<1>7. r.exact => \A p \in DOMAIN r.originals : held[p] = r.originals[p]
  BY <1>3, <1>6 DEF Contents
<1>8. ShellOK(next, source, bootstrap, releases) /\ next.pc \notin Owner
  BY <1>4, <1>5, <1>6, <1>7 DEF ShellOK, Restorable, Packaging, Activating, Applying, Assembly, Owner
<1>9. shell' = [shell EXCEPT ![s] = next]
  BY <1>1, <1>3, <1>4, <1>5 DEF BeginApply, Enter
<1> QED
  BY <1>2, <1>8, <1>9, EnterKeeps

\* A file that is replaced joins the files to put back.
LEMMA ReplaceKeeps == ASSUME Inv, NEW s \in Shells, Replace(s) PROVE Inv'
<1>1. PICK r : r = shell[s] /\ ShellOK(r, source, bootstrap, releases)
  BY DEF Inv
<1>2. PICK p : p = CHOOSE q \in DOMAIN r.updates \ r.done : TRUE
  OBVIOUS
<1>3. PICK pc : pc = IF r.done \cup {p} = DOMAIN r.updates THEN "check" ELSE "replace"
  OBVIOUS
<1>4. PICK next : next = [r EXCEPT !.done = @ \cup {p}, !.pc = pc]
  OBVIOUS
<1>5. PICK content : content = r.updates[p]
  OBVIOUS
<1>6. /\ source' = Write(source, p, content)
      /\ shell' = [t \in Shells |-> IF t = s THEN next ELSE Disturbed(shell[t])]
      /\ bootstrap' = bootstrap /\ releases' = releases /\ current' = current
      /\ r.pc = "replace"
  <2>1. WriteSource(s, p, content, next)
    BY <1>1, <1>2, <1>3, <1>4, <1>5 DEF Replace
  <2> QED
    BY <1>1, <2>1 DEF Replace, WriteSource, At
<1>7. ShellOK(next, Write(source, p, content), bootstrap, releases) /\ next.pc \notin Owner
  BY <1>1, <1>3, <1>4, <1>6
  DEF ShellOK, Restorable, Packaging, Activating, Applying, Assembly, Owner, Write
<1> QED
  BY <1>6, <1>7, WriteKeeps

\* A failed replacement changed nothing; what is done is put back next.
LEMMA ReplaceFailsKeeps == ASSUME Inv, NEW s \in Shells, ReplaceFails(s) PROVE Inv'
<1>1. PICK r : r = shell[s] /\ ShellOK(r, source, bootstrap, releases)
  BY DEF Inv
<1>2. PICK next : next = [r EXCEPT !.pc = IF r.done # {} THEN "undo" ELSE "refresh failed"]
  OBVIOUS
<1>3. /\ source' = source /\ bootstrap' = bootstrap /\ releases' = releases /\ current' = current
      /\ r.pc = "replace" /\ shell' = [shell EXCEPT ![s] = next]
  BY <1>1, <1>2 DEF ReplaceFails, files, At, Goto, Enter
<1>4. ShellOK(next, source, bootstrap, releases) /\ next.pc \notin Owner
  BY <1>1, <1>2, <1>3 DEF ShellOK, Restorable, Packaging, Activating, Applying, Assembly, Owner
<1> QED
  BY <1>3, <1>4, EnterKeeps

\* A file that is put back has the content it had.
LEMMA UndoKeeps == ASSUME Inv, NEW s \in Shells, Undo(s) PROVE Inv'
<1>1. PICK r : r = shell[s] /\ ShellOK(r, source, bootstrap, releases)
  BY DEF Inv
<1>2. PICK p \in r.done : WriteSource(s, p, r.held[p], Undone(s, p))
  BY <1>1 DEF Undo
<1>3. PICK next : next = [r EXCEPT !.done = @ \ {p}, !.pc = IF r.done = {p} THEN "refresh failed" ELSE "undo"]
  OBVIOUS
<1>4. PICK content : content = r.held[p]
  OBVIOUS
<1>5. /\ source' = Write(source, p, content)
      /\ shell' = [t \in Shells |-> IF t = s THEN next ELSE Disturbed(shell[t])]
      /\ bootstrap' = bootstrap /\ releases' = releases /\ current' = current
      /\ r.pc = "undo"
  BY <1>1, <1>2, <1>3, <1>4 DEF Undo, Undone, WriteSource, At
<1>6. PICK w : w = Write(source, p, content)
  OBVIOUS
<1>7. DOMAIN w = DOMAIN source \cup {p} /\ \A q \in DOMAIN w : w[q] = IF q = p THEN content ELSE source[q]
  BY <1>6 DEF Write
<1>8. {"pc", "updates", "originals", "exact", "done", "held"} \subseteq DOMAIN r
  BY <1>1, <1>5 DEF ShellOK, Restorable, Applying
<1>9. /\ DOMAIN next = DOMAIN r /\ next.exact = r.exact /\ next.done = r.done \ {p}
      /\ next.updates = r.updates /\ next.originals = r.originals /\ next.held = r.held
      /\ next.pc = IF r.done = {p} THEN "refresh failed" ELSE "undo"
  BY <1>3, <1>8
<1>10. Restorable(next, w)
  <2>1. /\ DOMAIN r.originals = DOMAIN r.updates /\ DOMAIN r.updates \subseteq DOMAIN source
        /\ r.exact => /\ \A q \in DOMAIN r.originals : r.held[q] = r.originals[q]
                      /\ \A q \in DOMAIN r.originals \ r.done : source[q] = r.originals[q]
    BY <1>1, <1>5 DEF ShellOK, Restorable, Applying
  <2>2. ASSUME r.exact, NEW q \in DOMAIN r.originals, q \notin r.done \ {p} PROVE w[q] = r.originals[q]
    <3>1. CASE q = p
      BY <1>4, <1>7, <2>1, <2>2, <3>1
    <3>2. CASE q # p
      BY <1>7, <2>1, <2>2, <3>2
    <3> QED
      BY <3>1, <3>2
  <2>3. r.exact /\ r.done = {p} => \A q \in DOMAIN r.originals : w[q] = r.originals[q]
    BY <2>2
  <2> QED
    BY <1>7, <1>8, <1>9, <2>1, <2>2, <2>3 DEF Restorable, Applying
<1>11. ShellOK(next, Write(source, p, content), bootstrap, releases) /\ next.pc \notin Owner
  BY <1>6, <1>8, <1>9, <1>10
  DEF ShellOK, Packaging, Activating, Assembly, Owner
<1> QED
  BY <1>5, <1>11, WriteKeeps

\* A file that cannot be put back disturbs the refresh.
LEMMA UndoFailsKeeps == ASSUME Inv, NEW s \in Shells, UndoFails(s) PROVE Inv'
<1>1. PICK r : r = shell[s] /\ ShellOK(r, source, bootstrap, releases)
  BY DEF Inv
<1>2. PICK p \in r.done : Enter(s, Disturbed(Undone(s, p)))
  BY <1>1 DEF UndoFails
<1>3. PICK undone : undone = [r EXCEPT !.done = @ \ {p}, !.pc = IF r.done = {p} THEN "refresh failed" ELSE "undo"]
  OBVIOUS
<1>4. PICK next : next = Disturbed(undone)
  OBVIOUS
<1>5. /\ source' = source /\ bootstrap' = bootstrap /\ releases' = releases /\ current' = current
      /\ r.pc = "undo" /\ shell' = [shell EXCEPT ![s] = next]
  BY <1>1, <1>2, <1>3, <1>4 DEF UndoFails, Undone, files, At, Enter
<1>6. {"pc", "updates", "originals", "exact", "done", "held"} \subseteq DOMAIN r
  BY <1>1, <1>5 DEF ShellOK, Restorable, Applying
<1>7. /\ DOMAIN next = DOMAIN r /\ next.exact = FALSE
      /\ next.pc \in {"undo", "refresh failed"}
      /\ next.updates = r.updates /\ next.originals = r.originals
  BY <1>3, <1>4, <1>6 DEF Disturbed, Refreshing
<1>8. ShellOK(next, source, bootstrap, releases) /\ next.pc \notin Owner
  BY <1>1, <1>5, <1>6, <1>7 DEF ShellOK, Restorable, Packaging, Activating, Applying, Assembly, Owner
<1> QED
  BY <1>5, <1>8, EnterKeeps

\* A host manifest that does not load sends the refresh to restore.
LEMMA CheckHostDigestsKeeps == ASSUME Inv, NEW s \in Shells, CheckHostDigests(s) PROVE Inv'
<1>1. PICK r : r = shell[s] /\ ShellOK(r, source, bootstrap, releases)
  BY DEF Inv
<1>2. PICK next : next = [r EXCEPT !.pc = IF r.done = {} THEN "refresh failed" ELSE "restore"]
  OBVIOUS
<1>3. /\ source' = source /\ bootstrap' = bootstrap /\ releases' = releases /\ current' = current
      /\ r.pc = "check" /\ (Exit(s) \/ shell' = [shell EXCEPT ![s] = next])
  BY <1>1, <1>2 DEF CheckHostDigests, files, At, Goto, Enter
<1>4. ShellOK(next, source, bootstrap, releases) /\ next.pc \notin Owner
  BY <1>1, <1>2, <1>3 DEF ShellOK, Restorable, Packaging, Activating, Applying, Assembly, Owner
<1> QED
  BY <1>3, <1>4, EnterKeeps, ExitKeeps

\* A restored file has the content that was read before the update.
LEMMA RestoreKeeps == ASSUME Inv, NEW s \in Shells, Restore(s) PROVE Inv'
<1>1. PICK r : r = shell[s] /\ ShellOK(r, source, bootstrap, releases)
  BY DEF Inv
<1>2. PICK p : p = CHOOSE q \in r.done : TRUE
  OBVIOUS
<1>3. PICK next : next = [r EXCEPT !.done = @ \ {p}, !.pc = IF r.done = {p} THEN "refresh failed" ELSE "restore"]
  OBVIOUS
<1>4. PICK content : content = r.originals[p]
  OBVIOUS
<1>5. /\ source' = Write(source, p, content)
      /\ shell' = [t \in Shells |-> IF t = s THEN next ELSE Disturbed(shell[t])]
      /\ bootstrap' = bootstrap /\ releases' = releases /\ current' = current
      /\ r.pc = "restore"
  BY <1>1, <1>2, <1>3, <1>4 DEF Restore, WriteSource, At
<1>6. ShellOK(next, Write(source, p, content), bootstrap, releases) /\ next.pc \notin Owner
  BY <1>1, <1>3, <1>4, <1>5
  DEF ShellOK, Restorable, Packaging, Activating, Applying, Assembly, Owner, Write
<1> QED
  BY <1>5, <1>6, WriteKeeps

\* A restore that fails gives up, and disturbs the refresh.
LEMMA RestoreFailsKeeps == ASSUME Inv, NEW s \in Shells, RestoreFails(s) PROVE Inv'
<1>1. PICK r : r = shell[s] /\ ShellOK(r, source, bootstrap, releases)
  BY DEF Inv
<1>2. PICK next : next = Disturbed([r EXCEPT !.pc = "refresh failed"])
  OBVIOUS
<1>3. /\ source' = source /\ bootstrap' = bootstrap /\ releases' = releases /\ current' = current
      /\ r.pc = "restore" /\ shell' = [shell EXCEPT ![s] = next]
  BY <1>1, <1>2 DEF RestoreFails, files, At, Enter
<1>4. {"pc", "updates", "originals", "exact", "done", "held"} \subseteq DOMAIN r
  BY <1>1, <1>3 DEF ShellOK, Restorable, Applying
<1>5. /\ DOMAIN next = DOMAIN r /\ next.exact = FALSE
      /\ next.pc = "refresh failed"
      /\ next.updates = r.updates /\ next.originals = r.originals
  BY <1>2, <1>4 DEF Disturbed, Refreshing
<1>6. ShellOK(next, source, bootstrap, releases) /\ next.pc \notin Owner
  BY <1>1, <1>3, <1>4, <1>5 DEF ShellOK, Restorable, Packaging, Activating, Applying, Assembly, Owner
<1> QED
  BY <1>3, <1>6, EnterKeeps

\* Every step of refresh.
LEMMA RefreshKeeps == ASSUME Inv, NEW s \in Shells, Refresh(s) PROVE Inv'
<1>1. CASE ReportRefresh(s)
  BY <1>1, ExitKeeps DEF ReportRefresh, files
<1> QED
  BY <1>1, StartRefreshKeeps, PlanAppKeeps, ReadOriginalsKeeps, BeginApplyKeeps, ReplaceKeeps, ReplaceFailsKeeps,
     UndoKeeps, UndoFailsKeeps, CheckHostDigestsKeeps, RestoreKeeps, RestoreFailsKeeps DEF Refresh

----------------------------------------------------------------------------
(* an assembly *)

\* An assembly starts with an empty stage.
LEMMA StartAssemblyKeeps ==
    ASSUME Inv, NEW s \in Shells, NEW staged, NEW frozen, StartAssembly(s, staged, frozen)
    PROVE  Inv'
<1>1. PICK plan, surface, kind : Command(s, kind,
            [pc |-> "resolve", staged |-> staged, frozen |-> frozen, stage |-> NoFiles, todo |-> {},
             plan |-> plan, surface |-> surface])
  BY DEF StartAssembly
<1>2. PICK first : first = [pc |-> "resolve", staged |-> staged, frozen |-> frozen, stage |-> NoFiles, todo |-> {},
                            plan |-> plan, surface |-> surface]
  OBVIOUS
<1>3. ShellOK(first, source, bootstrap, releases) /\ first.pc \notin Owner
  BY <1>2 DEF ShellOK, Restorable, Packaging, Activating, Applying, Assembly, Owner, NoFiles
<1> QED
  BY <1>1, <1>2, <1>3, CommandKeeps

\* A step of an assembly that leaves the stage alone.
LEMMA AssemblyGoesOn ==
    ASSUME NEW r, NEW next, NEW src, NEW boot, NEW rels, ShellOK(r, src, boot, rels), r.pc \in Assembly,
           DOMAIN next = DOMAIN r, next.stage = r.stage, next.pc \in Assembly \ {"claim"},
           next.pc = "copy" => next.todo # {} /\ Executable \notin next.todo
    PROVE  ShellOK(next, src, boot, rels) /\ next.pc \notin Owner
<1>1. "exact" \notin DOMAIN r
  BY DEF ShellOK, Restorable, Assembly, Applying
<1> QED
  BY <1>1 DEF ShellOK, Restorable, Packaging, Activating, Applying, Assembly, Owner

\* The second resolution changes the plan only.
LEMMA ResolveAgainKeeps == ASSUME Inv, NEW s \in Shells, ResolveAgain(s) PROVE Inv'
<1>1. PICK r : r = shell[s] /\ ShellOK(r, source, bootstrap, releases)
  BY DEF Inv
<1>2. /\ source' = source /\ bootstrap' = bootstrap /\ releases' = releases /\ current' = current
      /\ r.pc = "resolve"
  BY <1>1 DEF ResolveAgain, files, At
<1>3. {"pc", "stage", "todo", "plan", "surface"} \subseteq DOMAIN r
  BY <1>1, <1>2 DEF ShellOK, Packaging, Assembly
<1>4. CASE Exit(s)
  BY <1>2, <1>4, ExitKeeps
<1>5. CASE ~Exit(s)
  <2>1. PICK plan, surface : Enter(s, [r EXCEPT !.pc = IF r.frozen THEN "freeze" ELSE "host",
                                                !.plan = plan, !.surface = surface])
    BY <1>1, <1>5 DEF ResolveAgain
  <2>2. PICK next : next = [r EXCEPT !.pc = IF r.frozen THEN "freeze" ELSE "host",
                                     !.plan = plan, !.surface = surface]
    OBVIOUS
  <2>3. DOMAIN next = DOMAIN r /\ next.stage = r.stage /\ next.pc \in {"freeze", "host"}
    BY <1>3, <2>2
  <2>4. ShellOK(next, source, bootstrap, releases) /\ next.pc \notin Owner
    BY <1>1, <1>2, <2>3, AssemblyGoesOn DEF Assembly
  <2> QED
    BY <1>2, <2>1, <2>2, <2>4, EnterKeeps DEF Enter
<1> QED
  BY <1>4, <1>5

\* The files to copy come from the checkout, which has no executable.
LEMMA freezeApplicationsKeeps == ASSUME Inv, NEW s \in Shells, freezeApplications(s) PROVE Inv'
<1>1. PICK r : r = shell[s] /\ ShellOK(r, source, bootstrap, releases)
  BY DEF Inv
<1>2. /\ source' = source /\ bootstrap' = bootstrap /\ releases' = releases /\ current' = current
      /\ r.pc = "freeze"
  BY <1>1 DEF freezeApplications, files, At
<1>3. {"pc", "stage", "todo", "plan", "surface"} \subseteq DOMAIN r
  BY <1>1, <1>2 DEF ShellOK, Packaging, Assembly
<1>4. PICK todo : todo = CopiedPaths(source, r.plan, r.surface)
  OBVIOUS
<1>5. DescriptorFile \in todo /\ Executable \notin todo
  BY <1>4 DEF CopiedPaths, FrozenPaths, DescriptorFile, Executable, Manifest, Artifact, Surface
<1>6. PICK next : next = [r EXCEPT !.pc = "copy", !.todo = todo]
  OBVIOUS
<1>7. Exit(s) \/ shell' = [shell EXCEPT ![s] = next]
  BY <1>1, <1>4, <1>6 DEF freezeApplications, Enter
<1>8. DOMAIN next = DOMAIN r /\ next.stage = r.stage /\ next.pc = "copy" /\ next.todo = todo
  BY <1>3, <1>6
<1>9. ShellOK(next, source, bootstrap, releases) /\ next.pc \notin Owner
  BY <1>1, <1>2, <1>5, <1>8, AssemblyGoesOn DEF Assembly
<1> QED
  BY <1>2, <1>7, <1>9, EnterKeeps, ExitKeeps

\* A file is written, to the stage or to the assembly directory.
LEMMA WriteFileKeeps ==
    ASSUME Inv, NEW s \in Shells, NEW p, NEW content, NEW next, WriteFile(s, p, content, next),
           source' = source, bootstrap' = bootstrap, releases' = releases, current' = current,
           p # Executable, shell[s].pc \in Assembly, DOMAIN next = DOMAIN shell[s],
           next.stage = shell[s].stage, next.pc \in Assembly,
           next.pc = "copy" => next.todo # {} /\ Executable \notin next.todo,
           next.pc = "claim" => shell[s].staged /\ p = LaunchFile
    PROVE  Inv'
<1>1. PICK r : r = shell[s] /\ ShellOK(r, source, bootstrap, releases)
  BY DEF Inv
<1>2. "exact" \notin DOMAIN r /\ {"pc", "stage", "todo", "plan", "surface"} \subseteq DOMAIN r
      /\ r.stage = [q \in DOMAIN r.stage |-> r.stage[q]] /\ Executable \notin DOMAIN r.stage
  BY <1>1 DEF ShellOK, Restorable, Packaging, Assembly, Applying
<1>3. CASE r.staged
  <2>1. PICK stage : stage = Write(r.stage, p, content)
    OBVIOUS
  <2>2. stage = [q \in DOMAIN stage |-> stage[q]] /\ Executable \notin DOMAIN stage /\ p \in DOMAIN stage
    BY <1>2, <2>1 DEF Write
  <2>3. PICK after : after = [next EXCEPT !.stage = stage]
    OBVIOUS
  <2>4. shell' = [shell EXCEPT ![s] = after]
    BY <1>1, <1>2, <1>3, <2>1, <2>3 DEF WriteFile, Enter
  <2>5. DOMAIN after = DOMAIN r /\ after.stage = stage /\ after.pc = next.pc /\ after.todo = next.todo
    BY <1>1, <1>2, <2>3
  <2>6. ShellOK(after, source, bootstrap, releases) /\ after.pc \notin Owner
    BY <1>2, <2>2, <2>5 DEF ShellOK, Restorable, Packaging, Activating, Applying, Assembly, Owner
  <2> QED
    BY <2>4, <2>6, EnterKeeps
<1>4. CASE ~r.staged
  <2>1. shell' = [shell EXCEPT ![s] = next]
    BY <1>1, <1>4 DEF WriteFile, Enter
  <2>2. ShellOK(next, source, bootstrap, releases) /\ next.pc \notin Owner
    BY <1>1, <1>4, AssemblyGoesOn
  <2> QED
    BY <2>1, <2>2, EnterKeeps
<1> QED
  BY <1>3, <1>4

\* A copied file is no executable, in the stage or in the assembly directory.
LEMMA copyProductFileKeeps == ASSUME Inv, NEW s \in Shells, copyProductFile(s) PROVE Inv'
<1>1. PICK r : r = shell[s] /\ ShellOK(r, source, bootstrap, releases)
  BY DEF Inv
<1>2. PICK p : p = CHOOSE q \in r.todo : TRUE
  OBVIOUS
<1>3. PICK next : next = [r EXCEPT !.todo = @ \ {p}, !.pc = IF r.todo = {p} THEN "host" ELSE "copy"]
  OBVIOUS
<1>4. PICK content : content = source[p]
  OBVIOUS
<1>5. WriteFile(s, p, content, next)
  BY <1>1, <1>2, <1>3, <1>4 DEF copyProductFile
<1>6. source' = source /\ bootstrap' = bootstrap /\ releases' = releases /\ current' = current /\ r.pc = "copy"
  BY <1>1 DEF copyProductFile, At
<1>7. {"pc", "stage", "todo"} \subseteq DOMAIN r /\ r.todo # {} /\ Executable \notin r.todo
  BY <1>1, <1>6 DEF ShellOK, Packaging, Assembly
<1>8. p \in r.todo
  BY <1>2, <1>7
<1>9. /\ DOMAIN next = DOMAIN r /\ next.stage = r.stage /\ next.pc \in {"host", "copy"}
      /\ next.pc = "copy" => next.todo # {} /\ Executable \notin next.todo
  BY <1>3, <1>7, <1>8
<1> QED
  BY <1>1, <1>5, <1>6, <1>7, <1>8, <1>9, WriteFileKeeps DEF Assembly

\* The host manifest is no executable,
LEMMA WriteHostKeeps == ASSUME Inv, NEW s \in Shells, WriteHost(s) PROVE Inv'
<1>1. PICK r : r = shell[s] /\ ShellOK(r, source, bootstrap, releases)
  BY DEF Inv
<1>2. source' = source /\ bootstrap' = bootstrap /\ releases' = releases /\ current' = current /\ r.pc = "host"
  BY <1>1 DEF WriteHost, At
<1>3. PICK next : next = [r EXCEPT !.pc = "plan file"]
  OBVIOUS
<1>4. PICK p, content : p = HostFile /\ content = renderHost(r.plan, r.frozen)
  OBVIOUS
<1>5. Exit(s) \/ WriteFile(s, p, content, next)
  BY <1>1, <1>3, <1>4 DEF WriteHost
<1>6. {"pc", "stage", "todo"} \subseteq DOMAIN r
  BY <1>1, <1>2 DEF ShellOK, Packaging, Assembly
<1>7. DOMAIN next = DOMAIN r /\ next.stage = r.stage /\ next.pc = "plan file"
  BY <1>3, <1>6
<1>8. p # Executable
  BY <1>4 DEF HostFile, Executable
<1> QED
  BY <1>1, <1>2, <1>5, <1>7, <1>8, WriteFileKeeps, ExitKeeps DEF Assembly

\* and the plan is none,
LEMMA WritePlanKeeps == ASSUME Inv, NEW s \in Shells, WritePlan(s) PROVE Inv'
<1>1. PICK r : r = shell[s] /\ ShellOK(r, source, bootstrap, releases)
  BY DEF Inv
<1>2. source' = source /\ bootstrap' = bootstrap /\ releases' = releases /\ current' = current /\ r.pc = "plan file"
  BY <1>1 DEF WritePlan, At
<1>3. PICK next : next = [r EXCEPT !.pc = "launch"]
  OBVIOUS
<1>4. PICK p, content : p = PlanFile /\ content = RecordedPlan(r.plan, r.surface, r.frozen)
  OBVIOUS
<1>5. WriteFile(s, p, content, next)
  BY <1>1, <1>3, <1>4 DEF WritePlan
<1>6. {"pc", "stage", "todo"} \subseteq DOMAIN r
  BY <1>1, <1>2 DEF ShellOK, Packaging, Assembly
<1>7. DOMAIN next = DOMAIN r /\ next.stage = r.stage /\ next.pc = "launch"
  BY <1>3, <1>6
<1>8. p # Executable
  BY <1>4 DEF PlanFile, Executable
<1> QED
  BY <1>1, <1>2, <1>5, <1>7, <1>8, WriteFileKeeps DEF Assembly

\* nor is the launch file, which a package has from here on.
LEMMA WriteLaunchKeeps == ASSUME Inv, NEW s \in Shells, WriteLaunch(s) PROVE Inv'
<1>1. PICK r : r = shell[s] /\ ShellOK(r, source, bootstrap, releases)
  BY DEF Inv
<1>2. source' = source /\ bootstrap' = bootstrap /\ releases' = releases /\ current' = current /\ r.pc = "launch"
  BY <1>1 DEF WriteLaunch, At
<1>3. PICK p, content : p = LaunchFile /\ content = LaunchContract(r.plan, r.surface, r.frozen)
  OBVIOUS
<1>4. CASE ~r.staged
  <2>1. Exit(s)
    BY <1>1, <1>4 DEF WriteLaunch, WriteFile, Exit
  <2> QED
    BY <1>2, <2>1, ExitKeeps
<1>5. CASE r.staged
  <2>1. PICK next : next = [r EXCEPT !.pc = "claim"]
    OBVIOUS
  <2>2. WriteFile(s, p, content, next)
    BY <1>1, <1>3, <1>5, <2>1 DEF WriteLaunch
  <2>3. {"pc", "stage", "todo"} \subseteq DOMAIN r
    BY <1>1, <1>2 DEF ShellOK, Packaging, Assembly
  <2>4. DOMAIN next = DOMAIN r /\ next.stage = r.stage /\ next.pc = "claim"
    BY <2>1, <2>3
  <2>5. p # Executable
    BY <1>3 DEF LaunchFile, Executable
  <2> QED
    BY <1>1, <1>2, <1>3, <1>5, <2>2, <2>4, <2>5, WriteFileKeeps DEF Assembly
<1> QED
  BY <1>4, <1>5

----------------------------------------------------------------------------
(* a package *)

\* Only the command that owns it may change the bootstrap file.
LEMMA BootstrapKeeps ==
    ASSUME Inv, NEW s \in Shells, NEW next, shell' = [shell EXCEPT ![s] = next],
           source' = source, releases' = releases, current' = current,
           \A t \in Shells \ {s} : shell[t].pc \notin Owner,
           ShellOK(next, source, bootstrap', releases)
    PROVE  Inv'
<1>1. DOMAIN shell' = Shells /\ \A t \in Shells : shell'[t] = IF t = s THEN next ELSE shell[t]
  BY DEF Inv
<1>2. ASSUME NEW t \in Shells PROVE ShellOK(shell'[t], source', bootstrap', releases')
  <2>1. CASE t = s
    BY <1>1, <2>1
  <2>2. CASE t # s
    <3>1. PICK r : r = shell[t] /\ ShellOK(r, source, bootstrap, releases)
      BY DEF Inv
    <3>2. r.pc \notin Owner
      BY <2>2, <3>1
    <3>3. PICK boot : boot = bootstrap'
      OBVIOUS
    <3>4. ShellOK(r, source, boot, releases)
      BY <3>1, <3>2 DEF ShellOK, Packaging, Owner
    <3> QED
      BY <1>1, <2>2, <3>1, <3>3, <3>4
  <2> QED
    BY <2>1, <2>2
<1>3. OneOwner'
  BY <1>1 DEF OneOwner
<1>4. State(current, releases)'
  BY DEF Inv
<1> QED
  BY <1>1, <1>2, <1>3, <1>4 DEF Inv

\* O_EXCL: there was no bootstrap file, hence no owner, and now there is one.
LEMMA ClaimModuleKeeps == ASSUME Inv, NEW s \in Shells, ClaimModule(s) PROVE Inv'
<1>1. PICK r : r = shell[s] /\ ShellOK(r, source, bootstrap, releases)
  BY DEF Inv
<1>2. source' = source /\ releases' = releases /\ current' = current /\ r.pc = "claim"
  BY <1>1 DEF ClaimModule, At
<1>3. CASE bootstrap # NoFiles
  BY <1>2, <1>3, ExitKeeps DEF ClaimModule
<1>4. CASE bootstrap = NoFiles
  <2>1. PICK next : next = [r EXCEPT !.pc = "compile"]
    OBVIOUS
  <2>2. bootstrap' = r.stage /\ shell' = [shell EXCEPT ![s] = next]
    BY <1>1, <1>4, <2>1 DEF ClaimModule, Goto, Enter
  <2>3. /\ {"pc", "stage", "todo", "plan", "surface"} \subseteq DOMAIN r /\ "exact" \notin DOMAIN r
        /\ r.stage = [p \in DOMAIN r.stage |-> r.stage[p]]
        /\ Executable \notin DOMAIN r.stage /\ LaunchFile \in DOMAIN r.stage
    BY <1>1, <1>2 DEF ShellOK, Restorable, Packaging, Assembly, Applying
  <2>4. r.stage # NoFiles
    BY <2>3 DEF NoFiles
  <2>5. DOMAIN next = DOMAIN r /\ next.stage = r.stage /\ next.pc = "compile"
    BY <2>1, <2>3
  <2>6. PICK boot : boot = bootstrap'
    OBVIOUS
  <2>7. ShellOK(next, source, boot, releases)
    BY <2>2, <2>3, <2>4, <2>5, <2>6 DEF ShellOK, Restorable, Packaging, Activating, Applying, Assembly, Owner
  <2>8. \A t \in Shells \ {s} : shell[t].pc \notin Owner
    BY <1>4 DEF Inv, ShellOK, Packaging
  <2> QED
    BY <1>2, <2>2, <2>6, <2>7, <2>8, BootstrapKeeps
<1> QED
  BY <1>3, <1>4

\* The owner compiles its own bootstrap file: nobody else can have changed it.
LEMMA CompileKeeps == ASSUME Inv, NEW s \in Shells, Compile(s) PROVE Inv'
<1>1. PICK r : r = shell[s] /\ ShellOK(r, source, bootstrap, releases)
  BY DEF Inv
<1>2. /\ source' = source /\ bootstrap' = bootstrap /\ releases' = releases /\ current' = current
      /\ r.pc = "compile"
  BY <1>1 DEF Compile, files, At
<1>3. PICK stage : stage = Write(r.stage, Executable, bootstrap)
  OBVIOUS
<1>4. PICK next : next = [pc |-> "set aside", stage |-> stage]
  OBVIOUS
<1>5. shell' = [shell EXCEPT ![s] = next]
  BY <1>1, <1>3, <1>4 DEF Compile, Enter
<1>6. /\ bootstrap = r.stage /\ r.stage = [p \in DOMAIN r.stage |-> r.stage[p]]
      /\ Executable \notin DOMAIN r.stage /\ bootstrap # NoFiles
  BY <1>1, <1>2 DEF ShellOK, Packaging, Owner
<1>7. stage[Executable] = [p \in DOMAIN stage \ {Executable} |-> stage[p]]
  <2>1. DOMAIN stage \ {Executable} = DOMAIN r.stage
    BY <1>3, <1>6 DEF Write
  <2>2. \A p \in DOMAIN r.stage : stage[p] = r.stage[p]
    BY <1>3, <1>6 DEF Write
  <2>3. stage[Executable] = r.stage
    BY <1>3, <1>6 DEF Write
  <2>4. [p \in DOMAIN stage \ {Executable} |-> stage[p]] = [p \in DOMAIN r.stage |-> r.stage[p]]
    BY <2>1, <2>2
  <2> QED
    BY <1>6, <2>3, <2>4
<1>8. ShellOK(next, source, bootstrap, releases) /\ r.pc \in Owner
  BY <1>2, <1>4, <1>6, <1>7 DEF ShellOK, Restorable, Packaging, Activating, Applying, Assembly, Owner
<1> QED
  BY <1>1, <1>2, <1>5, <1>8, EnterKeeps

\* Setting the old output aside keeps the stage.
LEMMA SetAsideKeeps == ASSUME Inv, NEW s \in Shells, SetAside(s) PROVE Inv'
<1>1. PICK r : r = shell[s] /\ ShellOK(r, source, bootstrap, releases)
  BY DEF Inv
<1>2. /\ source' = source /\ bootstrap' = bootstrap /\ releases' = releases /\ current' = current
      /\ r.pc = "set aside"
  BY <1>1 DEF SetAside, At
<1>3. PICK next : next = [pc |-> "activate", stage |-> r.stage, backup |-> output]
  OBVIOUS
<1>4. shell' = [shell EXCEPT ![s] = next]
  BY <1>1, <1>3 DEF SetAside, Enter
<1>5. ShellOK(next, source, bootstrap, releases) /\ r.pc \in Owner
  BY <1>1, <1>2, <1>3 DEF ShellOK, Restorable, Packaging, Activating, Applying, Assembly, Owner
<1> QED
  BY <1>1, <1>2, <1>4, <1>5, EnterKeeps

\* The owner of the bootstrap file removes it and ends.
LEMMA RemoveKeeps ==
    ASSUME Inv, NEW s \in Shells, shell[s].pc \in Owner, Exit(s),
           source' = source, releases' = releases, current' = current
    PROVE  Inv'
<1>1. \A t \in Shells \ {s} : shell[t].pc \notin Owner
  BY DEF Inv, OneOwner
<1>2. PICK boot : boot = bootstrap'
  OBVIOUS
<1>3. ShellOK(Idle, source, boot, releases)
  BY IdleIsOK
<1>4. shell' = [shell EXCEPT ![s] = Idle]
  BY DEF Exit, Enter
<1> HIDE DEF Idle
<1> QED
  BY <1>1, <1>2, <1>3, <1>4, BootstrapKeeps

\* The stage that takes the name of the output is the one that was compiled.
LEMMA activatePackageKeeps == ASSUME Inv, NEW s \in Shells, activatePackage(s) PROVE Inv'
<1>1. PICK r : r = shell[s] /\ ShellOK(r, source, bootstrap, releases)
  BY DEF Inv
<1>2. source' = source /\ releases' = releases /\ current' = current /\ r.pc = "activate"
  BY <1>1 DEF activatePackage, At
<1>3. CASE output # NoFiles
  BY <1>1, <1>2, <1>3, RemoveKeeps DEF activatePackage, Owner
<1>4. CASE output = NoFiles
  <2>1. PICK next : next = [r EXCEPT !.pc = "clean up"]
    OBVIOUS
  <2>2. bootstrap' = bootstrap /\ shell' = [shell EXCEPT ![s] = next]
    BY <1>1, <1>4, <2>1 DEF activatePackage, Goto, Enter
  <2>3. ShellOK(next, source, bootstrap, releases) /\ r.pc \in Owner
    BY <1>1, <1>2, <2>1 DEF ShellOK, Restorable, Packaging, Activating, Applying, Assembly, Owner
  <2> QED
    BY <1>1, <1>2, <2>2, <2>3, EnterKeeps
<1> QED
  BY <1>3, <1>4

\* Every step of build and package.
LEMMA AssembleKeeps == ASSUME Inv, NEW s \in Shells, Assemble(s) PROVE Inv'
<1>1. CASE Build(s) \/ Package(s)
  BY <1>1, StartAssemblyKeeps DEF Build, Package
<1>2. CASE AssemblyFails(s)
  BY <1>2, ExitKeeps DEF AssemblyFails, files
<1>3. CASE CompileFails(s) \/ SetAsideFails(s) \/ ActivatePackageFails(s) \/ CleanUp(s)
  BY <1>3, RemoveKeeps DEF CompileFails, SetAsideFails, ActivatePackageFails, CleanUp, At, Owner
<1> QED
  BY <1>1, <1>2, <1>3, ResolveAgainKeeps, freezeApplicationsKeeps, copyProductFileKeeps, WriteHostKeeps,
     WritePlanKeeps, WriteLaunchKeeps, ClaimModuleKeeps, CompileKeeps, SetAsideKeeps, activatePackageKeeps
  DEF Assemble

----------------------------------------------------------------------------
(* an install *)

\* A command that is at none of the places the invariant speaks about.
Elsewhere(r) ==
    /\ "pc" \in DOMAIN r /\ "exact" \notin DOMAIN r
    /\ r.pc \in {"digest", "install", "publish"}

\* A step to a place of which the invariant says nothing.
LEMMA ElsewhereKeeps ==
    ASSUME Inv, NEW s \in Shells, NEW next, shell' = [shell EXCEPT ![s] = next], Elsewhere(next),
           source' = source, bootstrap' = bootstrap, releases' = releases, current' = current
    PROVE  Inv'
<1>1. ShellOK(next, source, bootstrap, releases) /\ next.pc \notin Owner
  BY DEF Elsewhere, ShellOK, Restorable, Packaging, Activating, Applying, Assembly, Owner
<1> QED
  BY <1>1, EnterKeeps

\* Copies go to a directory that only this install knows.
LEMMA copyReleaseFileKeeps == ASSUME Inv, NEW s \in Shells, copyReleaseFile(s) PROVE Inv'
<1>1. PICK r : r = shell[s] /\ ShellOK(r, source, bootstrap, releases)
  BY DEF Inv
<1>2. /\ source' = source /\ bootstrap' = bootstrap /\ releases' = releases /\ current' = current
      /\ r.pc = "install"
  BY <1>1 DEF copyReleaseFile, files, At
<1>3. "pc" \in DOMAIN r /\ "exact" \notin DOMAIN r
  BY <1>1, <1>2 DEF ShellOK, Restorable, Applying
<1>4. CASE Exit(s)
  BY <1>2, <1>4, ExitKeeps
<1>5. CASE ~Exit(s)
  <2>1. PICK todo, copy, pc : /\ pc \in {"install", "publish"}
                              /\ Enter(s, [r EXCEPT !.todo = todo, !.copy = copy, !.pc = pc])
    BY <1>1, <1>5 DEF copyReleaseFile
  <2>2. PICK next : next = [r EXCEPT !.todo = todo, !.copy = copy, !.pc = pc]
    OBVIOUS
  <2>3. Elsewhere(next) /\ shell' = [shell EXCEPT ![s] = next]
    BY <1>3, <2>1, <2>2 DEF Elsewhere, Enter
  <2> QED
    BY <1>2, <2>3, ElsewhereKeeps
<1> QED
  BY <1>4, <1>5

\* A release that is added leaves the others as they are.
LEMMA GoodStays ==
    ASSUME NEW rels, NEW d, NEW c, d \notin DOMAIN rels, NEW digest, Good(digest, rels)
    PROVE  Good(digest, Write(rels, d, c))
<1>1. CASE digest # None
  <2>1. digest \in DOMAIN rels /\ digest # d
    BY <1>1 DEF Good
  <2>2. digest \in DOMAIN Write(rels, d, c) /\ Write(rels, d, c)[digest] = rels[digest]
    BY <2>1 DEF Write
  <2> QED
    BY <2>2 DEF Good
<1>2. CASE digest = None
  BY <1>2 DEF Good
<1> QED
  BY <1>1, <1>2

\* A published release has the name of its digest.
LEMMA PublishReleaseKeeps == ASSUME Inv, NEW s \in Shells, PublishRelease(s) PROVE Inv'
<1>1. /\ Exit(s) /\ source' = source /\ bootstrap' = bootstrap /\ current' = current
  BY DEF PublishRelease
<1>2. CASE releases' = releases
  BY <1>1, <1>2, ExitKeeps
<1>3. CASE releases' # releases
  <2>1. PICK d, c : d \notin DOMAIN releases /\ releases' = Write(releases, d, c)
    BY <1>3 DEF PublishRelease
  <2>2. PICK rels : rels = Write(releases, d, c)
    OBVIOUS
  <2>3. \A digest : Good(digest, releases) => Good(digest, rels)
    BY <2>1, <2>2, GoodStays
  <2>4. ASSUME NEW t \in Shells PROVE ShellOK(shell'[t], source', bootstrap', releases')
    <3>1. PICK r : r = shell[t] /\ ShellOK(r, source, bootstrap, releases)
      BY DEF Inv
    <3>2. ShellOK(r, source, bootstrap, rels)
      BY <2>3, <3>1 DEF ShellOK, Activating, State
    <3>3. shell'[t] = r \/ shell'[t] = Idle
      BY <1>1, <3>1 DEF Exit, Enter, Inv
    <3> QED
      BY <1>1, <2>1, <2>2, <3>2, <3>3, IdleIsOK
  <2>5. DOMAIN shell' = Shells /\ OneOwner'
    BY <1>1 DEF Exit, Enter, Inv, OneOwner, Idle, Owner
  <2>6. State(current', releases')
    BY <1>1, <2>1, <2>2, <2>3 DEF Inv, State
  <2> QED
    BY <2>4, <2>5, <2>6 DEF Inv
<1> QED
  BY <1>2, <1>3

\* Every step of install.
LEMMA InstallReleaseKeeps == ASSUME Inv, NEW s \in Shells, InstallRelease(s) PROVE Inv'
<1>1. CASE VerifyAssembly(s)
  <2>1. PICK next : next = [pc |-> "digest"]
    OBVIOUS
  <2>2. Elsewhere(next) /\ shell' = [shell EXCEPT ![s] = next]
    BY <1>1, <2>1 DEF VerifyAssembly, Command, Enter, Elsewhere
  <2>3. source' = source /\ bootstrap' = bootstrap /\ releases' = releases /\ current' = current
    BY <1>1 DEF VerifyAssembly, Command, files
  <2> QED
    BY <2>2, <2>3, ElsewhereKeeps
<1>2. CASE DigestAssembly(s)
  <2>1. source' = source /\ bootstrap' = bootstrap /\ releases' = releases /\ current' = current
    BY <1>2 DEF DigestAssembly, files
  <2>2. PICK next : next = [pc |-> "install", digest |-> treeDigest(output), copy |-> NoFiles, todo |-> DOMAIN output]
    OBVIOUS
  <2>3. Elsewhere(next)
    BY <2>2 DEF Elsewhere
  <2>4. Exit(s) \/ shell' = [shell EXCEPT ![s] = next]
    BY <1>2, <2>2 DEF DigestAssembly, Enter
  <2> QED
    BY <2>1, <2>3, <2>4, ElsewhereKeeps, ExitKeeps
<1> QED
  BY <1>1, <1>2, copyReleaseFileKeeps, PublishReleaseKeeps DEF InstallRelease

----------------------------------------------------------------------------
(* activations *)

\* What was verified against the checkout of that moment does not need it, unless
\* the release has the host manifest of a linked build.
LEMMA VerifiedStands ==
    ASSUME NEW digest, Verified(digest)
    PROVE  Stands(releases[digest])
<1>1. PICK dir : dir = releases[digest] /\ Launches(dir, Beyond)
  BY DEF Verified
<1>2. CASE ReadsCheckout(dir)
  <2>1. ~PathsLeadBack => Beyond = NoFiles
    BY DEF Beyond
  <2> QED
    BY <1>1, <1>2, <2>1 DEF Stands
<1>3. CASE ~ReadsCheckout(dir)
  <2>1. PICK host : host = dir[dir[LaunchFile].host]
    OBVIOUS
  <2>2. Root(dir, host, Beyond) = Root(dir, host, NoFiles)
    BY <1>3, <2>1 DEF ReadsCheckout, Root
  <2>3. LoadHost(dir, host, Beyond) => LoadHost(dir, host, NoFiles)
    BY <2>2 DEF LoadHost
  <2>4. Launches(dir, NoFiles)
    BY <1>1, <2>1, <2>3 DEF Launches
  <2> QED
    BY <1>1, <2>4 DEF Stands
<1> QED
  BY <1>2, <1>3

\* An activation starts with a release that has just been verified.
LEMMA VerifyReleaseKeeps ==
    ASSUME Inv, NEW s \in Shells, NEW digest \in DOMAIN releases, VerifyRelease(s, digest)
    PROVE  Inv'
<1>1. PICK first : first = [pc |-> "load state", digest |-> digest, rollback |-> FALSE, active |-> None]
  OBVIOUS
<1>2. Good(digest, releases) /\ Good(None, releases)
  BY VerifiedStands DEF VerifyRelease, Verified, Good
<1>3. ShellOK(first, source, bootstrap, releases) /\ first.pc \notin Owner
  BY <1>1, <1>2 DEF ShellOK, Restorable, Packaging, Activating, Applying, Assembly, Owner
<1> QED
  BY <1>1, <1>3, CommandKeeps DEF VerifyRelease

\* A rollback starts with the previous release of a state that is good.
LEMMA StartRollbackKeeps == ASSUME Inv, NEW s \in Shells, StartRollback(s) PROVE Inv'
<1>1. PICK first : first = [pc |-> "load state", digest |-> current.previous,
                            rollback |-> TRUE, active |-> current.active]
  OBVIOUS
<1>2. Good(current.previous, releases) /\ Good(current.active, releases)
  BY DEF Inv, State
<1>3. ShellOK(first, source, bootstrap, releases) /\ first.pc \notin Owner
  BY <1>1, <1>2 DEF ShellOK, Restorable, Packaging, Activating, Applying, Assembly, Owner
<1> QED
  BY <1>1, <1>3, CommandKeeps DEF StartRollback

\* What a rollback still has to write after it has activated the release.
LEMMA ActivatedIsOK ==
    ASSUME NEW r, NEW state, NEW src, NEW boot, NEW rels, State(state, rels), Good(r.active, rels)
    PROVE  ShellOK(Activated(r, state), src, boot, rels) /\ Activated(r, state).pc \notin Owner
<1>1. CASE ~r.rollback
  BY <1>1, IdleIsOK DEF Activated, Idle, Owner
<1>2. CASE r.rollback
  <2>1. PICK st : st = [state EXCEPT !.previous = r.active]
    OBVIOUS
  <2>2. State(st, rels)
    BY <2>1 DEF State
  <2>3. PICK next : next = [pc |-> "rewrite state", state |-> st]
    OBVIOUS
  <2>4. ShellOK(next, src, boot, rels) /\ next.pc \notin Owner
    BY <2>2, <2>3 DEF ShellOK, Restorable, Packaging, Activating, Applying, Assembly, Owner
  <2>5. Activated(r, state) = next
    BY <1>2, <2>1, <2>3 DEF Activated
  <2> QED
    BY <2>4, <2>5
<1> QED
  BY <1>1, <1>2

\* The state to write names the verified release and the one that was active.
LEMMA LoadReleaseStateKeeps == ASSUME Inv, NEW s \in Shells, LoadReleaseState(s) PROVE Inv'
<1>1. PICK r : r = shell[s] /\ ShellOK(r, source, bootstrap, releases)
  BY DEF Inv
<1>2. /\ source' = source /\ bootstrap' = bootstrap /\ releases' = releases /\ current' = current
      /\ r.pc = "load state"
  BY <1>1 DEF LoadReleaseState, files, At
<1>3. Good(r.digest, releases) /\ Good(r.active, releases) /\ State(current, releases)
  BY <1>1, <1>2 DEF ShellOK, Activating, Inv
<1>4. CASE current.active = r.digest
  <2>1. PICK next : next = Activated(r, current)
    OBVIOUS
  <2>2. ShellOK(next, source, bootstrap, releases) /\ next.pc \notin Owner
    BY <1>3, <2>1, ActivatedIsOK
  <2>3. shell' = [shell EXCEPT ![s] = next]
    BY <1>1, <1>4, <2>1 DEF LoadReleaseState, Enter
  <2> QED
    BY <1>2, <2>2, <2>3, EnterKeeps
<1>5. CASE current.active # r.digest
  <2>1. PICK state : state = [active |-> r.digest, previous |-> current.active]
    OBVIOUS
  <2>2. State(state, releases)
    BY <1>3, <2>1 DEF State
  <2>3. PICK next : next = [pc |-> "write state", rollback |-> r.rollback, active |-> r.active, state |-> state]
    OBVIOUS
  <2>4. ShellOK(next, source, bootstrap, releases) /\ next.pc \notin Owner
    BY <1>3, <2>2, <2>3 DEF ShellOK, Restorable, Packaging, Activating, Applying, Assembly, Owner
  <2>5. shell' = [shell EXCEPT ![s] = next]
    BY <1>1, <1>5, <2>1, <2>3 DEF LoadReleaseState, Enter
  <2> QED
    BY <1>2, <2>4, <2>5, EnterKeeps
<1> QED
  BY <1>4, <1>5

\* current.json is written with a state that was verified.
LEMMA StateKeeps ==
    ASSUME Inv, NEW s \in Shells, NEW next, shell' = [shell EXCEPT ![s] = next],
           source' = source, bootstrap' = bootstrap, releases' = releases, State(current', releases),
           ShellOK(next, source, bootstrap, releases), next.pc \notin Owner
    PROVE  Inv'
<1>1. DOMAIN shell' = Shells /\ \A t \in Shells : shell'[t] = IF t = s THEN next ELSE shell[t]
  BY DEF Inv
<1>2. ASSUME NEW t \in Shells PROVE ShellOK(shell'[t], source', bootstrap', releases')
  BY <1>1 DEF Inv
<1>3. OneOwner'
  BY <1>1 DEF Inv, OneOwner
<1> QED
  BY <1>1, <1>2, <1>3 DEF Inv

\* What is written is good still: no release is ever removed or changed.
LEMMA writeReleaseStateKeeps == ASSUME Inv, NEW s \in Shells, writeReleaseState(s) PROVE Inv'
<1>1. PICK r : r = shell[s] /\ ShellOK(r, source, bootstrap, releases)
  BY DEF Inv
<1>2. /\ source' = source /\ bootstrap' = bootstrap /\ releases' = releases /\ current' = r.state
      /\ r.pc = "write state"
  BY <1>1 DEF writeReleaseState, At
<1>3. Good(r.active, releases) /\ State(r.state, releases)
  BY <1>1, <1>2 DEF ShellOK, Activating
<1>4. PICK state, next : state = r.state /\ next = Activated(r, r.state)
  OBVIOUS
<1>5. ShellOK(next, source, bootstrap, releases) /\ next.pc \notin Owner
  BY <1>3, <1>4, ActivatedIsOK
<1>6. shell' = [shell EXCEPT ![s] = next]
  BY <1>1, <1>4 DEF writeReleaseState, Enter
<1> QED
  BY <1>2, <1>3, <1>5, <1>6, StateKeeps

\* So is the second write of a rollback.
LEMMA RewriteStateKeeps == ASSUME Inv, NEW s \in Shells, RewriteState(s) PROVE Inv'
<1>1. PICK r : r = shell[s] /\ ShellOK(r, source, bootstrap, releases)
  BY DEF Inv
<1>2. /\ source' = source /\ bootstrap' = bootstrap /\ releases' = releases /\ current' = r.state
      /\ r.pc = "rewrite state"
  BY <1>1 DEF RewriteState, At
<1>3. State(r.state, releases)
  BY <1>1, <1>2 DEF ShellOK, Activating
<1>4. ShellOK(Idle, source, bootstrap, releases) /\ Idle.pc \notin Owner
  BY IdleIsOK DEF Idle, Owner
<1>5. shell' = [shell EXCEPT ![s] = Idle]
  BY DEF RewriteState, Exit, Enter
<1> HIDE DEF Idle
<1> QED
  BY <1>2, <1>3, <1>4, <1>5, StateKeeps

----------------------------------------------------------------------------

\* The store begins with two releases that have the content of their digest and
\* can be launched, and no command is running.
LEMMA InitHolds == Init => Inv
<1> SUFFICES ASSUME Init PROVE Inv
  OBVIOUS
<1>1. PICK out, previous : out = AssembleFrozen(Checkout) /\ previous = AssembleFrozen(Earlier)
  OBVIOUS
<1>2. Stands(out) /\ Stands(previous)
  BY <1>1, LaunchableAssumption DEF Stands
<1>3. /\ releases = Write(Write(NoFiles, treeDigest(previous), previous), treeDigest(out), out)
      /\ current = [active |-> treeDigest(out), previous |-> treeDigest(previous)]
      /\ shell = [s \in Shells |-> Idle]
  BY <1>1 DEF Init
<1>4. Good(treeDigest(out), releases)
  BY <1>2, <1>3 DEF Good, Write
<1>5. Good(treeDigest(previous), releases)
  <2>1. CASE treeDigest(previous) = treeDigest(out)
    BY <1>4, <2>1
  <2>2. CASE treeDigest(previous) # treeDigest(out)
    <3>1. treeDigest(previous) \in DOMAIN releases /\ releases[treeDigest(previous)] = previous
      BY <1>3, <2>2 DEF Write
    <3> QED
      BY <1>2, <3>1 DEF Good
  <2> QED
    BY <2>1, <2>2
<1>6. State(current, releases)
  BY <1>3, <1>4, <1>5 DEF State
<1>7. \A s \in Shells : ShellOK(shell[s], source, bootstrap, releases)
  BY <1>3, IdleIsOK
<1>8. DOMAIN shell = Shells /\ OneOwner
  BY <1>3 DEF OneOwner, Idle, Owner
<1> QED
  BY <1>6, <1>7, <1>8 DEF Inv

\* Every step of every command keeps the invariant.
LEMMA NextKeeps == Inv /\ [Next]_vars => Inv'
<1> SUFFICES ASSUME Inv, [Next]_vars PROVE Inv'
  OBVIOUS
<1>1. CASE UNCHANGED vars
  BY <1>1 DEF vars, files, Inv, OneOwner
<1>2. CASE Edit
  BY <1>2, EditKeeps
<1>3. ASSUME NEW s \in Shells, WriteStateFails(s) \/ Crash(s) PROVE Inv'
  BY <1>3, ExitKeeps DEF WriteStateFails, Crash, files
<1>4. ASSUME NEW s \in Shells, ActivateRelease(s) \/ RollbackRelease(s) PROVE Inv'
  BY <1>4, VerifyReleaseKeeps, LoadReleaseStateKeeps, writeReleaseStateKeeps, StartRollbackKeeps, RewriteStateKeeps
  DEF ActivateRelease, RollbackRelease
<1> QED
  BY <1>1, <1>2, <1>3, <1>4, RefreshKeeps, AssembleKeeps, InstallReleaseKeeps DEF Next

\* The invariant holds in every reachable state.
LEMMA InvHolds == Spec => []Inv
BY InitHolds, NextKeeps, PTL DEF Spec

\* The active and the previous release are in the store, have the content that
\* their digest stands for and can be launched with nothing but that content,
\* whatever other commands do to the assembly directory, the checkout and the store
\* before and after current.json is written (ActivateRelease, RollbackRelease);
\* except for a release with the host manifest of a linked build, in a store from
\* which its paths lead to the checkout.
THEOREM ActiveReleaseIsIntact == Spec => []ActiveIsIntact
<1>1. Inv => ActiveIsIntact
  BY DEF Inv, State, Good, Stands, InUse, ActiveIsIntact
<1> QED
  BY <1>1, InvHolds, PTL

\* A refresh that gives up (RefreshHostDigests, applyDigestUpdates) leaves every
\* manifest that it touched with the bytes it had, unless somebody else wrote
\* the checkout meanwhile or putting a file back failed too.
THEOREM RefreshRestoresOnFailure == Spec => []FailedRefreshRestores
<1>1. Inv => FailedRefreshRestores
  BY DEF Inv, ShellOK, Restorable, FailedRefreshRestores, At
<1> QED
  BY <1>1, InvHolds, PTL

\* The host executable of a package embeds the files it is packaged with, for
\* any number of package commands that compile in the same host module.
THEOREM PackageEmbedsOwnFiles == Spec => []PackageEmbedsItself
<1>1. Inv => PackageEmbedsItself
  BY DEF Inv, ShellOK, Packaging, PackageEmbedsItself
<1> QED
  BY <1>1, InvHolds, PTL

=============================================================================
