----------------------------- MODULE Workspace ------------------------------
(***************************************************************************)
(* A directory tree and its manifests: capture_workspace, diff_manifests,  *)
(* restore_workspace and apply_delta.  A tree maps every path to what is   *)
(* there; a manifest is a tree without its directories ("Directories are   *)
(* implicit"), in which an absent path is one without an entry.            *)
(*                                                                         *)
(* Paths are the ones capture looks at: .git and .replayscope are left     *)
(* out, and so are links to directories.  Contents stand for digests.      *)
(***************************************************************************)
EXTENDS Naturals

CONSTANTS Paths,      \* below the root of the workspace
          Ancestors,  \* Ancestors[p]: the directories p is in, without the root
          Entries,    \* what a manifest may hold: [kind, content, mode]
          Escaping    \* contents of links that are absolute or lead out of the root

ASSUME PathsAssumption ==
  /\ Ancestors \in [Paths -> SUBSET Paths]
  /\ \A p \in Paths : p \notin Ancestors[p]
  /\ \A p \in Paths : \A q \in Ancestors[p] : Ancestors[q] \subseteq Ancestors[p]
ASSUME EntriesAssumption ==
  \A e \in Entries :
    e = [kind |-> e.kind, content |-> e.content, mode |-> e.mode]
      /\ e.kind \in {"file", "symlink"}

Absent == [kind |-> "absent"]
Directory == [kind |-> "directory"]
IsEntry(node) == node.kind \in {"file", "symlink"}

\* What is there lies in directories.
Trees ==
  {t \in [Paths -> Entries \cup {Absent, Directory}] :
     \A p \in Paths : t[p] # Absent => \A q \in Ancestors[p] : t[q] = Directory}
EmptyTree == [p \in Paths |-> Absent]

Capture(tree) == [p \in Paths |-> IF IsEntry(tree[p]) THEN tree[p] ELSE Absent]

\* Mutant of Modified: the mode is not compared.
ModifiedContent(old, new) == old.kind # new.kind \/ old.content # new.content

Modified(old, new) ==
  old.kind # new.kind \/ old.content # new.content \/ old.mode # new.mode

\* written: the entries of added and modified, which are applied alike.
Diff(before, after) ==
  [written |-> [p \in Paths |->
                  IF after[p] # Absent /\ Modified(before[p], after[p])
                  THEN after[p] ELSE Absent],
   deleted |-> {p \in Paths : before[p] # Absent /\ after[p] = Absent}]

\* _safe_destination and the test of a link's target: what is refused.
Unsafe(entry) == entry.kind = "symlink" /\ entry.content \in Escaping

\* Mutant of Written: the directories are not made.
WrittenBare(entries, tree) ==
  [p \in Paths |-> IF entries[p] # Absent THEN entries[p] ELSE tree[p]]

\* Entries are written, with the directories they are in.
Written(entries, tree) ==
  [p \in Paths |->
     IF entries[p] # Absent THEN entries[p]
     ELSE IF \E r \in Paths : entries[r] # Absent /\ p \in Ancestors[r] THEN Directory
     ELSE tree[p]]

\* restore_workspace raises unless the target is empty and no link leads out.
CanRestore(manifest, tree) ==
  tree = EmptyTree /\ \A p \in Paths : ~Unsafe(manifest[p])
Restore(manifest, tree) == Written(manifest, tree)

\* First the files and links that are deleted; directories stay.
Unlinked(delta, tree) ==
  [p \in Paths |-> IF p \in delta.deleted /\ IsEntry(tree[p]) THEN Absent ELSE tree[p]]

\* Mutant of CanApply: a directory is removed to make place.
CanApplyInPlace(delta, tree) ==
  LET left == Unlinked(delta, tree) IN
  \A p \in Paths : delta.written[p] # Absent =>
    /\ \A q \in Ancestors[p] : ~IsEntry(left[q])
    /\ ~Unsafe(delta.written[p])

\* apply_delta raises when mkdir meets a file, unlink a directory, or a link leads out.
CanApply(delta, tree) ==
  LET left == Unlinked(delta, tree) IN
  /\ \A p \in delta.deleted : \A q \in Ancestors[p] : ~Unsafe(tree[q])
  /\ \A p \in Paths : delta.written[p] # Absent =>
       /\ left[p] # Directory
       /\ \A q \in Ancestors[p] : ~IsEntry(left[q])
       /\ ~Unsafe(delta.written[p])

\* Mutant of Apply: what was deleted stays.
ApplyWritten(delta, tree) == Written(delta.written, tree)

Apply(delta, tree) == Written(delta.written, Unlinked(delta, tree))
----------------------------------------------------------------------------
\* What the programs that work in a workspace do to it.

NoChange == [path |-> "nowhere"]

\* A file or link is put in place, with the directories it is in.
Put(p, entry) == [path |-> p, node |-> entry]
\* rm -r
Remove(p) == [path |-> p, node |-> Absent]

CanChange(change, tree) ==
  change # NoChange =>
    IF change.node = Absent THEN tree[change.path] # Absent
    ELSE /\ tree[change.path] # Directory
         /\ \A q \in Ancestors[change.path] : ~IsEntry(tree[q])

Change(change, tree) ==
  IF change = NoChange THEN tree
  ELSE [p \in Paths |->
          IF p = change.path THEN change.node
          ELSE IF change.node = Absent
               THEN IF change.path \in Ancestors[p] THEN Absent ELSE tree[p]
               ELSE IF p \in Ancestors[change.path] THEN Directory ELSE tree[p]]
============================================================================
