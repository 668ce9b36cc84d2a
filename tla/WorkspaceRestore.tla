--------------------------- MODULE WorkspaceRestore ---------------------------
(***************************************************************************)
(* The capture of a workspace into a checkpoint archive and its restore,   *)
(* entry by entry.  NativeHost takes the restore as one step that succeeds,*)
(* fails, or leaves the workspace mixed; here is the algorithm behind it.  *)
(* A path is a sequence of names; a workspace maps the paths it has to     *)
(* what is there: a directory, a symbolic link, or a file's content.  The  *)
(* checkpoint's metadata is intact; the archive file may not be.  File     *)
(* modes and size limits other than the number of files are left out.      *)
(***************************************************************************)
EXTENDS Naturals, Sequences, FiniteSets, SequencesExt, Functions

CONSTANTS
  Paths,      \* the paths a workspace may have; it holds their parents too
  Contents,   \* what a file may hold
  Dir, Link,
  Always,     \* ALWAYS_EXCLUDED_NAMES
  Volatile,   \* VOLATILE_DIRECTORY_NAMES
  MaxFiles    \* DEFAULT_MAX_FILES

ASSUME KindAssumption == Dir # Link /\ {Dir, Link} \cap Contents = {}
ASSUME PathAssumption ==
  \A p \in Paths : /\ p \in Seq(Range(p)) /\ p # <<>>
                   /\ Len(p) > 1 => Front(p) \in Paths
ASSUME LimitAssumption == MaxFiles \in Nat

VARIABLES
  workspace,  \* the files under workspace_root
  archive,    \* workspace.tar.gz: what it holds, as a workspace
  intact,     \* does its SHA-256 still match the metadata?
  phase,      \* how far the capture and its rollback have come
  found,      \* the workspace that restore found: its scan of the entries
  todo,       \* entries the current loop has yet to visit
  captured,   \* ghost: the workspace at capture
  edited      \* ghost: somebody else changed an entry during the restore

vars == <<workspace, archive, intact, phase, found, todo, captured, edited>>

Phases == {"idle", "captured", "unlink", "rmdir", "mkdir", "copy",
           "restored", "refused", "raised", "stopped"}
Ended  == {"restored", "refused", "raised", "stopped"}

-----------------------------------------------------------------------------
Parents(p)    == {SubSeq(p, 1, i) : i \in 1 .. Len(p) - 1}
Within(p, q)  == q \in Parents(p)          \* p lies below q
Named(p, names) == Range(p) \cap names # {}

Kinds == Contents \cup {Dir, Link}
Workspaces ==
  {w \in UNION {[have -> Kinds] : have \in SUBSET Paths} :
     \A p \in DOMAIN w : \A q \in Parents(p) : q \in DOMAIN w /\ w[q] = Dir}

Without(w, gone) == Restrict(w, DOMAIN w \ gone)

\* p made to be of that kind, its parents made where they are missing.
With(w, p, kind) ==
  [q \in DOMAIN w \cup Parents(p) \cup {p} |->
     IF q = p THEN kind ELSE IF q \in DOMAIN w THEN w[q] ELSE Dir]

\* Capture leaves out native and Git state, and directories with a volatile
\* name; restore leaves out whatever has such a name.
UncapturedRoot(w, p) ==
  Last(p) \in Always \/ (Last(p) \in Volatile /\ w[p] = Dir)

\* Slip: the walk goes on below a directory that it leaves out.
CapturedByOwnName(w) == {p \in DOMAIN w : ~UncapturedRoot(w, p)}

Captured(w) ==
  {p \in DOMAIN w : \A q \in Parents(p) \cup {p} : ~UncapturedRoot(w, q)}
Excluded(p) == Named(p, Always \cup Volatile)
Visible(w)  == {p \in DOMAIN w : ~Excluded(p)}

Files(w) == {p \in DOMAIN w : w[p] \in Contents}
Dirs(w)  == {p \in DOMAIN w : w[p] = Dir}
Below(w, p) == {q \in DOMAIN w : Within(q, p)}
HasExcludedBelow(w, p) == \E q \in Below(w, p) : Excluded(q)

Init ==
  /\ workspace \in Workspaces /\ archive = <<>> /\ intact = TRUE
  /\ phase = "idle" /\ found = <<>> /\ todo = {} /\ captured = <<>>
  /\ edited = FALSE

-----------------------------------------------------------------------------
\* _walk_workspace refuses links, and more files than the limit.
MayCapture(w) ==
  /\ \A p \in Captured(w) : w[p] # Link
  /\ Cardinality(Captured(w) \cap Files(w)) <= MaxFiles

\* create_workspace_snapshot.
Capture ==
  /\ phase = "idle" /\ MayCapture(workspace)
  /\ archive' = Restrict(workspace, Captured(workspace))
  /\ intact' = TRUE /\ captured' = workspace /\ phase' = "captured"
  /\ UNCHANGED <<workspace, found, todo, edited>>

\* The protected command, and whatever comes after it, change any file.
\* Bound: in one step, of any number of files.
Run ==
  /\ phase = "captured" /\ workspace = captured
  /\ workspace' \in Workspaces
  /\ UNCHANGED <<archive, intact, phase, found, todo, captured, edited>>

\* The archive is lost or altered on disk.
Damage ==
  /\ phase = "captured" /\ intact' = FALSE
  /\ UNCHANGED <<workspace, archive, phase, found, todo, captured, edited>>

\* _validated_member_path, and the limits that capture kept already.
ValidArchive == \A p \in DOMAIN archive : ~Excluded(p)

\* A directory that must make way for a file holds what is out of scope.
Blocked(w) ==
  \E p \in Files(archive) :
    p \in Dirs(w) /\ ~Excluded(p) /\ HasExcludedBelow(w, p)

\* Slip: that is found out only while copying.
RefusedWithoutLooking == ~intact \/ ~ValidArchive

\* Everything restore_workspace_snapshot checks before it changes a file.
Refused == ~intact \/ ~ValidArchive \/ Blocked(workspace)

\* Entries to unlink: links, and the files the archive does not have.
Unlinks(w) ==
  {p \in Visible(w) :
     w[p] = Link \/ (w[p] \in Contents /\ p \notin Files(archive))}

Rmdirs(w) == {p \in Visible(w) : w[p] = Dir /\ p \notin Dirs(archive)}

BeginRestore ==
  /\ phase = "captured"
  /\ found' = workspace
  /\ \/ Refused /\ phase' = "refused" /\ UNCHANGED todo
     \/ ~Refused /\ phase' = "unlink" /\ todo' = Unlinks(workspace)
  /\ UNCHANGED <<workspace, archive, intact, captured, edited>>

Deepest    == {p \in todo : \A q \in todo : Len(q) <= Len(p)}
Shallowest == {p \in todo : \A q \in todo : Len(p) <= Len(q)}

Visits(here, p, w) ==
  /\ phase = here
  /\ workspace' = w /\ todo' = todo \ {p}
  /\ UNCHANGED <<archive, intact, phase, found, captured, edited>>

Unlinkable == DOMAIN workspace \ Dirs(workspace)

Raises(here) ==
  /\ phase = here /\ phase' = "raised"
  /\ UNCHANGED <<workspace, archive, intact, found, todo, captured, edited>>

\* A link has been put where a directory above p was.  What the loops then do
\* to p they do where the link leads, out of the workspace, if they can at all.
Through(p) ==
  \E q \in Parents(p) : q \in DOMAIN workspace /\ workspace[q] = Link

Elsewhere(here, p) == Visits(here, p, workspace)

\* target.unlink(), deepest entries first.
Unlink ==
  \E p \in Deepest :
    \/ p \in Unlinkable /\ Visits("unlink", p, Without(workspace, {p}))
    \/ p \notin Unlinkable /\ Raises("unlink")
    \/ Through(p) /\ Elsewhere("unlink", p)

\* Slip: the directory is removed with everything below it.
RmdirTree ==
  \E p \in Deepest :
    Visits("rmdir", p, Without(workspace, {p} \cup Below(workspace, p)))

\* target.rmdir(): a directory stays when something excluded lies below it, or
\* below what a link in its place leads to.
Rmdir ==
  \E p \in Deepest :
    \/ /\ p \in Dirs(workspace) /\ Below(workspace, p) = {}
       /\ Visits("rmdir", p, Without(workspace, {p}))
    \/ p \in Dirs(workspace) /\ HasExcludedBelow(workspace, p)
         /\ Visits("rmdir", p, workspace)
    \/ p \notin Dirs(workspace) /\ Raises("rmdir")
    \/ Through(p) /\ Elsewhere("rmdir", p)
    \/ /\ p \in DOMAIN workspace /\ workspace[p] = Link
       /\ Elsewhere("rmdir", p)
    \/ Below(workspace, p) # {} /\ ~HasExcludedBelow(workspace, p)
         /\ Raises("rmdir")

HasParents(p) == \A q \in Parents(p) \cap DOMAIN workspace : workspace[q] = Dir

\* The archive's directories, shallowest first, in place of anything else.
Mkdir ==
  \E p \in Shallowest :
    \/ HasParents(p)
         /\ Visits("mkdir", p, With(workspace, p, Dir))
    \/ ~HasParents(p) /\ Raises("mkdir")
    \/ Through(p) /\ Elsewhere("mkdir", p)

\* The archive's files, each replaced atomically.
Copy ==
  \E p \in todo :
    \/ HasParents(p) /\ Below(workspace, p) = {}
         /\ Visits("copy", p, With(workspace, p, archive[p]))
    \/ ~HasParents(p) /\ Raises("copy")
    \/ Through(p) /\ Elsewhere("copy", p)
    \/ Below(workspace, p) # {} /\ Raises("copy")

\* Slip: only the files are restored.
NextLoopOfFiles ==
  /\ todo = {}
  /\ \/ phase = "unlink" /\ phase' = "rmdir" /\ todo' = Rmdirs(found)
     \/ phase = "rmdir" /\ phase' = "copy" /\ todo' = Files(archive)
     \/ phase = "copy" /\ phase' = "restored" /\ UNCHANGED todo
  /\ UNCHANGED <<workspace, archive, intact, found, captured, edited>>

NextLoop ==
  /\ todo = {}
  /\ \/ phase = "unlink" /\ phase' = "rmdir" /\ todo' = Rmdirs(found)
     \/ phase = "rmdir" /\ phase' = "mkdir" /\ todo' = Dirs(archive)
     \/ phase = "mkdir" /\ phase' = "copy" /\ todo' = Files(archive)
     \/ phase = "copy" /\ phase' = "restored" /\ UNCHANGED todo
  /\ UNCHANGED <<workspace, archive, intact, found, captured, edited>>

\* The file system raises, or the host dies, at any entry.
Stop ==
  /\ phase \in {"unlink", "rmdir", "mkdir", "copy"}
  /\ phase' = "stopped"
  /\ UNCHANGED <<workspace, archive, intact, found, todo, captured, edited>>

\* The user's editor or another program touches one visible entry meanwhile,
\* or puts a link in its place; the restore goes on with the entries it
\* scanned.  Bounds: once; a link leads out of the workspace.
Edit ==
  /\ phase \in {"unlink", "rmdir", "mkdir", "copy"} /\ ~edited
  /\ edited' = TRUE
  /\ \E p \in Paths :
       /\ ~Excluded(p) /\ Below(workspace, p) = {}
       /\ \A q \in Parents(p) : q \in Dirs(workspace)
       /\ \/ p \in DOMAIN workspace /\ workspace' = Without(workspace, {p})
          \/ \E kind \in Kinds :
               workspace' = With(workspace, p, kind)
  /\ UNCHANGED <<archive, intact, phase, found, todo, captured>>

\* The checkpoint is settled; the next one starts from the workspace as it is.
NextCheckpoint ==
  /\ phase \in Ended \cup {"captured"}
  /\ phase' = "idle" /\ archive' = <<>> /\ intact' = TRUE
  /\ found' = <<>> /\ todo' = {} /\ captured' = <<>> /\ edited' = FALSE
  /\ UNCHANGED workspace

Change ==
  /\ phase = "idle" /\ workspace' \in Workspaces
  /\ UNCHANGED <<archive, intact, phase, found, todo, captured, edited>>

Next ==
  \/ Capture \/ Run \/ Damage \/ BeginRestore
  \/ Unlink \/ Rmdir \/ Mkdir \/ Copy \/ NextLoop \/ Stop \/ Edit
  \/ NextCheckpoint \/ Change

Spec == Init /\ [][Next]_vars

-----------------------------------------------------------------------------
TypeOK ==
  /\ workspace \in Workspaces
  /\ {archive, found, captured} \subseteq Workspaces \cup {<<>>}
  /\ {intact, edited} \subseteq BOOLEAN
  /\ phase \in Phases /\ todo \subseteq Paths

\* A restore that ends well, with nobody else at work, gives back what was
\* captured: every visible entry of the workspace at capture is there again
\* with its content, and besides it only directories that hold something
\* excluded (restore_workspace_snapshot after _walk_workspace).
RestoredMatches ==
  phase = "restored" /\ ~edited =>
    /\ \A p \in Visible(captured) :
         p \in DOMAIN workspace /\ workspace[p] = captured[p]
    /\ \A p \in Visible(workspace) \ DOMAIN captured :
         workspace[p] = Dir /\ HasExcludedBelow(workspace, p)

\* From the first entry to the last, wherever it stops, a restore leaves the
\* excluded state alone (preserved_excluded_paths), also when somebody edits an
\* entry meanwhile; a link into the excluded state is not among these edits.
ExcludedIsUntouched ==
  phase \notin {"idle", "captured"} =>
    \A p \in DOMAIN found \cup DOMAIN workspace :
      Excluded(p) => /\ p \in DOMAIN found \cap DOMAIN workspace
                     /\ workspace[p] = found[p]

\* restore_workspace_snapshot: "Fail BEFORE mutation when replacing a current
\* directory with a snapshot file would destroy excluded rollback-out-of-scope
\* state": what the algorithm refuses, it refuses before the first change,
\* unless the workspace is changed under it.
RefusalsComeFirst == phase = "raised" => edited

\* docs/USER_GUIDE.md: "ROLL BACK WORKSPACE restores the captured
\* workspace-file snapshot": an intact archive is one restore accepts.
CapturedIsRestorable ==
  phase = "refused" => ~intact \/ Blocked(found)

=============================================================================
