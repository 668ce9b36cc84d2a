----------------------- MODULE WorkspaceRestore_proofs -----------------------
(***************************************************************************)
(* Theorems about WorkspaceRestore: its types, that excluded state is left *)
(* alone, that nothing is refused half way, and that a restore gives back  *)
(* what was captured, for every set of paths, names and contents.          *)
(***************************************************************************)
EXTENDS WorkspaceRestore, TLAPS

-----------------------------------------------------------------------------
\* Paths.

LEMMA ParentsOf ==
  ASSUME NEW p \in Paths, NEW q \in Parents(p)
  PROVE  /\ Range(q) \subseteq Range(p)
         /\ Last(q) \in Range(p)
         /\ Len(p) \in Nat /\ Len(q) \in Nat /\ Len(q) < Len(p)
         /\ Parents(q) \subseteq Parents(p)
<1>1. p \in Seq(Range(p)) /\ Len(p) \in Nat
  BY PathAssumption
<1>2. PICK i \in 1 .. Len(p) - 1 : q = SubSeq(p, 1, i)
  BY DEF Parents
<1>3. /\ q \in Seq(Range(p)) /\ Len(q) = i
      /\ \A j \in 1 .. i : q[j] = p[j]
  BY <1>1, <1>2
<1>4. DOMAIN q = 1 .. i /\ DOMAIN p = 1 .. Len(p)
  BY <1>1, <1>3
<1>5. Range(q) \subseteq Range(p) /\ Last(q) \in Range(p)
  BY <1>1, <1>2, <1>3, <1>4 DEF Range, Last
<1>6. ASSUME NEW r \in Parents(q) PROVE r \in Parents(p)
  <2>1. PICK j \in 1 .. i - 1 : r = SubSeq(q, 1, j)
    BY <1>3, <1>6 DEF Parents
  <2>2. SubSeq(q, 1, j) = SubSeq(p, 1, j)
    BY <1>1, <1>2, <1>3, <2>1
  <2> QED BY <1>1, <1>2, <2>1, <2>2 DEF Parents
<1> QED BY <1>1, <1>2, <1>3, <1>5, <1>6

\* A path lies within whatever its parent lies within; a name that excludes a
\* path excludes what lies below it.
LEMMA VisibleParents ==
  ASSUME NEW p \in Paths, NEW q \in Parents(p), ~Excluded(p)
  PROVE  ~Excluded(q)
BY ParentsOf DEF Excluded, Named

LEMMA WithinIsTransitive ==
  ASSUME NEW r \in Paths, NEW q \in Parents(r), NEW p \in Parents(q)
  PROVE  p \in Parents(r)
BY ParentsOf

LEMMA VisibleIsCaptured ==
  ASSUME NEW w \in Workspaces, NEW p \in Visible(w)
  PROVE  p \in Captured(w)
<1>1. p \in Paths /\ p \in DOMAIN w /\ ~Excluded(p)
  BY DEF Workspaces, Visible
<1>2. Last(p) \in Range(p)
  <2>1. p \in Seq(Range(p)) /\ Len(p) \in Nat /\ Len(p) # 0 /\ DOMAIN p = 1 .. Len(p)
    BY <1>1, PathAssumption
  <2> QED BY <2>1 DEF Last, Range
<1> QED
  BY <1>1, <1>2, ParentsOf DEF Captured, UncapturedRoot, Excluded, Named

-----------------------------------------------------------------------------
\* Workspaces.

LEMMA WorkspaceShape ==
  ASSUME NEW w \in Workspaces
  PROVE  /\ DOMAIN w \subseteq Paths /\ w \in [DOMAIN w -> Kinds]
         /\ \A p \in DOMAIN w : \A q \in Parents(p) : q \in DOMAIN w /\ w[q] = Dir
BY DEF Workspaces

LEMMA IsWorkspace ==
  ASSUME NEW have \in SUBSET Paths, NEW w \in [have -> Kinds],
         \A p \in have : \A q \in Parents(p) : q \in have /\ w[q] = Dir
  PROVE  w \in Workspaces
BY DEF Workspaces

LEMMA WithoutIsWorkspace ==
  ASSUME NEW w \in Workspaces, NEW p, Below(w, p) = {}
  PROVE  /\ Without(w, {p}) \in Workspaces
         /\ DOMAIN Without(w, {p}) = DOMAIN w \ {p}
         /\ \A q \in DOMAIN w \ {p} : Without(w, {p})[q] = w[q]
<1> DEFINE have == DOMAIN w \ {p}
           v == [x \in have |-> w[x]]
<1>1. Without(w, {p}) = v
  BY DEF Without, Restrict
<1>2. have \in SUBSET Paths /\ v \in [have -> Kinds]
  BY WorkspaceShape
<1>3. \A r \in have : \A q \in Parents(r) : q \in have /\ v[q] = Dir
  BY WorkspaceShape DEF Below, Within
<1>4. v \in Workspaces
  <2> HIDE DEF v, have
  <2> QED BY <1>2, <1>3, IsWorkspace
<1> QED BY <1>1, <1>4

LEMMA WithIsWorkspace ==
  ASSUME NEW w \in Workspaces, NEW p \in Paths, NEW kind \in Kinds,
         Parents(p) \subseteq Paths,
         \A q \in Parents(p) \cap DOMAIN w : w[q] = Dir,
         kind = Dir \/ Below(w, p) = {}
  PROVE  /\ With(w, p, kind) \in Workspaces
         /\ DOMAIN With(w, p, kind) = DOMAIN w \cup Parents(p) \cup {p}
         /\ With(w, p, kind)[p] = kind
         /\ \A q \in DOMAIN w : q # p => With(w, p, kind)[q] = w[q]
         /\ \A q \in Parents(p) : With(w, p, kind)[q] = Dir
<1> DEFINE have == DOMAIN w \cup Parents(p) \cup {p}
           v == [q \in have |-> IF q = p THEN kind ELSE
                                IF q \in DOMAIN w THEN w[q] ELSE Dir]
<1>1. With(w, p, kind) = v
  BY DEF With
<1>2. Dir \in Kinds /\ p \notin Parents(p)
  BY ParentsOf DEF Kinds
<1>3. have \in SUBSET Paths /\ v \in [have -> Kinds]
  BY <1>2, WorkspaceShape
<1>4. \A q \in Parents(p) : v[q] = Dir
  BY <1>2
<1>5. ASSUME NEW r \in have, NEW q \in Parents(r)
      PROVE  q \in have /\ v[q] = Dir
  <2>1. CASE r \in DOMAIN w
    BY <2>1, <1>5, WorkspaceShape DEF Below, Within
  <2>2. CASE r \in Parents(p) \cup {p}
    BY <2>2, <1>4, <1>5, WithinIsTransitive
  <2> QED BY <2>1, <2>2
<1>6. v \in Workspaces
  <2> HIDE DEF v, have
  <2> QED BY <1>3, <1>5, IsWorkspace
<1> QED BY <1>1, <1>2, <1>4, <1>6

\* What is captured is a workspace, without the links capture refuses.
LEMMA CapturedIsWorkspace ==
  ASSUME NEW w \in Workspaces, MayCapture(w)
  PROVE  /\ Restrict(w, Captured(w)) \in Workspaces
         /\ DOMAIN Restrict(w, Captured(w)) = Captured(w)
         /\ \A p \in Captured(w) : /\ Restrict(w, Captured(w))[p] = w[p]
                                   /\ w[p] # Link
<1> DEFINE v == [p \in Captured(w) |-> w[p]]
<1>1. Restrict(w, Captured(w)) = v
  BY DEF Restrict
<1>2. Captured(w) \subseteq DOMAIN w
  BY DEF Captured
<1>3. Captured(w) \in SUBSET Paths /\ v \in [Captured(w) -> Kinds]
  BY <1>2, WorkspaceShape
<1>4. ASSUME NEW p \in Captured(w), NEW q \in Parents(p)
      PROVE  q \in Captured(w) /\ v[q] = Dir
  <2>1. q \in DOMAIN w /\ w[q] = Dir /\ p \in Paths
    BY <1>2, <1>3, WorkspaceShape
  <2>2. Parents(q) \subseteq Parents(p)
    BY <2>1, ParentsOf
  <2>3. q \in Captured(w)
    BY <2>1, <2>2 DEF Captured
  <2> QED BY <2>1, <2>3
<1>5. v \in Workspaces
  <2> HIDE DEF v
  <2> QED BY <1>3, <1>4, IsWorkspace
<1> QED BY <1>1, <1>5 DEF MayCapture

-----------------------------------------------------------------------------
Loops == {"unlink", "rmdir", "mkdir", "copy"}

\* The archive is what was captured.
ArchiveInv ==
  phase # "idle" =>
    /\ captured \in Workspaces /\ archive \in Workspaces
    /\ archive = Restrict(captured, Captured(captured))
    /\ DOMAIN archive = Captured(captured)
    /\ \A p \in DOMAIN archive : archive[p] = captured[p] /\ archive[p] # Link

\* A restore that has begun was not refused.
AcceptedInv ==
  phase \in Loops \cup {"restored", "raised", "stopped"} =>
    /\ found \in Workspaces
    /\ \A p \in DOMAIN archive : ~Excluded(p)
    /\ ~Blocked(found)

\* Each loop visits its own entries, none of them excluded.
TodoInv ==
  /\ phase = "unlink" => todo \subseteq Unlinks(found)
  /\ phase = "rmdir"  => todo \subseteq Rmdirs(found)
  /\ phase = "mkdir"  => todo \subseteq Dirs(archive)
  /\ phase = "copy"   => todo \subseteq Files(archive)
  /\ phase \in Loops => \A p \in todo : p \in Paths /\ ~Excluded(p)

SafeInv == TypeOK /\ ArchiveInv /\ AcceptedInv /\ TodoInv /\ ExcludedIsUntouched

\* With nobody else at work: what each loop has achieved so far.
Unlinking ==
  /\ DOMAIN workspace = DOMAIN found \ (Unlinks(found) \ todo)
  /\ \A p \in DOMAIN workspace : workspace[p] = found[p]

Removing ==
  /\ DOMAIN workspace \subseteq DOMAIN found \ Unlinks(found)
  /\ DOMAIN found \ (Unlinks(found) \cup (Rmdirs(found) \ todo))
       \subseteq DOMAIN workspace
  /\ \A p \in DOMAIN workspace : workspace[p] = found[p]
  /\ \A p \in (Rmdirs(found) \ todo) \cap DOMAIN workspace :
       HasExcludedBelow(workspace, p)

\* Besides what the archive has there are only directories that hold something
\* excluded; a directory is the archive's or was there before.
Clean ==
  /\ \A p \in Visible(workspace) :
       \/ workspace[p] = Dir /\ p \in Dirs(archive)
       \/ workspace[p] = Dir /\ HasExcludedBelow(workspace, p)
       \/ workspace[p] \in Contents /\ p \in Files(archive)
  /\ \A p \in Visible(workspace) :
       workspace[p] = Dir => p \in Dirs(archive) \cup Dirs(found)

Making  == \A p \in Dirs(archive) \ todo : p \in Dirs(workspace)
Copying == /\ Dirs(archive) \subseteq Dirs(workspace)
           /\ \A p \in Files(archive) \ todo :
                p \in DOMAIN workspace /\ workspace[p] = archive[p]

AloneInv ==
  ~edited =>
    /\ phase # "raised"
    /\ phase = "unlink" => Unlinking
    /\ phase = "rmdir" => Removing
    /\ phase = "mkdir" => Clean /\ Making
    /\ phase = "copy" => Clean /\ Copying
    /\ phase = "restored" => Clean /\ Copying /\ todo = {}

RestoreInv == SafeInv /\ AloneInv

-----------------------------------------------------------------------------
\* Two workspaces with the same excluded state.
SameExcluded(w, v) ==
  \A q \in Paths : Excluded(q) =>
    /\ q \in DOMAIN v <=> q \in DOMAIN w
    /\ q \in DOMAIN w => v[q] = w[q]

LEMMA RemovalIsVisible ==
  ASSUME NEW w \in Workspaces, NEW p \in Paths, ~Excluded(p), Below(w, p) = {}
  PROVE  SameExcluded(w, Without(w, {p}))
BY WithoutIsWorkspace DEF SameExcluded

LEMMA ReplacementIsVisible ==
  ASSUME NEW w \in Workspaces, NEW p \in Paths, NEW kind \in Kinds,
         Parents(p) \subseteq Paths, ~Excluded(p),
         \A q \in Parents(p) \cap DOMAIN w : w[q] = Dir,
         kind = Dir \/ Below(w, p) = {}
  PROVE  SameExcluded(w, With(w, p, kind))
<1>1. \A q \in Parents(p) : ~Excluded(q)
  BY VisibleParents
<1>2. /\ DOMAIN With(w, p, kind) = DOMAIN w \cup Parents(p) \cup {p}
      /\ \A q \in DOMAIN w : q # p => With(w, p, kind)[q] = w[q]
  BY DEF With
<1> QED BY <1>1, <1>2 DEF SameExcluded

\* A visit that leaves the excluded state alone.
LEMMA VisitIsSafe ==
  ASSUME SafeInv, NEW here \in Loops, NEW p \in todo, NEW w \in Workspaces,
         Visits(here, p, w), SameExcluded(workspace, w)
  PROVE  SafeInv'
<1>1. /\ workspace' = w /\ todo' \subseteq todo /\ phase' = phase /\ phase = here
      /\ UNCHANGED <<archive, intact, found, captured, edited>>
  BY DEF Visits
<1>2. /\ found \in Workspaces /\ workspace \in Workspaces
  BY <1>1 DEF SafeInv, TypeOK, AcceptedInv
<1>3. DOMAIN found \subseteq Paths /\ DOMAIN w \subseteq Paths /\ DOMAIN workspace \subseteq Paths
  BY <1>2, WorkspaceShape
<1>4. TypeOK'
  BY <1>1 DEF SafeInv, TypeOK
<1>5. ArchiveInv'
  BY <1>1 DEF SafeInv, ArchiveInv
<1>6. AcceptedInv'
  BY <1>1 DEF SafeInv, AcceptedInv, Blocked, Files, Dirs, HasExcludedBelow, Below
<1>7. TodoInv'
  BY <1>1 DEF SafeInv, TodoInv, Files, Dirs, Unlinks, Rmdirs, Visible
<1>8. ExcludedIsUntouched'
  BY <1>1, <1>3 DEF SafeInv, ExcludedIsUntouched, SameExcluded, Loops
<1> QED BY <1>4, <1>5, <1>6, <1>7, <1>8 DEF SafeInv

\* The kinds a file of the archive may have, and where it may be put.
LEMMA ArchiveShape ==
  ASSUME SafeInv, phase # "idle"
  PROVE  /\ DOMAIN archive \subseteq Paths
         /\ \A p \in DOMAIN archive :
              /\ archive[p] \in Kinds \ {Link}
              /\ \A q \in Parents(p) : q \in Dirs(archive)
         /\ DOMAIN archive = Files(archive) \cup Dirs(archive)
         /\ Files(archive) \cap Dirs(archive) = {}
<1>1. archive \in Workspaces /\ \A p \in DOMAIN archive : archive[p] # Link
  BY DEF SafeInv, ArchiveInv
<1>2. Dir \notin Contents
  BY KindAssumption
<1> QED BY <1>1, <1>2, WorkspaceShape DEF Files, Dirs, Kinds

LEMMA RaiseIsSafe ==
  ASSUME SafeInv, NEW here \in Loops, Raises(here)
  PROVE  SafeInv'
BY DEF Raises, SafeInv, TypeOK, Phases, ArchiveInv, AcceptedInv, TodoInv,
       ExcludedIsUntouched, Loops, Blocked, Files, Dirs, HasExcludedBelow, Below

\* What is done through a link is not done to the workspace.
LEMMA ElsewhereIsSafe ==
  ASSUME SafeInv, NEW here \in Loops, NEW p \in todo, Elsewhere(here, p)
  PROVE  SafeInv'
<1>1. workspace \in Workspaces /\ SameExcluded(workspace, workspace)
  BY DEF SafeInv, TypeOK, SameExcluded
<1> QED BY <1>1, VisitIsSafe DEF Elsewhere

LEMMA UnlinkIsSafe == ASSUME SafeInv, Unlink PROVE SafeInv'
<1>1. PICK p \in todo :
        \/ p \in Unlinkable /\ Visits("unlink", p, Without(workspace, {p}))
        \/ Raises("unlink")
        \/ Elsewhere("unlink", p)
  BY DEF Unlink, Deepest
<1>2. workspace \in Workspaces
  BY DEF SafeInv, TypeOK
<1>3. CASE p \in Unlinkable /\ Visits("unlink", p, Without(workspace, {p}))
  <2>1. phase = "unlink"
    BY <1>3 DEF Visits
  <2>2. p \in Paths /\ ~Excluded(p)
    BY <2>1 DEF SafeInv, TodoInv, Loops
  <2>3. Below(workspace, p) = {}
    BY <1>2, <1>3, WorkspaceShape DEF Below, Within, Unlinkable, Dirs
  <2> QED BY <1>2, <1>3, <2>2, <2>3, VisitIsSafe, WithoutIsWorkspace, RemovalIsVisible
          DEF Loops
<1>4. CASE Raises("unlink")
  BY <1>4, RaiseIsSafe DEF Loops
<1>5. CASE Elsewhere("unlink", p)
  BY <1>5, ElsewhereIsSafe DEF Loops
<1> QED BY <1>1, <1>3, <1>4, <1>5

LEMMA RmdirIsSafe == ASSUME SafeInv, Rmdir PROVE SafeInv'
<1>1. PICK p \in todo :
        \/ /\ p \in Dirs(workspace) /\ Below(workspace, p) = {}
           /\ Visits("rmdir", p, Without(workspace, {p}))
        \/ Visits("rmdir", p, workspace)
        \/ Raises("rmdir")
  BY DEF Rmdir, Deepest, Elsewhere
<1>2. workspace \in Workspaces
  BY DEF SafeInv, TypeOK
<1>3. ASSUME phase = "rmdir" PROVE p \in Paths /\ ~Excluded(p)
  BY <1>3 DEF SafeInv, TodoInv, Loops
<1>4. CASE Below(workspace, p) = {} /\ Visits("rmdir", p, Without(workspace, {p}))
  BY <1>2, <1>3, <1>4, VisitIsSafe, WithoutIsWorkspace, RemovalIsVisible
  DEF Loops, Visits
<1>5. CASE Visits("rmdir", p, workspace)
  BY <1>2, <1>5, VisitIsSafe DEF Loops, SameExcluded
<1>6. CASE Raises("rmdir")
  BY <1>6, RaiseIsSafe DEF Loops
<1> QED BY <1>1, <1>4, <1>5, <1>6

LEMMA MkdirIsSafe == ASSUME SafeInv, Mkdir PROVE SafeInv'
<1>1. PICK p \in todo :
        \/ HasParents(p) /\ Visits("mkdir", p, With(workspace, p, Dir))
        \/ Raises("mkdir")
        \/ Elsewhere("mkdir", p)
  BY DEF Mkdir, Shallowest
<1>2. CASE HasParents(p) /\ Visits("mkdir", p, With(workspace, p, Dir))
  <2>1. workspace \in Workspaces /\ phase = "mkdir" /\ Dir \in Kinds
    BY <1>2 DEF SafeInv, TypeOK, Visits, Kinds
  <2>2. p \in Paths /\ ~Excluded(p) /\ Parents(p) \subseteq Paths
    BY <2>1, ArchiveShape DEF SafeInv, TodoInv, Loops, Dirs
  <2>3. \A q \in Parents(p) \cap DOMAIN workspace : workspace[q] = Dir
    BY <1>2 DEF HasParents
  <2> QED BY <1>2, <2>1, <2>2, <2>3, VisitIsSafe, WithIsWorkspace, ReplacementIsVisible
          DEF Loops
<1> QED BY <1>1, <1>2, RaiseIsSafe, ElsewhereIsSafe DEF Loops

LEMMA CopyIsSafe == ASSUME SafeInv, Copy PROVE SafeInv'
<1>1. PICK p \in todo :
        \/ HasParents(p) /\ Below(workspace, p) = {}
             /\ Visits("copy", p, With(workspace, p, archive[p]))
        \/ Raises("copy")
        \/ Elsewhere("copy", p)
  BY DEF Copy
<1>2. CASE HasParents(p) /\ Below(workspace, p) = {}
             /\ Visits("copy", p, With(workspace, p, archive[p]))
  <2>1. workspace \in Workspaces /\ phase = "copy"
    BY <1>2 DEF SafeInv, TypeOK, Visits
  <2>2. p \in Paths /\ ~Excluded(p) /\ Parents(p) \subseteq Paths /\ archive[p] \in Kinds
    BY <2>1, ArchiveShape DEF SafeInv, TodoInv, Loops, Files, Dirs
  <2>3. \A q \in Parents(p) \cap DOMAIN workspace : workspace[q] = Dir
    BY <1>2 DEF HasParents
  <2> QED BY <1>2, <2>1, <2>2, <2>3, VisitIsSafe, WithIsWorkspace, ReplacementIsVisible
          DEF Loops
<1> QED BY <1>1, <1>2, RaiseIsSafe, ElsewhereIsSafe DEF Loops

LEMMA NextLoopIsSafe == ASSUME SafeInv, NextLoop PROVE SafeInv'
<1>1. /\ phase \in Loops /\ phase' \in Loops \cup {"restored"}
      /\ UNCHANGED <<workspace, archive, intact, found, captured, edited>>
  BY DEF NextLoop, Loops
<1>2. found \in Workspaces /\ DOMAIN found \subseteq Paths
  BY <1>1, WorkspaceShape DEF SafeInv, AcceptedInv
<1>3. DOMAIN archive \subseteq Paths /\ \A p \in DOMAIN archive : ~Excluded(p)
  BY <1>1, ArchiveShape DEF SafeInv, AcceptedInv, Loops
<1>4. TodoInv' /\ todo' \subseteq Paths
  BY <1>2, <1>3
  DEF NextLoop, TodoInv, Loops, Rmdirs, Unlinks, Visible, Files, Dirs, SafeInv
<1>5. TypeOK' /\ ArchiveInv' /\ AcceptedInv' /\ ExcludedIsUntouched'
  BY <1>1, <1>4
  DEF SafeInv, TypeOK, Phases, Loops, ArchiveInv, AcceptedInv, ExcludedIsUntouched,
      Blocked, Files, Dirs, HasExcludedBelow, Below
<1> QED BY <1>4, <1>5 DEF SafeInv

LEMMA EditIsSafe == ASSUME SafeInv, Edit PROVE SafeInv'
<1>1. /\ phase \in Loops
      /\ edited' = TRUE /\ UNCHANGED <<archive, intact, phase, found, todo, captured>>
  BY DEF Edit, Loops
<1>2. PICK p \in Paths :
        /\ ~Excluded(p) /\ Below(workspace, p) = {}
        /\ \A q \in Parents(p) : q \in Dirs(workspace)
        /\ \/ workspace' = Without(workspace, {p})
           \/ \E kind \in Kinds : workspace' = With(workspace, p, kind)
  BY DEF Edit
<1>3. workspace \in Workspaces /\ found \in Workspaces
  BY <1>1 DEF SafeInv, TypeOK, AcceptedInv
<1>4. /\ Parents(p) \subseteq Paths
      /\ \A q \in Parents(p) \cap DOMAIN workspace : workspace[q] = Dir
  BY <1>2, <1>3, WorkspaceShape DEF Dirs
<1>5. workspace' \in Workspaces /\ SameExcluded(workspace, workspace')
  <2>1. CASE workspace' = Without(workspace, {p})
    BY <1>2, <1>3, <2>1, WithoutIsWorkspace, RemovalIsVisible
  <2>2. ASSUME NEW kind \in Kinds, workspace' = With(workspace, p, kind)
        PROVE  workspace' \in Workspaces /\ SameExcluded(workspace, workspace')
    <3>1. With(workspace, p, kind) \in Workspaces
      BY <1>2, <1>3, <1>4, WithIsWorkspace
    <3>2. SameExcluded(workspace, With(workspace, p, kind))
      BY <1>2, <1>3, <1>4, ReplacementIsVisible
    <3> QED BY <2>2, <3>1, <3>2
  <2> QED BY <1>2, <2>1, <2>2
<1>6. /\ DOMAIN found \subseteq Paths /\ DOMAIN workspace \subseteq Paths
      /\ DOMAIN workspace' \subseteq Paths
  BY <1>3, <1>5, WorkspaceShape
<1>7. ExcludedIsUntouched'
  BY <1>1, <1>5, <1>6 DEF SafeInv, ExcludedIsUntouched, SameExcluded, Loops
<1>8. TypeOK' /\ ArchiveInv' /\ AcceptedInv' /\ TodoInv'
  BY <1>1, <1>5
  DEF SafeInv, TypeOK, ArchiveInv, AcceptedInv, TodoInv, Blocked, Files, Dirs,
      HasExcludedBelow, Below, Unlinks, Rmdirs, Visible
<1> QED BY <1>7, <1>8 DEF SafeInv

LEMMA BeginRestoreIsSafe == ASSUME SafeInv, BeginRestore PROVE SafeInv'
<1>1. /\ found' = workspace /\ phase = "captured"
      /\ UNCHANGED <<workspace, archive, intact, captured, edited>>
      /\ workspace \in Workspaces
  BY DEF BeginRestore, SafeInv, TypeOK
<1>2. ExcludedIsUntouched' /\ ArchiveInv'
  BY <1>1 DEF ExcludedIsUntouched, SafeInv, ArchiveInv
<1>3. CASE Refused /\ phase' = "refused" /\ UNCHANGED todo
  BY <1>1, <1>2, <1>3
  DEF SafeInv, TypeOK, Phases, AcceptedInv, TodoInv, Loops
<1>4. CASE ~Refused /\ phase' = "unlink" /\ todo' = Unlinks(workspace)
  <2>1. ~Blocked(workspace) /\ \A p \in DOMAIN archive : ~Excluded(p)
    BY <1>4 DEF Refused, ValidArchive
  <2>2. AcceptedInv'
    BY <1>1, <2>1 DEF AcceptedInv, Blocked, Files, Dirs, HasExcludedBelow, Below
  <2>3. \A p \in Unlinks(workspace) : p \in Paths /\ ~Excluded(p)
    BY <1>1, WorkspaceShape DEF Unlinks, Visible
  <2>4. Unlinks(found)' = Unlinks(workspace)
    BY <1>1 DEF Unlinks, Visible, Files
  <2>5. TodoInv' /\ TypeOK'
    BY <1>1, <1>4, <2>3, <2>4 DEF TodoInv, Loops, SafeInv, TypeOK, Phases
  <2> QED BY <1>2, <2>2, <2>5 DEF SafeInv
<1> QED BY <1>3, <1>4 DEF BeginRestore

LEMMA CaptureIsSafe == ASSUME SafeInv, Capture PROVE SafeInv'
<1>1. workspace \in Workspaces /\ MayCapture(workspace)
  BY DEF SafeInv, TypeOK, Capture
<1>2. ArchiveInv'
  BY <1>1, CapturedIsWorkspace DEF Capture, ArchiveInv
<1>3. archive' \in Workspaces /\ captured' \in Workspaces
  BY <1>1, CapturedIsWorkspace DEF Capture
<1> QED BY <1>1, <1>2, <1>3
        DEF Capture, SafeInv, TypeOK, Phases, AcceptedInv, TodoInv, Loops,
            ExcludedIsUntouched

LEMMA OtherStepsAreSafe ==
  ASSUME SafeInv, Run \/ Damage \/ Stop \/ NextCheckpoint \/ Change \/ UNCHANGED vars
  PROVE  SafeInv'
<1>1. CASE Run \/ Damage
  BY <1>1 DEF Run, Damage, SafeInv, TypeOK, ArchiveInv, AcceptedInv, TodoInv, Loops,
              ExcludedIsUntouched
<1>2. CASE Stop
  BY <1>2 DEF Stop, SafeInv, TypeOK, Phases, ArchiveInv, AcceptedInv, TodoInv, Loops,
              ExcludedIsUntouched, Blocked, Files, Dirs, HasExcludedBelow, Below
<1>3. CASE NextCheckpoint \/ Change
  BY <1>3 DEF NextCheckpoint, Change, SafeInv, TypeOK, Phases, ArchiveInv, AcceptedInv,
              TodoInv, Loops, ExcludedIsUntouched
<1>4. CASE UNCHANGED vars
  BY <1>4 DEF vars, SafeInv, TypeOK, ArchiveInv, AcceptedInv, TodoInv, Loops,
              ExcludedIsUntouched, Blocked, Files, Dirs, HasExcludedBelow, Below,
              Unlinks, Rmdirs, Visible
<1> QED BY <1>1, <1>2, <1>3, <1>4

LEMMA InitIsSafe == Init => SafeInv
BY DEF Init, SafeInv, TypeOK, Phases, ArchiveInv, AcceptedInv, TodoInv, Loops,
       ExcludedIsUntouched

LEMMA NextIsSafe == ASSUME SafeInv, [Next]_vars PROVE SafeInv'
BY UnlinkIsSafe, RmdirIsSafe, MkdirIsSafe, CopyIsSafe, NextLoopIsSafe, EditIsSafe,
   BeginRestoreIsSafe, CaptureIsSafe, OtherStepsAreSafe
DEF Next

-----------------------------------------------------------------------------
\* With nobody else at work.

LEMMA FoundShape ==
  ASSUME SafeInv, phase \in Loops
  PROVE  /\ found \in Workspaces /\ workspace \in Workspaces
         /\ DOMAIN found \subseteq Paths /\ DOMAIN workspace \subseteq Paths
         /\ \A p \in DOMAIN found : found[p] \in Contents \cup {Dir, Link}
         /\ Dir # Link /\ Dir \notin Contents /\ Link \notin Contents
<1>1. found \in Workspaces /\ workspace \in Workspaces
  BY DEF SafeInv, TypeOK, AcceptedInv
<1> QED BY <1>1, WorkspaceShape, KindAssumption DEF Kinds

\* Nothing is done through a link to what is in the workspace.
LEMMA NothingThrough ==
  ASSUME SafeInv, NEW p \in DOMAIN workspace
  PROVE  ~Through(p)
<1>1. workspace \in Workspaces
  BY DEF SafeInv, TypeOK
<1> QED BY <1>1, WorkspaceShape, KindAssumption DEF Through

\* What was to be unlinked is still there, so nothing raises.
LEMMA UnlinkAlone == ASSUME SafeInv, AloneInv, ~edited, Unlink PROVE AloneInv'
<1>1. PICK p \in todo :
        \/ Visits("unlink", p, Without(workspace, {p}))
        \/ p \notin Unlinkable /\ Raises("unlink")
        \/ Through(p) /\ Elsewhere("unlink", p)
  BY DEF Unlink, Deepest
<1>2. phase = "unlink" /\ Unlinking /\ p \in Unlinks(found)
  BY <1>1 DEF Visits, Raises, Elsewhere, AloneInv, SafeInv, TodoInv
<1>3. p \in DOMAIN workspace /\ workspace[p] # Dir /\ p \in Unlinkable
  BY <1>2, FoundShape DEF Unlinking, Unlinks, Visible, Loops, Unlinkable, Dirs
<1>4. /\ workspace' = Without(workspace, {p}) /\ todo' = todo \ {p}
      /\ phase' = "unlink" /\ UNCHANGED <<found, archive>>
  BY <1>1, <1>2, <1>3, NothingThrough DEF Visits
<1>5. workspace \in Workspaces /\ Below(workspace, p) = {}
  BY <1>2, <1>3, FoundShape, WorkspaceShape DEF Below, Within, Loops
<1>6. /\ DOMAIN workspace' = DOMAIN workspace \ {p}
      /\ \A q \in DOMAIN workspace \ {p} : workspace'[q] = workspace[q]
  BY <1>4, <1>5, WithoutIsWorkspace
<1>7. Unlinks(found)' = Unlinks(found)
  BY <1>4 DEF Unlinks, Visible, Files
<1>8. Unlinking'
  BY <1>2, <1>4, <1>6, <1>7 DEF Unlinking
<1> QED BY <1>4, <1>8 DEF AloneInv

\* What lies below a directory to remove was removed before it, or it holds
\* something excluded, as the directory then does.
LEMMA RmdirAlone == ASSUME SafeInv, AloneInv, ~edited, Rmdir PROVE AloneInv'
<1>1. PICK p \in Deepest :
        \/ /\ p \in Dirs(workspace) /\ Below(workspace, p) = {}
           /\ Visits("rmdir", p, Without(workspace, {p}))
        \/ p \in Dirs(workspace) /\ HasExcludedBelow(workspace, p)
             /\ Visits("rmdir", p, workspace)
        \/ p \notin Dirs(workspace) /\ Raises("rmdir")
        \/ Through(p) /\ Elsewhere("rmdir", p)
        \/ workspace[p] = Link /\ Elsewhere("rmdir", p)
        \/ Below(workspace, p) # {} /\ ~HasExcludedBelow(workspace, p)
             /\ Raises("rmdir")
  BY DEF Rmdir
<1>2. /\ phase = "rmdir" /\ Removing
      /\ p \in todo /\ p \in Rmdirs(found) /\ p \in Paths /\ ~Excluded(p)
  BY <1>1 DEF Visits, Raises, Elsewhere, AloneInv, SafeInv, TodoInv, Deepest, Loops
<1>3. /\ workspace \in Workspaces /\ found \in Workspaces
      /\ DOMAIN found \subseteq Paths /\ DOMAIN workspace \subseteq Paths
      /\ Dir # Link /\ Dir \notin Contents
      /\ \A q \in DOMAIN found : found[q] \in Contents \cup {Dir, Link}
  BY <1>2, FoundShape DEF Loops
<1>4. p \in Dirs(workspace)
  BY <1>2, <1>3 DEF Removing, Unlinks, Rmdirs, Dirs, Visible
<1>8. ~Through(p) /\ workspace[p] # Link
  BY <1>3, <1>4, NothingThrough DEF Dirs
<1>5. ASSUME NEW q \in Below(workspace, p) PROVE HasExcludedBelow(workspace, p)
  <2>1. q \in DOMAIN workspace /\ q \in Paths /\ p \in Parents(q)
    BY <1>3 DEF Below, Within
  <2>2. CASE Excluded(q)
    BY <2>2, <1>5 DEF HasExcludedBelow
  <2>3. CASE ~Excluded(q)
    <3>1. q \in Visible(found) \ Unlinks(found)
      BY <1>2, <2>1, <2>3 DEF Removing, Visible
    <3>2. q \notin DOMAIN archive
      <4>1. p \notin Dirs(archive)
        BY <1>2 DEF Rmdirs
      <4> QED BY <1>2, <2>1, <4>1, ArchiveShape
    <3>3. q \in Rmdirs(found)
      BY <1>3, <3>1, <3>2 DEF Unlinks, Rmdirs, Files, Dirs, Visible
    <3>4. q \notin todo
      BY <1>1, <2>1, ParentsOf DEF Deepest
    <3>5. HasExcludedBelow(workspace, q)
      BY <1>2, <2>1, <3>3, <3>4 DEF Removing
    <3>6. PICK r \in DOMAIN workspace : q \in Parents(r) /\ Excluded(r)
      BY <3>5 DEF HasExcludedBelow, Below, Within
    <3>7. p \in Parents(r)
      BY <1>3, <2>1, <3>6, WithinIsTransitive
    <3> QED BY <3>6, <3>7 DEF HasExcludedBelow, Below, Within
  <2> QED BY <2>2, <2>3
<1>6. CASE Below(workspace, p) = {} /\ Visits("rmdir", p, Without(workspace, {p}))
  <2>1. /\ todo' = todo \ {p} /\ phase' = "rmdir" /\ UNCHANGED <<found, archive>>
        /\ DOMAIN workspace' = DOMAIN workspace \ {p}
        /\ \A q \in DOMAIN workspace \ {p} : workspace'[q] = workspace[q]
    BY <1>2, <1>3, <1>6, WithoutIsWorkspace DEF Visits
  <2>2. Unlinks(found)' = Unlinks(found) /\ Rmdirs(found)' = Rmdirs(found)
    BY <2>1 DEF Unlinks, Rmdirs, Visible, Files, Dirs
  <2>3. ASSUME NEW q, HasExcludedBelow(workspace, q) PROVE HasExcludedBelow(workspace', q)
    BY <1>2, <2>1, <2>3 DEF HasExcludedBelow, Below, Within
  <2>4. Removing'
    <3>1. \A q \in (Rmdirs(found) \ todo') \cap DOMAIN workspace' :
            HasExcludedBelow(workspace', q)
      BY <1>2, <2>1, <2>3 DEF Removing
    <3> QED BY <1>2, <2>1, <2>2, <3>1 DEF Removing, HasExcludedBelow, Below
  <2> QED BY <2>1, <2>4 DEF AloneInv
<1>7. CASE HasExcludedBelow(workspace, p) /\ Visits("rmdir", p, workspace)
  <2>1. /\ todo' = todo \ {p} /\ phase' = "rmdir"
        /\ UNCHANGED <<found, archive, workspace>>
    BY <1>2, <1>7 DEF Visits
  <2>2. Unlinks(found)' = Unlinks(found) /\ Rmdirs(found)' = Rmdirs(found)
    BY <2>1 DEF Unlinks, Rmdirs, Visible, Files, Dirs
  <2>3. Removing'
    BY <1>2, <1>7, <2>1, <2>2 DEF Removing, HasExcludedBelow, Below
  <2> QED BY <2>1, <2>3 DEF AloneInv
<1> QED BY <1>1, <1>4, <1>5, <1>6, <1>7, <1>8

\* No entry of the archive finds anything but directories above it.
LEMMA RoomForEntry ==
  ASSUME SafeInv, Clean, phase \in {"mkdir", "copy"}, NEW p \in DOMAIN archive
  PROVE  HasParents(p) /\ ~Through(p)
<1>1. /\ p \in Paths /\ ~Excluded(p) /\ Parents(p) \subseteq Dirs(archive)
      /\ Files(archive) \cap Dirs(archive) = {}
  BY ArchiveShape DEF SafeInv, AcceptedInv, Loops
<1>2. ASSUME NEW q \in Parents(p) \cap DOMAIN workspace PROVE workspace[q] = Dir
  <2>1. q \in Visible(workspace) /\ q \notin Files(archive)
    BY <1>1, <1>2, VisibleParents DEF Visible
  <2> QED BY <2>1 DEF Clean
<1> QED BY <1>2, KindAssumption DEF HasParents, Through

\* Nothing lies where a file of the archive goes: had an excluded entry been
\* there, the restore would have been refused.
LEMMA RoomForFile ==
  ASSUME SafeInv, Clean, phase = "copy", NEW p \in Files(archive)
  PROVE  Below(workspace, p) = {}
<1>1. /\ p \in Paths /\ ~Excluded(p) /\ p \notin Dirs(archive)
  BY ArchiveShape DEF SafeInv, AcceptedInv, Loops, Files
<1>2. SUFFICES ASSUME NEW r \in Below(workspace, p) PROVE FALSE
  OBVIOUS
<1>3. p \in DOMAIN workspace /\ workspace[p] = Dir
  BY <1>2, FoundShape, WorkspaceShape DEF Below, Within, Loops
<1>4. HasExcludedBelow(workspace, p) /\ p \in Dirs(found)
  BY <1>1, <1>3, KindAssumption DEF Clean, Visible
<1>5. HasExcludedBelow(found, p)
  BY <1>4 DEF HasExcludedBelow, Below, SafeInv, ExcludedIsUntouched
<1> QED BY <1>1, <1>4, <1>5 DEF Blocked, SafeInv, AcceptedInv, Loops

\* What an entry put in its place leaves as it was.
LEMMA EntryIsAdded ==
  ASSUME SafeInv, Clean, phase \in {"mkdir", "copy"}, NEW p \in DOMAIN archive,
         archive[p] = Dir \/ Below(workspace, p) = {},
         workspace' = With(workspace, p, archive[p]), UNCHANGED <<archive, found>>
  PROVE  /\ DOMAIN workspace \subseteq DOMAIN workspace'
         /\ p \in DOMAIN workspace' /\ workspace'[p] = archive[p]
         /\ \A q \in DOMAIN workspace : q # p => workspace'[q] = workspace[q]
         /\ Clean'
<1>1. /\ p \in Paths /\ ~Excluded(p) /\ Parents(p) \subseteq Dirs(archive)
      /\ Parents(p) \subseteq Paths /\ archive[p] \in Kinds \ {Link}
      /\ Files(archive) \cup Dirs(archive) = DOMAIN archive
      /\ Files(archive)' = Files(archive) /\ Dirs(archive)' = Dirs(archive)
      /\ Dirs(found)' = Dirs(found)
  BY ArchiveShape DEF SafeInv, AcceptedInv, Loops, Files, Dirs
<1>2. workspace \in Workspaces
  BY DEF SafeInv, TypeOK
<1>3. \A q \in Parents(p) \cap DOMAIN workspace : workspace[q] = Dir
  BY RoomForEntry DEF HasParents
<1>4. /\ DOMAIN workspace' = DOMAIN workspace \cup Parents(p) \cup {p}
      /\ workspace'[p] = archive[p]
      /\ \A q \in DOMAIN workspace : q # p => workspace'[q] = workspace[q]
      /\ \A q \in Parents(p) : workspace'[q] = Dir
  BY <1>1, <1>2, <1>3, WithIsWorkspace
<1>5. ASSUME NEW q, HasExcludedBelow(workspace, q) PROVE HasExcludedBelow(workspace', q)
  BY <1>4, <1>5 DEF HasExcludedBelow, Below
<1>6. ASSUME NEW q \in Visible(workspace)'
      PROVE  /\ \/ workspace'[q] = Dir /\ q \in Dirs(archive)
                \/ workspace'[q] = Dir /\ HasExcludedBelow(workspace', q)
                \/ workspace'[q] \in Contents /\ q \in Files(archive)
             /\ workspace'[q] = Dir => q \in Dirs(archive) \cup Dirs(found)
  <2>1. CASE q = p
    BY <1>1, <1>4, <2>1 DEF Files, Dirs
  <2>2. CASE q \in Parents(p)
    BY <1>1, <1>4, <2>2
  <2>3. CASE q \in DOMAIN workspace /\ q # p
    <3>1. q \in Visible(workspace) /\ workspace'[q] = workspace[q]
      BY <1>4, <1>6, <2>3 DEF Visible
    <3> QED BY <1>5, <3>1 DEF Clean
  <2> QED BY <1>4, <1>6, <2>1, <2>2, <2>3 DEF Visible
<1>7. Clean'
  BY <1>1, <1>6 DEF Clean, HasExcludedBelow, Below
<1> QED BY <1>4, <1>7

LEMMA MkdirAlone == ASSUME SafeInv, AloneInv, ~edited, Mkdir PROVE AloneInv'
<1>1. PICK p \in todo :
        \/ HasParents(p) /\ Visits("mkdir", p, With(workspace, p, Dir))
        \/ ~HasParents(p) /\ Raises("mkdir")
        \/ Through(p) /\ Elsewhere("mkdir", p)
  BY DEF Mkdir, Shallowest
<1>2. phase = "mkdir" /\ Clean /\ Making /\ p \in Dirs(archive)
  BY <1>1 DEF Visits, Raises, Elsewhere, AloneInv, SafeInv, TodoInv
<1>3. p \in DOMAIN archive /\ archive[p] = Dir
  BY <1>2 DEF Dirs
<1>4. Visits("mkdir", p, With(workspace, p, archive[p]))
  BY <1>1, <1>2, <1>3, RoomForEntry
<1>5. /\ workspace' = With(workspace, p, archive[p]) /\ todo' = todo \ {p}
      /\ phase' = "mkdir" /\ UNCHANGED <<archive, found>>
  BY <1>2, <1>4 DEF Visits
<1>6. /\ DOMAIN workspace \subseteq DOMAIN workspace'
      /\ p \in DOMAIN workspace' /\ workspace'[p] = Dir
      /\ \A q \in DOMAIN workspace : q # p => workspace'[q] = workspace[q]
      /\ Clean'
  BY <1>2, <1>3, <1>5, EntryIsAdded
<1>7. Making'
  BY <1>2, <1>5, <1>6 DEF Making, Dirs
<1> QED BY <1>5, <1>6, <1>7 DEF AloneInv

LEMMA CopyAlone == ASSUME SafeInv, AloneInv, ~edited, Copy PROVE AloneInv'
<1>1. PICK p \in todo :
        \/ Visits("copy", p, With(workspace, p, archive[p]))
        \/ ~HasParents(p) /\ Raises("copy")
        \/ Through(p) /\ Elsewhere("copy", p)
        \/ Below(workspace, p) # {} /\ Raises("copy")
  BY DEF Copy
<1>2. phase = "copy" /\ Clean /\ Copying /\ p \in Files(archive)
  BY <1>1 DEF Visits, Raises, Elsewhere, AloneInv, SafeInv, TodoInv
<1>3. /\ p \in DOMAIN archive /\ Below(workspace, p) = {} /\ HasParents(p)
      /\ ~Through(p) /\ p \notin Dirs(archive)
  BY <1>2, RoomForFile, RoomForEntry, ArchiveShape DEF Files
<1>4. /\ workspace' = With(workspace, p, archive[p]) /\ todo' = todo \ {p}
      /\ phase' = "copy" /\ UNCHANGED <<archive, found>>
  BY <1>1, <1>2, <1>3 DEF Visits
<1>5. /\ DOMAIN workspace \subseteq DOMAIN workspace'
      /\ p \in DOMAIN workspace' /\ workspace'[p] = archive[p]
      /\ \A q \in DOMAIN workspace : q # p => workspace'[q] = workspace[q]
      /\ Clean'
  BY <1>2, <1>3, <1>4, EntryIsAdded
<1>6. Dirs(archive) \subseteq Dirs(workspace)'
  BY <1>2, <1>3, <1>5 DEF Copying, Dirs
<1>7. \A q \in Files(archive) \ todo' : q \in DOMAIN workspace' /\ workspace'[q] = archive[q]
  BY <1>2, <1>4, <1>5 DEF Copying
<1>8. Copying'
  BY <1>4, <1>6, <1>7 DEF Copying, Dirs, Files
<1> QED BY <1>4, <1>5, <1>8 DEF AloneInv

\* What one loop has achieved is what the next one starts from.
LEMMA NextLoopAlone == ASSUME SafeInv, AloneInv, ~edited, NextLoop PROVE AloneInv'
<1>1. todo = {} /\ UNCHANGED <<workspace, archive, found, edited>>
  BY DEF NextLoop
<1>2. /\ Unlinks(found)' = Unlinks(found) /\ Rmdirs(found)' = Rmdirs(found)
      /\ Clean' <=> Clean
      /\ Dirs(archive)' = Dirs(archive) /\ Files(archive)' = Files(archive)
      /\ Dirs(workspace)' = Dirs(workspace)
  BY <1>1 DEF Unlinks, Rmdirs, Visible, Files, Dirs, Clean, HasExcludedBelow, Below
<1>3. CASE phase = "unlink" /\ phase' = "rmdir" /\ todo' = Rmdirs(found)
  <2>1. Unlinking
    BY <1>3 DEF AloneInv
  <2>2. Removing'
    BY <1>1, <1>2, <1>3, <2>1 DEF Unlinking, Removing
  <2> QED BY <1>3, <2>2 DEF AloneInv
<1>4. CASE phase = "rmdir" /\ phase' = "mkdir" /\ todo' = Dirs(archive)
  <2>1. Removing
    BY <1>4 DEF AloneInv
  <2>2. ASSUME NEW p \in Visible(workspace)
        PROVE  /\ \/ workspace[p] = Dir /\ p \in Dirs(archive)
                  \/ workspace[p] = Dir /\ HasExcludedBelow(workspace, p)
                  \/ workspace[p] \in Contents /\ p \in Files(archive)
               /\ workspace[p] = Dir => p \in Dirs(archive) \cup Dirs(found)
    <3>1. /\ p \in Visible(found) \ Unlinks(found) /\ workspace[p] = found[p]
          /\ p \in DOMAIN workspace
          /\ found[p] \in Contents \cup {Dir, Link}
      BY <1>4, <2>1, FoundShape DEF Removing, Visible, Loops
    <3>2. p \in Rmdirs(found) => HasExcludedBelow(workspace, p)
      BY <1>1, <2>1, <3>1 DEF Removing
    <3> QED BY <3>1, <3>2 DEF Unlinks, Rmdirs, Dirs, Files, Visible
  <2>3. Clean
    BY <2>2 DEF Clean
  <2>4. Making'
    BY <1>2, <1>4 DEF Making
  <2> QED BY <1>2, <1>4, <2>3, <2>4 DEF AloneInv
<1>5. CASE phase = "mkdir" /\ phase' = "copy" /\ todo' = Files(archive)
  <2>1. Clean /\ Making
    BY <1>5 DEF AloneInv
  <2>2. Copying'
    BY <1>1, <1>2, <1>5, <2>1 DEF Making, Copying
  <2> QED BY <1>2, <1>5, <2>1, <2>2 DEF AloneInv
<1>6. CASE phase = "copy" /\ phase' = "restored" /\ UNCHANGED todo
  <2>1. Clean /\ Copying
    BY <1>6 DEF AloneInv
  <2>2. Copying'
    BY <1>1, <1>2, <1>6, <2>1 DEF Copying
  <2> QED BY <1>1, <1>2, <1>6, <2>1, <2>2 DEF AloneInv
<1> QED BY <1>3, <1>4, <1>5, <1>6 DEF NextLoop

LEMMA BeginRestoreAlone == ASSUME SafeInv, BeginRestore PROVE AloneInv'
<1>1. CASE phase' = "refused"
  BY <1>1 DEF AloneInv
<1>2. CASE phase' = "unlink" /\ todo' = Unlinks(workspace)
  <2>1. found' = workspace /\ UNCHANGED <<workspace, archive>>
    BY DEF BeginRestore
  <2>2. Unlinks(found)' = Unlinks(workspace)
    BY <2>1 DEF Unlinks, Visible, Files
  <2>3. Unlinking'
    BY <1>2, <2>1, <2>2 DEF Unlinking
  <2> QED BY <1>2, <2>3 DEF AloneInv
<1> QED BY <1>1, <1>2 DEF BeginRestore

LEMMA NextAlone == ASSUME SafeInv, AloneInv, [Next]_vars PROVE AloneInv'
<1>1. CASE Unlink \/ Rmdir \/ Mkdir \/ Copy \/ NextLoop
  <2>1. edited' = edited
    BY <1>1 DEF Unlink, Rmdir, Mkdir, Copy, NextLoop, Visits, Elsewhere, Raises
  <2>2. CASE edited
    BY <2>1, <2>2 DEF AloneInv
  <2> QED BY <1>1, <2>2, UnlinkAlone, RmdirAlone, MkdirAlone, CopyAlone, NextLoopAlone
<1>2. CASE BeginRestore
  BY <1>2, BeginRestoreAlone
<1>3. CASE Edit
  BY <1>3 DEF Edit, AloneInv
<1>4. CASE Capture \/ Run \/ Damage \/ Stop \/ NextCheckpoint \/ Change
  BY <1>4 DEF Capture, Run, Damage, Stop, NextCheckpoint, Change, AloneInv
<1>5. CASE UNCHANGED vars
  BY <1>5 DEF vars, AloneInv, Unlinking, Removing, Clean, Making, Copying, Unlinks,
              Rmdirs, Visible, Files, Dirs, HasExcludedBelow, Below
<1> QED BY <1>1, <1>2, <1>3, <1>4, <1>5 DEF Next

-----------------------------------------------------------------------------
\* The theorems.

LEMMA RestoreInvHolds == Spec => []RestoreInv
<1>1. Init => RestoreInv
  BY InitIsSafe DEF RestoreInv, Init, AloneInv
<1>2. RestoreInv /\ [Next]_vars => RestoreInv'
  BY NextIsSafe, NextAlone DEF RestoreInv
<1> QED BY <1>1, <1>2, PTL DEF Spec

\* Whatever the restore does, at whatever entry it stops, the workspace stays
\* one, and so do the archive and the scan it works from
\* (restore_workspace_snapshot).
THEOREM RestoreTyped == Spec => []TypeOK
<1>1. RestoreInv => TypeOK
  BY DEF RestoreInv, SafeInv
<1> QED BY <1>1, RestoreInvHolds, PTL

\* A restore leaves native state, Git state and volatile directories as it
\* found them, whether it ends, raises, is stopped half way, or runs while
\* somebody else edits the workspace (preserved_excluded_paths).
THEOREM ExcludedStaysUntouched == Spec => []ExcludedIsUntouched
<1>1. RestoreInv => ExcludedIsUntouched
  BY DEF RestoreInv, SafeInv
<1> QED BY <1>1, RestoreInvHolds, PTL

\* What the checks before the first change let through never raises later,
\* unless the workspace changes under the restore: the four loops, in their
\* order, leave each other room.
THEOREM RefusalsAlwaysFirst == Spec => []RefusalsComeFirst
<1>1. RestoreInv => RefusalsComeFirst
  BY DEF RestoreInv, AloneInv, RefusalsComeFirst
<1> QED BY <1>1, RestoreInvHolds, PTL

\* A restore that ends well, with nobody else at work, gives back exactly what
\* was captured, besides directories kept for the excluded state below them.
THEOREM RestoreIsExact == Spec => []RestoredMatches
<1>1. ASSUME RestoreInv, phase = "restored", ~edited PROVE RestoredMatches
  <2>1. Clean /\ Copying /\ todo = {}
    BY <1>1 DEF RestoreInv, AloneInv
  <2>2. /\ captured \in Workspaces
        /\ DOMAIN archive = Captured(captured)
        /\ \A p \in DOMAIN archive : archive[p] = captured[p]
        /\ DOMAIN archive = Files(archive) \cup Dirs(archive)
    BY <1>1, ArchiveShape DEF RestoreInv, SafeInv, ArchiveInv
  <2>3. ASSUME NEW p \in Visible(captured)
        PROVE  p \in DOMAIN workspace /\ workspace[p] = captured[p]
    <3>1. p \in DOMAIN archive /\ archive[p] = captured[p]
      BY <2>2, VisibleIsCaptured
    <3> QED BY <2>1, <2>2, <3>1 DEF Copying, Dirs
  <2>4. ASSUME NEW p \in Visible(workspace) \ DOMAIN captured
        PROVE  workspace[p] = Dir /\ HasExcludedBelow(workspace, p)
    <3>1. p \notin DOMAIN archive
      BY <2>2 DEF Captured
    <3> QED BY <2>1, <3>1 DEF Clean, Files, Dirs
  <2> QED BY <2>3, <2>4 DEF RestoredMatches
<1>2. RestoreInv => RestoredMatches
  BY <1>1 DEF RestoredMatches
<1> QED BY <1>2, RestoreInvHolds, PTL

=============================================================================
