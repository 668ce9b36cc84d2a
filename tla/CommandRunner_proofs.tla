------------------------ MODULE CommandRunner_proofs ------------------------
(***************************************************************************)
(* What run_command promises of the control directory when no other        *)
(* process or thread touches it meanwhile and the repair neither raises nor*)
(* is cut short; what the Git evidence of a rollback is worth              *)
(* (GitEvidence); and what a model's assessment of its own command can do  *)
(* (RiskPolicy).                                                           *)
(***************************************************************************)
EXTENDS CommandRunner, GitEvidence, RiskPolicy, TLAPS

\* Only the command touches the directory, and leaves it such that the repair
\* can read, remove and write it; nothing outlives the command or the host.
Alone == Faults \subseteq {"intrudes"}

\* What the copy taken before the command is worth at each step of it.
CopyIsGood ==
  /\ runner \in Runners
  /\ runner.before = written
  /\ ~runner.existed => written = NoFiles

BetweenCommands == runner = Idle => entry = written
CopyKept        == runner # Idle => CopyIsGood
Removing ==
  runner.step = "remove" => \A f \in Files : f \notin runner.left => entry[f] = 0
Rewriting ==
  runner.step = "write" =>
    /\ \A f \in Files : entry[f] = IF f \in runner.left THEN 0 ELSE written[f]
    /\ control = "directory"

IInv ==
  /\ control \in {"absent", "directory", "other"}
  /\ control = "absent" => entry = NoFiles
  /\ entry \in [Files -> Entries]
  /\ written \in [Files -> Versions]
  /\ runner = Idle \/ runner \in Runners
  /\ ~loose
  /\ BetweenCommands /\ CopyKept /\ Removing /\ Rewriting

-----------------------------------------------------------------------------
\* A runner at a step has the fields it was built from.
LEMMA RunnerFields ==
  ASSUME NEW step \in {"run", "compare", "remove", "write"},
         NEW existed \in BOOLEAN, NEW before \in [Files -> Entries],
         NEW left \in SUBSET Files
  PROVE  LET r == At(step, existed, before, left) IN
           /\ r \in Runners /\ r # Idle
           /\ r.step = step /\ r.existed = existed
           /\ r.before = before /\ r.left = left
  BY DEF At, Runners, Idle

\* At rest, the step is none of a command's.
LEMMA IdleStep == Idle.step = "idle"
  BY DEF Idle

LEMMA InitHolds ==
  ASSUME MaxWrites \in Nat, Init
  PROVE  IInv
  <1>1. 0 \in Versions
    BY DEF Versions
  <1>2. NoFiles \in [Files -> Versions]
    BY <1>1 DEF NoFiles
  <1> QED
    BY <1>2, IdleStep
    DEF Init, IInv, BetweenCommands, CopyKept, Removing, Rewriting, Entries

LEMMA HostWritesKeeps ==
  ASSUME MaxWrites \in Nat, Alone, IInv, NEW f \in Files, HostWrites(f)
  PROVE  IInv'
  <1>1. runner = Idle /\ runner' = Idle /\ entry = written
    BY DEF Alone, HostWrites, IInv, BetweenCommands
  <1>2. written[f] + 1 \in Versions
    BY DEF IInv, HostWrites, Versions
  <1>3. written' \in [Files -> Versions] /\ entry' = written'
    BY <1>1, <1>2 DEF IInv, HostWrites
  <1> QED
    BY <1>1, <1>3, IdleStep
    DEF IInv, HostWrites, BetweenCommands, CopyKept, Removing, Rewriting, Entries

LEMMA BeginCommandKeeps ==
  ASSUME IInv, BeginCommand
  PROVE  IInv'
  <1>1. entry = written /\ runner' = At("run", control = "directory", entry, {})
    BY DEF BeginCommand, IInv, BetweenCommands
  <1>2. control # "directory" => written = NoFiles
    BY <1>1 DEF BeginCommand, Readable, IInv
  <1>3. /\ runner' \in Runners /\ runner' # Idle
        /\ runner'.step = "run" /\ runner'.before = entry
        /\ runner'.existed = (control = "directory")
    <2>1. (control = "directory") \in BOOLEAN /\ {} \in SUBSET Files
      OBVIOUS
    <2>2. entry \in [Files -> Entries]
      BY DEF IInv
    <2> QED
      BY <1>1, <2>1, <2>2 DEF At, Runners, Idle
  <1> QED
    BY <1>1, <1>2, <1>3
    DEF IInv, BeginCommand, BetweenCommands, CopyKept, CopyIsGood, Removing, Rewriting

LEMMA CommandWritesKeeps ==
  ASSUME MaxWrites \in Nat, IInv, CommandWrites
  PROVE  IInv'
  <1>1. runner.step = "run" /\ runner # Idle /\ UNCHANGED <<runner, loose, written>>
    BY IdleStep DEF CommandWrites, IInv
  <1>2. 0 \in Versions
    BY DEF Versions
  <1>3. /\ control' \in {"absent", "directory", "other"}
        /\ control' = "absent" => entry' = NoFiles
        /\ entry' \in [Files -> Entries]
    BY <1>2 DEF CommandWrites, IInv, Entries, NoFiles
  <1> QED
    BY <1>1, <1>3
    DEF IInv, BetweenCommands, CopyKept, CopyIsGood, Removing, Rewriting

LEMMA CommandEndsKeeps ==
  ASSUME Alone, IInv, CommandEnds
  PROVE  IInv'
  <1>1. runner # Idle /\ CopyIsGood
    BY IdleStep DEF CommandEnds, IInv, CopyKept
  <1>3. ~loose'
    BY DEF CommandEnds, IInv, Alone
  <1>2. /\ runner' \in Runners /\ runner' # Idle
        /\ runner'.step = "compare" /\ runner'.before = written
        /\ runner'.existed = runner.existed
    BY <1>1, RunnerFields DEF CommandEnds, CopyIsGood, Runners
  <1> QED
    BY <1>1, <1>2, <1>3
    DEF IInv, CommandEnds, BetweenCommands, CopyKept, CopyIsGood, Removing, Rewriting

LEMMA CompareKeeps ==
  ASSUME IInv, Compare
  PROVE  IInv'
  <1>1. runner # Idle /\ CopyIsGood
    BY IdleStep DEF Compare, IInv, CopyKept
  <1>2. CASE AsBefore
    <2>1. entry = written /\ runner' = Idle
      BY <1>1, <1>2 DEF AsBefore, CopyIsGood, IInv, Compare
    <2> QED
      BY <2>1, IdleStep
      DEF IInv, Compare, BetweenCommands, CopyKept, Removing, Rewriting
  <1>3. CASE ~AsBefore
    <2> DEFINE left == {f \in Files : entry[f] # 0}
    <2>1. runner' = At("remove", runner.existed, runner.before, left)
      BY <1>3 DEF Compare
    <2>2. /\ runner' \in Runners /\ runner' # Idle
          /\ runner'.step = "remove" /\ runner'.before = written
          /\ runner'.existed = runner.existed /\ runner'.left = left
      BY <1>1, <2>1, RunnerFields DEF CopyIsGood, Runners
    <2> QED
      BY <1>1, <2>2
      DEF IInv, Compare, BetweenCommands, CopyKept, CopyIsGood, Removing, Rewriting
  <1> QED
    BY <1>2, <1>3

LEMMA RemoveKeeps ==
  ASSUME MaxWrites \in Nat, IInv, NEW f \in Files, Remove(f)
  PROVE  IInv'
  <1>1. runner # Idle /\ CopyIsGood
    BY IdleStep DEF Remove, IInv, CopyKept
  <1>2. /\ runner' \in Runners /\ runner' # Idle
        /\ runner'.step = "remove" /\ runner'.before = written
        /\ runner'.existed = runner.existed /\ runner'.left = runner.left \ {f}
    BY <1>1, RunnerFields DEF Remove, CopyIsGood, Runners
  <1>3. /\ entry' \in [Files -> Entries]
        /\ \A g \in Files : entry'[g] = IF g = f THEN 0 ELSE entry[g]
    BY DEF Remove, IInv, Entries, Versions
  <1>4. entry = NoFiles => entry' = NoFiles
    BY <1>3 DEF Remove, NoFiles
  <1> QED
    BY <1>1, <1>2, <1>3, <1>4
    DEF IInv, Remove, BetweenCommands, CopyKept, CopyIsGood, Removing, Rewriting

LEMMA RecreateKeeps ==
  ASSUME IInv, Recreate
  PROVE  IInv'
  <1>1. runner # Idle /\ CopyIsGood
    BY IdleStep DEF Recreate, IInv, CopyKept
  <1>2. entry = NoFiles
    BY DEF Recreate, IInv, Removing, NoFiles
  <1>3. CASE runner.existed
    <2> DEFINE left == {f \in Files : runner.before[f] # 0}
    <2>1. runner' = At("write", TRUE, runner.before, left) /\ control' = "directory"
      BY <1>2, <1>3 DEF Recreate
    <2>2. /\ runner' \in Runners /\ runner' # Idle
          /\ runner'.step = "write" /\ runner'.before = written
          /\ runner'.existed = TRUE /\ runner'.left = left
      <3>1. left \in SUBSET Files /\ TRUE \in BOOLEAN
        OBVIOUS
      <3>2. runner.before \in [Files -> Entries] /\ runner.before = written
        BY <1>1 DEF CopyIsGood, Runners
      <3> HIDE DEF left
      <3> QED
        BY <2>1, <3>1, <3>2 DEF At, Runners, Idle
    <2>3. \A f \in Files : entry[f] = IF f \in left THEN 0 ELSE written[f]
      BY <1>1, <1>2 DEF CopyIsGood, NoFiles
    <2> QED
      BY <1>1, <1>2, <2>1, <2>2, <2>3
      DEF IInv, Recreate, BetweenCommands, CopyKept, CopyIsGood, Removing, Rewriting
  <1>4. CASE ~runner.existed
    <2>1. runner' = Idle /\ control' = "absent" /\ entry = written
      BY <1>1, <1>2, <1>4 DEF Recreate, CopyIsGood
    <2> QED
      BY <1>2, <2>1, IdleStep
      DEF IInv, Recreate, BetweenCommands, CopyKept, Removing, Rewriting
  <1> QED
    BY <1>3, <1>4

LEMMA WriteBackKeeps ==
  ASSUME IInv, NEW f \in Files, WriteBack(f)
  PROVE  IInv'
  <1>1. runner # Idle /\ CopyIsGood
    BY IdleStep DEF WriteBack, IInv, CopyKept
  <1>2. /\ runner' \in Runners /\ runner' # Idle
        /\ runner'.step = "write" /\ runner'.before = written
        /\ runner'.existed = TRUE /\ runner'.left = runner.left \ {f}
    <2>1. runner.left \ {f} \in SUBSET Files /\ TRUE \in BOOLEAN
      BY <1>1 DEF CopyIsGood, Runners
    <2>2. runner.before \in [Files -> Entries] /\ runner.before = written
      BY <1>1 DEF CopyIsGood, Runners
    <2>3. runner' = At("write", TRUE, runner.before, runner.left \ {f})
      BY DEF WriteBack
    <2> QED
      BY <2>1, <2>2, <2>3 DEF At, Runners, Idle
  <1>3. /\ entry' \in [Files -> Entries]
        /\ \A g \in Files : entry'[g] = IF g = f THEN written[g] ELSE entry[g]
    BY <1>1 DEF WriteBack, IInv, CopyIsGood, Entries
  <1>4. /\ control = "directory"
        /\ \A g \in Files : entry[g] = IF g \in runner.left THEN 0 ELSE written[g]
    BY DEF WriteBack, IInv, Rewriting
  <1> QED
    BY <1>1, <1>2, <1>3, <1>4
    DEF IInv, WriteBack, BetweenCommands, CopyKept, CopyIsGood, Removing, Rewriting

LEMMA RepairedKeeps ==
  ASSUME IInv, Repaired
  PROVE  IInv'
  <1>1. \A f \in Files : entry[f] = written[f]
    BY DEF Repaired, IInv, Rewriting
  <1>2. entry = written
    BY <1>1 DEF IInv
  <1> QED
    BY <1>2, IdleStep
    DEF IInv, Repaired, BetweenCommands, CopyKept, Removing, Rewriting

LEMMA NextKeeps ==
  ASSUME MaxWrites \in Nat, Alone, IInv, [Next]_vars
  PROVE  IInv'
  <1>1. CASE UNCHANGED vars
    BY <1>1
    DEF vars, IInv, BetweenCommands, CopyKept, CopyIsGood, Removing, Rewriting
  <1>2. ~HostDies /\ ~RepairRaises
    BY DEF HostDies, RepairRaises, Alone
  <1> QED
    BY <1>1, <1>2, HostWritesKeeps, BeginCommandKeeps, CommandWritesKeeps,
       CommandEndsKeeps, CompareKeeps, RemoveKeeps, RecreateKeeps,
       WriteBackKeeps, RepairedKeeps
    DEF Next

-----------------------------------------------------------------------------
\* With one thread at work, no process left over and no crash in the repair,
\* as long as the repair can read, remove and write the directory: whatever a
\* project command puts in the place of .ai-workflow or of a file of it - a
\* link, other content, nothing - each lifecycle file is, when run_command has
\* returned, what the host last wrote.  A command that takes the permissions
\* away is outside: _restore_control_dir then raises, and repairs nothing more.
THEOREM ControlDirectoryIsRepaired ==
  ASSUME MaxWrites \in Nat, Alone
  PROVE  Spec => []OwnedFilesAreKept
  <1>1. IInv => OwnedFilesAreKept
    BY DEF IInv, BetweenCommands, OwnedFilesAreKept
  <1>2. IInv /\ [Next]_vars => IInv'
    BY NextKeeps
  <1> QED
    BY <1>1, <1>2, InitHolds, PTL DEF Spec
-----------------------------------------------------------------------------
\* A rollback that asks for no Git review left the index and the status as the
\* checkpoint saw them, with every query about them answered; head and branch
\* are the same too wherever both times they could be asked.
THEOREM NoReviewMeansNoChange ==
  ASSUME Nothing \notin Contents,
         NEW then \in Repositories, NEW now \in Repositories,
         NEW failedThen \in SUBSET Queries, NEW failedNow \in SUBSET Queries,
         ~RequiresReview(Snapshot(then, failedThen), Snapshot(now, failedNow))
  PROVE  /\ then.git = now.git
         /\ then.git =>
              /\ {"index", "status"} \cap (failedThen \cup failedNow) = {}
              /\ then.index = now.index /\ then.status = now.status
              /\ \A q \in {"head", "branch"} :
                   q \notin failedThen \cup failedNow => then[q] = now[q]
  <1>1. /\ then.git \in BOOLEAN /\ now.git \in BOOLEAN
        /\ then.index \in Contents /\ now.index \in Contents
        /\ then.status \in Contents /\ now.status \in Contents
    BY DEF Repositories
  <1>2. then.git = now.git
    BY <1>1 DEF RequiresReview, Snapshot, NoEvidence
  <1>3. SUFFICES ASSUME then.git, now.git
                 PROVE  /\ {"index", "status"} \cap (failedThen \cup failedNow) = {}
                        /\ then.index = now.index /\ then.status = now.status
                        /\ \A q \in {"head", "branch"} :
                             q \notin failedThen \cup failedNow => then[q] = now[q]
    BY <1>2
  <1>4. /\ "index" \notin failedThen \cup failedNow /\ then.index = now.index
        /\ "status" \notin failedThen \cup failedNow /\ then.status = now.status
    BY <1>1, <1>3
    DEF RequiresReview, Snapshot, Answer, MetadataChanged, Unknown, DigestChanged
  <1>5. /\ "head" \notin failedThen \cup failedNow => then.head = now.head
        /\ "branch" \notin failedThen \cup failedNow => then.branch = now.branch
    BY <1>3 DEF RequiresReview, Snapshot, Answer, MetadataChanged
  <1> QED
    BY <1>4, <1>5

\* A query about the index or the status that failed, before the command or
\* after the rollback, is reason enough for a review.
THEOREM MissingEvidenceIsReviewed ==
  ASSUME Nothing \notin Contents,
         NEW then \in Repositories, NEW now \in Repositories,
         NEW failedThen \in SUBSET Queries, NEW failedNow \in SUBSET Queries,
         then.git \/ now.git,
         {"index", "status"} \cap (failedThen \cup failedNow) # {}
  PROVE  RequiresReview(Snapshot(then, failedThen), Snapshot(now, failedNow))
  BY NoReviewMeansNoChange DEF Repositories

\* A repository nothing happened to is not reviewed, if Git answers every query
\* or fails to answer the same of "head" and "branch" both times.
THEOREM SameRepositoryNeedsNoReview ==
  ASSUME Nothing \notin Contents, NEW repository \in Repositories,
         NEW failed \in SUBSET {"head", "branch"}
  PROVE  ~RequiresReview(Snapshot(repository, failed), Snapshot(repository, failed))
  <1>1. Answer(repository, "index", failed) \in Contents
        /\ Answer(repository, "status", failed) \in Contents
    BY DEF Repositories, Answer
  <1> QED
    BY <1>1
    DEF RequiresReview, Snapshot, NoEvidence, MetadataChanged, Unknown, DigestChanged
-----------------------------------------------------------------------------
\* Whatever the model says of its own command, the outcome is at least as
\* severe as the local policy's (docs/RISK_INTELLIGENCE.md:8: it "can escalate
\* risk but can never lower, bypass, or override a local restriction").
THEOREM AssessmentOnlyRaises ==
  ASSUME NEW local \in Classified, NEW llm \in Assessments
  PROVE  /\ EffectiveRank(local, llm) \in Ranks
         /\ EffectiveRank(local, llm) >= local.rank
         /\ Severity(EffectiveLevel(local, llm)) >= Severity(local.level)
  BY DEF Classified, Assessments, Ranks, EffectiveRank, EffectiveLevel, Severity

\* A worse assessment never has a milder outcome.
THEOREM AssessmentIsMonotone ==
  ASSUME NEW local \in Classified,
         NEW mild \in Assessments, NEW harsh \in Assessments, mild <= harsh
  PROVE  Severity(EffectiveLevel(local, mild)) <= Severity(EffectiveLevel(local, harsh))
  BY DEF Classified, Assessments, Ranks, EffectiveRank, EffectiveLevel, Severity

\* No command needs an approval without needing a checkpoint, or the other
\* way round, unless it is blocked: the command loop, which asks by level and
\* takes its checkpoint by rank, has the two classes CommandExecution gives it.
THEOREM ApprovalMeansCheckpoint ==
  ASSUME NEW local \in Classified, NEW llm \in Assessments,
         Class(local, llm) # "blocked"
  PROVE  (Class(local, llm) = "protected")
           <=> NeedsCheckpoint(EffectiveRank(local, llm))
  BY DEF Classified, Assessments, Ranks, EffectiveRank, EffectiveLevel, Class,
         NeedsCheckpoint
=============================================================================
