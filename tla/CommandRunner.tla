---------------------------- MODULE CommandRunner ----------------------------
(***************************************************************************)
(* A project command and the control directory .ai-workflow, which the     *)
(* native host owns: run_command copies the directory before the command,  *)
(* compares it after, and rebuilds it entry by entry when it has changed.  *)
(***************************************************************************)
EXTENDS Naturals

CONSTANTS
  Files,       \* ROADMAP.md and HISTORY.md
  MaxWrites,   \* bound: how often the host writes a file
  Foreign,     \* what the host never wrote: a command's text, or half a file
  Irregular,   \* a symbolic link, or any entry that is no regular file
  Faults       \* what may happen: "intrudes", "overlap", "outlives", "denied",
               \* "dies"

VARIABLES
  control,  \* what .ai-workflow is
  entry,    \* what each file of it is; 0 is a file that is not there
  runner,   \* run_command
  loose,    \* does a process of a finished command still run?
  written   \* ghost: what the host last wrote

vars == <<control, entry, runner, loose, written>>

Versions == 0 .. MaxWrites
Entries  == Versions \cup {Foreign, Irregular}
NoFiles  == [f \in Files |-> 0]

Idle == [step |-> "idle"]
At(step, existed, before, left) ==
  [step |-> step, existed |-> existed, before |-> before, left |-> left]
Runners ==
  [step : {"run", "compare", "remove", "write"}, existed : BOOLEAN,
   before : [Files -> Entries], left : SUBSET Files]

Init ==
  /\ control = "absent" /\ entry = NoFiles
  /\ runner = Idle /\ loose = FALSE
  /\ written = NoFiles

\* Planning, advancing, closing and a course change replace a file; a link in
\* its place is refused.  Closing and course changes, which need a planned
\* project, do so without the lock that the command is run under.
HostWrites(f) ==
  /\ runner = Idle \/ ("overlap" \in Faults /\ entry[f] # 0)
  /\ control # "other" /\ entry[f] # Irregular
  /\ written[f] < MaxWrites
  /\ written' = [written EXCEPT ![f] = @ + 1]
  /\ entry' = [entry EXCEPT ![f] = written[f] + 1]
  /\ control' = "directory"
  /\ UNCHANGED <<runner, loose>>

\* _snapshot_control_dir refuses what is no directory of regular files.  Where
\* the copy cannot be read either, no command is run and nothing changes.
Readable ==
  control # "other" /\ \A f \in Files : entry[f] # Irregular

BeginCommand ==
  /\ runner = Idle /\ Readable
  /\ runner' = At("run", control = "directory", entry, {})
  /\ UNCHANGED <<control, entry, loose, written>>

\* The command, or what it left running, does anything to the directory.
CommandWrites ==
  /\ "intrudes" \in Faults
  /\ runner.step = "run" \/ loose
  /\ \/ control' \in {"absent", "other"} /\ entry' = NoFiles
     \/ /\ control' = "directory"
        /\ \E f \in Files, e \in {0, Foreign, Irregular} :
             entry' = [entry EXCEPT ![f] = e]
  /\ UNCHANGED <<runner, loose, written>>

\* It ends, or its shell is killed when the time is up.
CommandEnds ==
  /\ runner.step = "run"
  /\ runner' = At("compare", runner.existed, runner.before, {})
  /\ loose' \in {loose, "outlives" \in Faults}
  /\ UNCHANGED <<control, entry, written>>

AsBefore ==
  IF runner.existed THEN control = "directory" /\ entry = runner.before
                    ELSE control = "absent"

\* _restore_control_dir compares; shutil.rmtree lists what it will remove.
Compare ==
  /\ runner.step = "compare"
  /\ runner' = IF AsBefore THEN Idle
               ELSE At("remove", runner.existed, runner.before,
                       {f \in Files : entry[f] # 0})
  /\ UNCHANGED <<control, entry, loose, written>>

Remove(f) ==
  /\ runner.step = "remove" /\ f \in runner.left
  /\ entry' = [entry EXCEPT ![f] = 0]
  /\ runner' = At("remove", runner.existed, runner.before, runner.left \ {f})
  /\ UNCHANGED <<control, loose, written>>

\* A file that came while rmtree was at work makes it raise; otherwise the
\* directory goes and, if there was one, is made anew.
Recreate ==
  /\ runner.step = "remove" /\ runner.left = {}
  /\ \/ entry # NoFiles /\ runner' = Idle /\ UNCHANGED control
     \/ /\ entry = NoFiles
        /\ \/ runner.existed /\ control' = "directory"
                /\ runner' = At("write", TRUE, runner.before,
                                {f \in Files : runner.before[f] # 0})
           \/ ~runner.existed /\ control' = "absent" /\ runner' = Idle
  /\ UNCHANGED <<entry, loose, written>>

WriteBack(f) ==
  /\ runner.step = "write" /\ f \in runner.left
  /\ entry' = [entry EXCEPT ![f] = runner.before[f]]
  /\ runner' = At("write", TRUE, runner.before, runner.left \ {f})
  /\ UNCHANGED <<control, loose, written>>

\* The command counts as failed; the host goes on.
Repaired ==
  /\ runner.step = "write" /\ runner.left = {}
  /\ runner' = Idle
  /\ UNCHANGED <<control, entry, loose, written>>

\* The repair catches a ValueError only: a directory the command has made
\* unreadable or unwritable, or a full disk, makes it raise where it is, with
\* some entries removed, or some rewritten and one perhaps in part.  The command
\* has failed for this other reason, and the host goes on.
RepairRaises ==
  /\ "denied" \in Faults
  /\ runner.step \in {"compare", "remove", "write"}
  /\ \/ UNCHANGED entry
     \/ /\ runner.step = "write"
        /\ \E f \in runner.left : entry' = [entry EXCEPT ![f] = Foreign]
  /\ runner' = Idle
  /\ UNCHANGED <<control, loose, written>>

HostDies ==
  /\ "dies" \in Faults
  /\ runner' = Idle
  /\ UNCHANGED <<control, entry, loose, written>>

Next ==
  \/ \E f \in Files : HostWrites(f) \/ Remove(f) \/ WriteBack(f)
  \/ BeginCommand \/ CommandWrites \/ CommandEnds
  \/ Compare \/ Recreate \/ Repaired \/ RepairRaises \/ HostDies

Spec == Init /\ [][Next]_vars

-----------------------------------------------------------------------------
TypeOK ==
  /\ control \in {"absent", "directory", "other"}
  /\ entry \in [Files -> Entries]
  /\ runner \in Runners \cup {Idle}
  /\ loose \in BOOLEAN
  /\ written \in [Files -> Versions]

\* Whenever no command runs, each file is what the host last wrote: no command
\* leaves a trace in the control directory and none costs the host a write
\* (run_command; HISTORY.md is "append-only", project_state.py:163).
OwnedFilesAreKept == runner = Idle => entry = written

=============================================================================
