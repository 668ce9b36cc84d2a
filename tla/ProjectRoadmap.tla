---------------------------- MODULE ProjectRoadmap ----------------------------
(***************************************************************************)
(* The project-local roadmap, .ai-workflow/ROADMAP.md and HISTORY.md.      *)
(* Every change of it loads the roadmap, replaces the roadmap file, reads  *)
(* the history and replaces the history file.  Each replacement is atomic; *)
(* the sequence is not, and of its callers only the one that advances the  *)
(* roadmap holds self.lock.                                                *)
(***************************************************************************)
EXTENDS Naturals, Sequences, SequencesExt, FiniteSetsExt, Functions

CONSTANTS
  Positions,    \* (phase, stage) pairs
  NoPosition,
  Roadmaps,     \* the roadmaps planning and course changes may name
  Workers,      \* threads that process replies
  Deciders,     \* threads that resolve approvals: the main one, Telegram's
  Overlap,      \* may a thread begin while another is inside an operation?
  MaxRevision   \* bound on revisions and on history entries

ASSUME PositionAssumption == NoPosition \notin Positions
ASSUME RoadmapAssumption  == Roadmaps \subseteq Seq(Positions) \ {<<>>}
ASSUME BoundAssumption    == Overlap \in BOOLEAN /\ MaxRevision \in Nat

Writers == Workers \cup Deciders

VARIABLES
  file,     \* ROADMAP.md: its machine state, or NoFile
  history,  \* HISTORY.md: its entries
  config,   \* the phase and stage in self.config
  review,   \* the course change that waits for a decision, or NoReview
  writer,   \* each thread's place in the operation it performs
  told      \* ghost: the position the last approval named to the model

vars == <<file, history, config, review, writer, told>>

NoFile == [status |-> "unplanned"]
StatesWith(status, positions) ==
  [roadmap : Roadmaps, current : positions, completed : SUBSET Positions,
   status : {status}, revision : Nat]
States == StatesWith("active", Positions)
            \cup StatesWith("complete", {NoPosition})
NoReview == [replacement |-> <<>>, proposed |-> NoPosition, open |-> FALSE]
Reviews  == [replacement : Roadmaps \cup {<<>>},
             proposed : Positions \cup {NoPosition}, open : {TRUE}]

Idle == [step |-> "idle"]

Init ==
  /\ file = NoFile /\ history = <<>>
  /\ config = NoPosition /\ told = NoPosition
  /\ review = NoReview
  /\ writer = [w \in Writers |-> Idle]

-----------------------------------------------------------------------------
Stages(state)   == Range(state.roadmap)
Revision(state) == IF state = NoFile THEN 0 ELSE state.revision
Current(state)  == IF state = NoFile THEN NoPosition ELSE state.current

\* _next_pair; positions.index finds the first occurrence.
NextOf(state) ==
  LET i == SelectInSeq(state.roadmap, LAMBDA p : p = state.current)
  IN IF i \in 1 .. Len(state.roadmap) - 1 THEN state.roadmap[i + 1]
                                          ELSE NoPosition

\* initialize_project_state.
Planned(roadmap, preferred) ==
  [roadmap |-> roadmap, completed |-> {}, status |-> "active", revision |-> 1,
   current |-> IF preferred \in Range(roadmap) THEN preferred ELSE roadmap[1]]

\* advance_project_state, past its checks.
Advanced(state, target) ==
  [roadmap |-> state.roadmap, current |-> target, status |-> "active",
   completed |-> state.completed \cup {state.current},
   revision |-> state.revision + 1]

\* complete_project_state.
Completed(state) ==
  [roadmap |-> state.roadmap, current |-> NoPosition, status |-> "complete",
   completed |-> state.completed \cup ({state.current} \ {NoPosition}),
   revision |-> state.revision + 1]

\* Slip: no default when every position is complete.
FirstOpenOrNone(roadmap, completed) ==
  LET i == SelectInSeq(roadmap, LAMBDA p : p \notin completed)
  IN IF i = 0 THEN NoPosition ELSE roadmap[i]

FirstOpen(roadmap, completed) ==
  LET i == SelectInSeq(roadmap, LAMBDA p : p \notin completed)
  IN roadmap[Max({1, i})]

\* apply_course_change: the proposed position, if the roadmap has it, else the
\* old one while it is open, else the first open one.
ChangedTo(state, roadmap, proposed, completed) ==
  [roadmap |-> roadmap, completed |-> completed, status |-> "active",
   revision |-> state.revision + 1,
   current |->
     IF proposed \in Range(roadmap) THEN proposed
     ELSE IF state.current \in Range(roadmap) \ completed THEN state.current
     ELSE FirstOpen(roadmap, completed)]

Approved(r, state) ==
  IF r.replacement = <<>> THEN state.roadmap ELSE r.replacement

\* Slips: dropped stages stay in the list, or the list starts again.
ChangedKeepingAll(state, r) ==
  ChangedTo(state, Approved(r, state), r.proposed, state.completed)
ChangedAfresh(state, r) ==
  ChangedTo(state, Approved(r, state), r.proposed, {})

\* Slip: an open stage stays current whatever is proposed.
ChangedStaying(state, r) ==
  LET roadmap == Approved(r, state)
      completed == state.completed \cap Range(roadmap)
  IN ChangedTo(state, roadmap,
               IF state.current \in Range(roadmap) \ completed
                 THEN state.current ELSE r.proposed,
               completed)

Changed(state, r) ==
  LET roadmap == Approved(r, state)
  IN ChangedTo(state, roadmap, r.proposed, state.completed \cap Range(roadmap))

-----------------------------------------------------------------------------
\* Advancing holds self.lock from the reply's locked half to its end.
Locked == \E w \in Writers :
            writer[w].step # "idle" /\ writer[w].op = "advance"

MayBegin(w) ==
  /\ writer[w] = Idle
  /\ Overlap \/ \A v \in Writers : writer[v] = Idle
  /\ Len(history) < MaxRevision
  /\ Revision(file) < MaxRevision

Goes(w, place) == writer' = [writer EXCEPT ![w] = place]

\* An operation that has checked, and will load the roadmap itself.
Checked(op, target) == [step |-> "checked", op |-> op, target |-> target]

\* It has built the new state, and has yet to replace the roadmap file.
Built(op, state, proposed) ==
  [step |-> "built", op |-> op, state |-> state, proposed |-> proposed]

\* The roadmap file is replaced; the history is read and replaced next.
Written(place) == [step |-> "written", op |-> place.op,
                   at |-> place.state.current, proposed |-> place.proposed]
At(place, step) == [place EXCEPT !.step = step]

Entry(op, position) == [event |-> op, at |-> position]

\* A planning reply; a roadmap that exists is kept.
Plan(w) ==
  /\ MayBegin(w) /\ w \in Workers /\ file = NoFile
  /\ \E roadmap \in Roadmaps, preferred \in Positions \cup {NoPosition} :
       Goes(w, Built("plan", Planned(roadmap, preferred), NoPosition))
  /\ UNCHANGED <<file, history, config, review, told>>

\* A contract names a position: _maybe_apply_canonical_transition.
Contract(w) ==
  /\ MayBegin(w) /\ w \in Workers /\ ~Locked /\ file # NoFile
  /\ \E target \in Positions :
       \/ target = file.current /\ config' = target /\ UNCHANGED writer
       \/ target # file.current /\ Goes(w, Checked("advance", target))
            /\ UNCHANGED config
  /\ UNCHANGED <<file, history, review, told>>

\* advance_project_state; what it refuses is dropped by the caller.
Advance(w) ==
  /\ writer[w].step = "checked" /\ writer[w].op = "advance"
  /\ LET target == writer[w].target
     IN \/ /\ target = file.current
           /\ Goes(w, At(Written(Built("advance", file, NoPosition)), "saved"))
        \/ /\ target = NextOf(file)
           /\ file.current # target
           /\ Goes(w, Built("advance", Advanced(file, target), NoPosition))
        \/ /\ target \notin {file.current, NextOf(file)}
           /\ Goes(w, Idle)
  /\ UNCHANGED <<file, history, config, review, told>>

\* PROJECT_DONE while finishing.
Closeout(w) ==
  /\ MayBegin(w) /\ w \in Workers
  /\ file # NoFile /\ file.status # "complete"
  /\ Goes(w, Checked("complete", NoPosition))
  /\ UNCHANGED <<file, history, config, review, told>>

Complete(w) ==
  /\ writer[w].step = "checked" /\ writer[w].op = "complete"
  /\ Goes(w, Built("complete", Completed(file), NoPosition))
  /\ UNCHANGED <<file, history, config, review, told>>

\* A course-change review asks for a decision.  Bound: one at a time.
Propose ==
  /\ ~Locked /\ \A d \in Deciders : writer[d] = Idle
  /\ review = NoReview /\ review' \in Reviews
  /\ UNCHANGED <<file, history, config, writer, told>>

\* resolve_approval, approving, before it takes the lock.  With no roadmap to
\* change and none proposed it raises.
Approve(w) ==
  /\ MayBegin(w) /\ w \in Deciders /\ review # NoReview
  /\ LET change(state) == Built("change", state, review.proposed)
     IN \/ file # NoFile /\ Goes(w, change(Changed(file, review)))
        \/ /\ file = NoFile /\ review.replacement # <<>>
           /\ Goes(w, change(Planned(review.replacement, review.proposed)))
  /\ UNCHANGED <<file, history, config, review, told>>

Reject ==
  /\ ~Locked /\ review # NoReview /\ review' = NoReview
  /\ UNCHANGED <<file, history, config, writer, told>>

-----------------------------------------------------------------------------
\* Slip: the history is appended before the roadmap is replaced.
WriteHistoryFirst(w) ==
  /\ writer[w].step = "built"
  /\ history' = Append(history, Entry(writer[w].op, writer[w].state.current))
  /\ Goes(w, Written(writer[w]))
  /\ UNCHANGED <<file, config, review, told>>

\* _write_state.
WriteState(w) ==
  /\ writer[w].step = "built"
  /\ file' = writer[w].state
  /\ Goes(w, Written(writer[w]))
  /\ UNCHANGED <<history, config, review, told>>

\* _append_history.
ReadHistory(w) ==
  /\ writer[w].step = "written"
  /\ Goes(w, [step |-> "read", op |-> writer[w].op, at |-> writer[w].at,
              proposed |-> writer[w].proposed, text |-> history])
  /\ UNCHANGED <<file, history, config, review, told>>

WriteHistory(w) ==
  /\ writer[w].step = "read"
  /\ history' = Append(writer[w].text, Entry(writer[w].op, writer[w].at))
  /\ Goes(w, IF writer[w].op \in {"advance", "change"}
               THEN [step |-> "saved", op |-> writer[w].op, at |-> writer[w].at,
                     proposed |-> writer[w].proposed] ELSE Idle)
  /\ UNCHANGED <<file, config, review, told>>

\* The caller's save_config: of the position advanced to, or of what the file
\* says after the course change.
SaveConfig(w) ==
  /\ writer[w].step = "saved"
  /\ \/ /\ writer[w].op = "advance"
        /\ config' = writer[w].at /\ Goes(w, Idle)
     \/ /\ writer[w].op = "change"
        /\ config' = Current(file) /\ Goes(w, At(writer[w], "tell"))
  /\ UNCHANGED <<file, history, review, told>>

\* The locked half of resolve_approval, for the decider that finds the
\* approval still pending: the proposed position goes into the config and from
\* there into the prompt, and then state() reads the file again.
Tell(w) ==
  /\ writer[w].step = "tell" /\ ~Locked
  /\ Goes(w, Idle)
  /\ \/ review = NoReview /\ UNCHANGED <<config, review, told>>
     \/ /\ review # NoReview /\ review' = NoReview
        /\ LET proposed == writer[w].proposed
           IN told' = IF proposed # NoPosition THEN proposed ELSE config
        /\ config' = Current(file)
  /\ UNCHANGED <<file, history>>

\* _sync_from_project_state, by whoever publishes the state.
Sync ==
  /\ file # NoFile /\ config' = file.current
  /\ UNCHANGED <<file, history, review, writer, told>>

\* The file system raises.
Raise(w) ==
  /\ writer[w].step \in {"checked", "built", "written", "read"}
  /\ Goes(w, Idle)
  /\ UNCHANGED <<file, history, config, review, told>>

\* The host dies; approvals expire when it starts again.
Restart ==
  /\ writer' = [w \in Writers |-> Idle] /\ review' = NoReview
  /\ UNCHANGED <<file, history, config, told>>

Perform(w) ==
  \/ Plan(w) \/ Contract(w) \/ Advance(w) \/ Closeout(w) \/ Complete(w)
  \/ Approve(w)
  \/ WriteState(w) \/ ReadHistory(w) \/ WriteHistory(w)
  \/ SaveConfig(w) \/ Tell(w) \/ Raise(w)

Next == (\E w \in Writers : Perform(w)) \/ Propose \/ Reject \/ Sync \/ Restart

Spec == Init /\ [][Next]_vars

-----------------------------------------------------------------------------
TypeOK ==
  /\ file \in {NoFile} \cup States
  /\ history \in Seq([event : {"plan", "advance", "complete", "change"},
                      at : Positions \cup {NoPosition}])
  /\ {config, told} \subseteq Positions \cup {NoPosition}
  /\ review \in {NoReview} \cup Reviews

\* The roadmap file always describes one roadmap: its current position and its
\* completed stages are on it (every write of _write_state, from whatever
\* snapshot of the file it was built).
RoadmapIsConsistent ==
  file # NoFile =>
    /\ file.completed \subseteq Stages(file)
    /\ file.status = "active" => file.current \in Stages(file)

\* No step forgets that a stage was completed while the roadmap still has it:
\* a course change, a closeout, a crash or a second plan (apply_course_change
\* and the callers of initialize_project_state).
CompletedWorkIsKept ==
  [][file # NoFile =>
       file.completed \cap Stages(file') \subseteq file'.completed]_vars

\* The history records no change the roadmap file does not have, wherever an
\* operation stopped (_write_state before _append_history).
HistoryIsNeverAhead == Len(history) <= Revision(file)

\* An approved course change names to the model the position the roadmap file
\* has now, unless the roadmap does not have the proposed one (ApprovalMixin,
\* after apply_course_change).
ToldIsCurrentIfPlanned ==
  [][told' # told /\ told' \in Stages(file) => told' = Current(file)]_vars

=============================================================================
