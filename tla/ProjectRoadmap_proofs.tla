------------------------- MODULE ProjectRoadmap_proofs -------------------------
(***************************************************************************)
(* What the two roadmap files always describe, proved for every roadmap,   *)
(* any number of threads, and with every overlap of their operations.      *)
(***************************************************************************)
EXTENDS ProjectRoadmap, NaturalsInduction, WellFoundedInduction, TLAPS

Ops     == {"plan", "advance", "complete", "change"}
Marks   == Positions \cup {NoPosition}
Entries == [event : Ops, at : Marks]

\* A roadmap file, or one that is about to be written, describes one roadmap.
Consistent(state) ==
  /\ state.completed \subseteq Stages(state)
  /\ state.status = "active" => state.current \in Stages(state)
GoodStates == {s \in States : Consistent(s)}

\* What a thread knows at each step of an operation.
Places ==
  {Idle}
  \cup [step : {"checked"}, op : {"advance"}, target : Positions]
  \cup [step : {"checked"}, op : {"complete"}, target : {NoPosition}]
  \cup [step : {"built"}, op : Ops, state : GoodStates, proposed : Marks]
  \cup [step : {"written"}, op : Ops, at : Marks, proposed : Marks]
  \cup [step : {"read"}, op : Ops, at : Marks, proposed : Marks,
        text : Seq(Entries)]
  \cup [step : {"saved", "tell"}, op : {"advance", "change"}, at : Marks,
        proposed : Marks]

\* The inductive invariant: the roadmap file is consistent and so is every
\* state some thread is about to replace it with.  A thread that has checked
\* has a roadmap to load: no step removes the file.
FilesInv ==
  /\ file \in {NoFile} \cup GoodStates
  /\ history \in Seq(Entries)
  /\ {config, told} \subseteq Marks
  /\ review \in {NoReview} \cup Reviews
  /\ writer \in [Writers -> Places]
  /\ \A w \in Writers : writer[w].step = "checked" => file # NoFile

-----------------------------------------------------------------------------
\* What the operators on roadmaps return.

LEMMA RoadmapNotEmpty ==
  ASSUME NEW r \in Roadmaps
  PROVE  r \in Seq(Positions) /\ Len(r) \in Nat \ {0} /\ r[1] \in Range(r)
BY RoadmapAssumption DEF Range

\* A state's fields.
LEMMA StateFields ==
  ASSUME NEW s \in States
  PROVE  /\ s.roadmap \in Roadmaps /\ s.completed \in SUBSET Positions
         /\ s.current \in Marks /\ s.revision \in Nat
         /\ s.status \in {"active", "complete"}
         /\ s.status = "active" => s.current \in Positions
         /\ s.status = "complete" => s.current = NoPosition
         /\ s # NoFile
         /\ Stages(s) \subseteq Positions
<1>1. s.roadmap \in Seq(Positions)
  BY RoadmapAssumption DEF States, StatesWith
<1> QED BY <1>1 DEF States, StatesWith, Marks, NoFile, Stages, Range

\* _next_pair returns a position of the roadmap or none.
LEMMA NextOfOnRoadmap ==
  ASSUME NEW s \in States
  PROVE  NextOf(s) \in Stages(s) \cup {NoPosition}
<1>1. s.roadmap \in Seq(Positions)
  BY RoadmapAssumption, StateFields
<1> DEFINE I == {i \in 1 .. Len(s.roadmap) : s.roadmap[i] = s.current}
<1> DEFINE first == IF I # {} THEN Min(I) ELSE 0
<1>2. NextOf(s) = IF first \in 1 .. Len(s.roadmap) - 1
                    THEN s.roadmap[first + 1] ELSE NoPosition
  BY DEF NextOf, SelectInSeq
<1> HIDE DEF first
<1> QED BY <1>1, <1>2 DEF Stages, Range

\* The first index of a nonempty set of indices is one of them.
LEMMA MinIsMember ==
  ASSUME NEW S \in SUBSET Nat, S # {}
  PROVE  Min(S) \in S
<1> DEFINE Below == {p \in Nat \X Nat : p[1] < p[2]}
<1>1. IsWellFoundedOn(Below, Nat)
  BY NatLessThanWellFounded DEF OpToRel
<1>2. PICK n \in S : \A m \in S : ~(<<m, n>> \in Below)
  <2> HIDE DEF Below
  <2> QED BY <1>1, WFMin
<1>3. ASSUME NEW m \in S PROVE n <= m
  <2>1. ~(m < n)
    BY <1>2
  <2> QED BY <2>1
<1> QED BY <1>3 DEF Min

LEMMA FirstOpenOnRoadmap ==
  ASSUME NEW r \in Roadmaps, NEW completed
  PROVE  FirstOpen(r, completed) \in Range(r)
<1> DEFINE I == {i \in 1 .. Len(r) : r[i] \notin completed}
<1> DEFINE first == IF I # {} THEN Min(I) ELSE 0
<1>1. r \in Seq(Positions) /\ Len(r) \in Nat \ {0}
  BY RoadmapNotEmpty
<1>2. first \in 0 .. Len(r)
  <2>1. I # {} => Min(I) \in I
    <3>1. I \in SUBSET Nat
      BY <1>1
    <3> HIDE DEF I
    <3> QED BY <3>1, MinIsMember
  <2> QED BY <1>1, <2>1
<1>3. FirstOpen(r, completed) = r[Max({1, first})]
  BY DEF FirstOpen, SelectInSeq
<1>4. Max({1, first}) \in 1 .. Len(r)
  <2> HIDE DEF first
  <2>1. \E x \in {1, first} : \A y \in {1, first} : x >= y
    BY <1>2
  <2>2. Max({1, first}) \in {1, first} /\ Max({1, first}) >= 1
    BY <2>1 DEF Max
  <2> QED BY <1>1, <1>2, <2>2
<1> HIDE DEF first
<1> QED BY <1>1, <1>3, <1>4 DEF Range

-----------------------------------------------------------------------------
\* Each operation builds a consistent state from a consistent one.

LEMMA PlannedIsGood ==
  ASSUME NEW r \in Roadmaps, NEW preferred
  PROVE  Planned(r, preferred) \in GoodStates
<1>1. r[1] \in Range(r) /\ Range(r) \subseteq Positions
  BY RoadmapNotEmpty DEF Range
<1> QED BY <1>1 DEF Planned, GoodStates, States, StatesWith, Consistent, Stages

LEMMA AdvancedIsGood ==
  ASSUME NEW s \in GoodStates, NEW target \in Positions, target = NextOf(s)
  PROVE  Advanced(s, target) \in GoodStates
<1>1. s \in States /\ Consistent(s)
  BY DEF GoodStates
<1>2. target \in Stages(s)
  BY <1>1, NextOfOnRoadmap, PositionAssumption
<1>3. s.current \in Stages(s)
  <2>1. CASE s.status = "active"
    BY <1>1, <2>1 DEF Consistent
  <2>2. CASE s.status = "complete"
    <3>1. s.current = NoPosition /\ s.roadmap \in Seq(Positions)
      BY <1>1, <2>2, StateFields, RoadmapAssumption
    <3>2. {i \in 1 .. Len(s.roadmap) : s.roadmap[i] = s.current} = {}
      BY <3>1, PositionAssumption
    <3>3. NextOf(s) = NoPosition
      BY <3>2 DEF NextOf, SelectInSeq
    <3> QED BY <3>3, PositionAssumption
  <2> QED BY <1>1, <2>1, <2>2, StateFields
<1> DEFINE t == Advanced(s, target)
<1>4. t \in StatesWith("active", Positions)
  BY <1>1, <1>3, StateFields DEF Advanced, StatesWith
<1> QED BY <1>1, <1>2, <1>3, <1>4
       DEF Advanced, GoodStates, Consistent, Stages, States

LEMMA CompletedIsGood ==
  ASSUME NEW s \in GoodStates
  PROVE  Completed(s) \in GoodStates
<1>1. s \in States /\ Consistent(s)
  BY DEF GoodStates
<1> DEFINE t == Completed(s)
<1>2. t \in StatesWith("complete", {NoPosition})
  <2>1. s.current \in Positions \cup {NoPosition}
    BY <1>1, StateFields DEF Marks
  <2> QED BY <1>1, <2>1, StateFields DEF Completed, StatesWith
<1>3. t.completed \subseteq Stages(s)
  BY <1>1, StateFields DEF Completed, Consistent
<1> QED BY <1>2, <1>3 DEF Completed, GoodStates, Consistent, Stages, States

LEMMA ChangedIsGood ==
  ASSUME NEW s \in GoodStates, NEW r \in Reviews
  PROVE  Changed(s, r) \in GoodStates
<1>1. s \in States
  BY DEF GoodStates
<1> DEFINE roadmap == Approved(r, s)
<1> DEFINE t == Changed(s, r)
<1>2. roadmap \in Roadmaps
  BY <1>1, StateFields DEF Approved, Reviews
<1>3. Range(roadmap) \subseteq Positions
  BY <1>2, RoadmapNotEmpty DEF Range
<1>4. FirstOpen(roadmap, s.completed \cap Range(roadmap)) \in Range(roadmap)
  BY <1>2, FirstOpenOnRoadmap
<1> HIDE DEF roadmap
<1>5. /\ t.roadmap = roadmap /\ t.status = "active"
      /\ t.completed = s.completed \cap Range(roadmap)
      /\ t.current \in Range(roadmap)
      /\ t \in StatesWith("active", Positions)
  BY <1>1, <1>2, <1>3, <1>4, StateFields
     DEF Changed, ChangedTo, StatesWith, roadmap
<1> QED BY <1>5 DEF GoodStates, Consistent, Stages, States

-----------------------------------------------------------------------------
\* The local variables of a thread inside an operation.
LEMMA PlaceFields ==
  ASSUME FilesInv, NEW w \in Writers
  PROVE  /\ writer[w].step = "checked" =>
              \/ writer[w].op = "advance" /\ writer[w].target \in Positions
              \/ writer[w].op = "complete"
         /\ writer[w].step = "built" =>
              /\ writer[w].op \in Ops /\ writer[w].proposed \in Marks
              /\ writer[w].state \in GoodStates
         /\ writer[w].step \in {"written", "read"} =>
              /\ writer[w].op \in Ops /\ writer[w].at \in Marks
              /\ writer[w].proposed \in Marks
         /\ writer[w].step = "read" => writer[w].text \in Seq(Entries)
         /\ writer[w].step \in {"saved", "tell"} =>
              /\ writer[w].op \in {"advance", "change"}
              /\ writer[w].at \in Marks /\ writer[w].proposed \in Marks
              /\ writer[w] = [step |-> writer[w].step, op |-> writer[w].op,
                              at |-> writer[w].at,
                              proposed |-> writer[w].proposed]
<1>1. writer[w] \in Places
  BY DEF FilesInv
<1> QED BY <1>1 DEF Places, Idle

LEMMA GoodStateMarks ==
  ASSUME NEW s \in GoodStates
  PROVE  s \in States /\ s # NoFile /\ s.current \in Marks
BY StateFields DEF GoodStates

\* One thread goes to a place it may be in; nobody removes the file.
LEMMA GoesPreserves ==
  ASSUME FilesInv, NEW w \in Writers, NEW place \in Places, Goes(w, place),
         file # NoFile => file' # NoFile,
         place.step = "checked" => file' # NoFile
  PROVE  /\ writer' \in [Writers -> Places]
         /\ \A v \in Writers : writer'[v].step = "checked" => file' # NoFile
BY DEF FilesInv, Goes

\* The steps that change nothing but their thread's place.
LEMMA OnlyGoes ==
  ASSUME FilesInv, NEW w \in Writers, NEW place \in Places, Goes(w, place),
         UNCHANGED <<file, history, config, review, told>>,
         place.step = "checked" => file # NoFile
  PROVE  FilesInv'
<1>1. /\ writer' \in [Writers -> Places]
      /\ \A v \in Writers : writer'[v].step = "checked" => file' # NoFile
  BY GoesPreserves
<1> QED BY <1>1 DEF FilesInv

LEMMA BuiltIsPlace ==
  ASSUME NEW op \in Ops, NEW s \in GoodStates, NEW proposed \in Marks
  PROVE  /\ Built(op, s, proposed) \in Places
         /\ Built(op, s, proposed).step = "built"
BY DEF Built, Places

LEMMA IdleIsPlace == Idle \in Places /\ Idle.step = "idle"
BY DEF Places, Idle

-----------------------------------------------------------------------------
\* Planning, and the first half of every other operation.

LEMMA PlanPreserves ==
  ASSUME FilesInv, NEW w \in Writers, Plan(w)
  PROVE  FilesInv'
<1>1. PICK r \in Roadmaps, p \in Positions \cup {NoPosition} :
        Goes(w, Built("plan", Planned(r, p), NoPosition))
  BY DEF Plan
<1>2. Planned(r, p) \in GoodStates
  BY PlannedIsGood
<1>3. /\ Built("plan", Planned(r, p), NoPosition) \in Places
      /\ Built("plan", Planned(r, p), NoPosition).step = "built"
  BY <1>2, BuiltIsPlace DEF Ops, Marks
<1>4. UNCHANGED <<file, history, config, review, told>>
  BY DEF Plan
<1> QED BY <1>1, <1>3, <1>4, OnlyGoes

LEMMA ContractPreserves ==
  ASSUME FilesInv, NEW w \in Writers, Contract(w)
  PROVE  FilesInv'
<1>1. PICK target \in Positions :
        \/ target = file.current /\ config' = target /\ UNCHANGED writer
        \/ target # file.current /\ Goes(w, Checked("advance", target))
             /\ UNCHANGED config
  BY DEF Contract
<1>2. file # NoFile /\ UNCHANGED <<file, history, review, told>>
  BY DEF Contract
<1>3. CASE config' = target /\ UNCHANGED writer
  BY <1>2, <1>3 DEF FilesInv, Marks
<1>4. CASE Goes(w, Checked("advance", target)) /\ UNCHANGED config
  <2>1. Checked("advance", target) \in Places
    BY DEF Checked, Places
  <2> QED BY <1>2, <1>4, <2>1, OnlyGoes
<1> QED BY <1>1, <1>3, <1>4

LEMMA AdvancePreserves ==
  ASSUME FilesInv, NEW w \in Writers, Advance(w)
  PROVE  FilesInv'
<1> DEFINE target == writer[w].target
<1>1. UNCHANGED <<file, history, config, review, told>>
  BY DEF Advance
<1>2. target \in Positions /\ file \in GoodStates
  BY PlaceFields DEF Advance, FilesInv
<1>3. CASE Goes(w, At(Written(Built("advance", file, NoPosition)), "saved"))
  <2>1. At(Written(Built("advance", file, NoPosition)), "saved")
          = [step |-> "saved", op |-> "advance", at |-> file.current,
             proposed |-> NoPosition]
    BY DEF At, Written, Built
  <2>2. [step |-> "saved", op |-> "advance", at |-> file.current,
         proposed |-> NoPosition] \in Places
    BY <1>2, GoodStateMarks DEF Places, Marks
  <2> QED BY <1>1, <1>3, <2>1, <2>2, OnlyGoes
<1>4. CASE /\ target = NextOf(file)
           /\ Goes(w, Built("advance", Advanced(file, target), NoPosition))
  <2>1. Advanced(file, target) \in GoodStates
    BY <1>2, <1>4, AdvancedIsGood
  <2>2. /\ Built("advance", Advanced(file, target), NoPosition) \in Places
        /\ Built("advance", Advanced(file, target), NoPosition).step = "built"
    BY <2>1, BuiltIsPlace DEF Ops, Marks
  <2> QED BY <1>1, <1>4, <2>2, OnlyGoes
<1>5. CASE Goes(w, Idle)
  BY <1>1, <1>5, IdleIsPlace, OnlyGoes
<1> QED BY <1>3, <1>4, <1>5 DEF Advance

LEMMA CloseoutPreserves ==
  ASSUME FilesInv, NEW w \in Writers, Closeout(w) \/ Complete(w)
  PROVE  FilesInv'
<1>1. UNCHANGED <<file, history, config, review, told>>
  BY DEF Closeout, Complete
<1>2. CASE Closeout(w)
  <2>1. Checked("complete", NoPosition) \in Places
    BY DEF Checked, Places
  <2>2. file # NoFile /\ Goes(w, Checked("complete", NoPosition))
    BY <1>2 DEF Closeout
  <2> QED BY <1>1, <2>1, <2>2, OnlyGoes
<1>3. CASE Complete(w)
  <2>1. file \in GoodStates
    BY <1>3 DEF Complete, FilesInv
  <2>2. Completed(file) \in GoodStates
    BY <2>1, CompletedIsGood
  <2>3. /\ Built("complete", Completed(file), NoPosition) \in Places
        /\ Built("complete", Completed(file), NoPosition).step = "built"
    BY <2>2, BuiltIsPlace DEF Ops, Marks
  <2>4. Goes(w, Built("complete", Completed(file), NoPosition))
    BY <1>3 DEF Complete
  <2> QED BY <1>1, <2>3, <2>4, OnlyGoes
<1> QED BY <1>2, <1>3

LEMMA ApprovePreserves ==
  ASSUME FilesInv, NEW w \in Writers, Approve(w)
  PROVE  FilesInv'
<1>1. review \in Reviews /\ review.proposed \in Marks
  BY DEF Approve, FilesInv, Reviews, Marks
<1>2. UNCHANGED <<file, history, config, review, told>>
  BY DEF Approve
<1>3. ASSUME NEW s \in GoodStates,
             Goes(w, Built("change", s, review.proposed))
      PROVE  FilesInv'
  <2>1. /\ Built("change", s, review.proposed) \in Places
        /\ Built("change", s, review.proposed).step = "built"
    BY <1>1, BuiltIsPlace DEF Ops
  <2> QED BY <1>2, <1>3, <2>1, OnlyGoes
<1>4. CASE file # NoFile
  <2>1. Changed(file, review) \in GoodStates
    BY <1>1, <1>4, ChangedIsGood DEF FilesInv
  <2> QED BY <1>3, <1>4, <2>1 DEF Approve
<1>5. CASE file = NoFile
  <2>1. review.replacement \in Roadmaps
    BY <1>1, <1>5 DEF Approve, Reviews
  <2>2. Planned(review.replacement, review.proposed) \in GoodStates
    BY <2>1, PlannedIsGood
  <2> QED BY <1>3, <1>5, <2>2 DEF Approve
<1> QED BY <1>4, <1>5

-----------------------------------------------------------------------------
\* The two files, the configuration and the approval.

LEMMA WriteStatePreserves ==
  ASSUME FilesInv, NEW w \in Writers, WriteState(w)
  PROVE  FilesInv'
<1>1. /\ writer[w].op \in Ops /\ writer[w].proposed \in Marks
      /\ writer[w].state \in GoodStates
  BY PlaceFields DEF WriteState
<1>2. Written(writer[w]) \in Places /\ Written(writer[w]).step = "written"
  BY <1>1, GoodStateMarks DEF Written, Places
<1>3. /\ file' = writer[w].state /\ Goes(w, Written(writer[w]))
      /\ UNCHANGED <<history, config, review, told>>
  BY DEF WriteState
<1>4. file' \in GoodStates /\ file' # NoFile
  BY <1>1, <1>3, GoodStateMarks
<1>5. /\ writer' \in [Writers -> Places]
      /\ \A v \in Writers : writer'[v].step = "checked" => file' # NoFile
  BY <1>2, <1>3, <1>4, GoesPreserves
<1> QED BY <1>3, <1>4, <1>5 DEF FilesInv

LEMMA HistoryPreserves ==
  ASSUME FilesInv, NEW w \in Writers, ReadHistory(w) \/ WriteHistory(w)
  PROVE  FilesInv'
<1>1. CASE ReadHistory(w)
  <2> DEFINE place == [step |-> "read", op |-> writer[w].op,
                       at |-> writer[w].at, proposed |-> writer[w].proposed,
                       text |-> history]
  <2>1. place \in Places
    BY <1>1, PlaceFields DEF ReadHistory, Places, FilesInv
  <2>2. Goes(w, place) /\ UNCHANGED <<file, history, config, review, told>>
    BY <1>1 DEF ReadHistory
  <2> QED BY <2>1, <2>2, OnlyGoes
<1>2. CASE WriteHistory(w)
  <2>1. /\ writer[w].op \in Ops /\ writer[w].at \in Marks
        /\ writer[w].proposed \in Marks /\ writer[w].text \in Seq(Entries)
    BY <1>2, PlaceFields DEF WriteHistory
  <2>2. Entry(writer[w].op, writer[w].at) \in Entries
    BY <2>1 DEF Entry, Entries
  <2>3. history' \in Seq(Entries)
    BY <1>2, <2>1, <2>2 DEF WriteHistory
  <2> DEFINE place == IF writer[w].op \in {"advance", "change"}
                        THEN [step |-> "saved", op |-> writer[w].op,
                              at |-> writer[w].at,
                              proposed |-> writer[w].proposed]
                        ELSE Idle
  <2>4. place \in Places /\ place.step # "checked"
    BY <2>1, IdleIsPlace DEF Places
  <2>5. Goes(w, place) /\ UNCHANGED <<file, config, review, told>>
    BY <1>2 DEF WriteHistory
  <2>6. /\ writer' \in [Writers -> Places]
        /\ \A v \in Writers : writer'[v].step = "checked" => file' # NoFile
    <3> HIDE DEF place
    <3> QED BY <2>4, <2>5, GoesPreserves
  <2> QED BY <2>3, <2>5, <2>6 DEF FilesInv
<1> QED BY <1>1, <1>2

LEMMA CurrentIsMark ==
  ASSUME FilesInv
  PROVE  Current(file) \in Marks
BY GoodStateMarks DEF FilesInv, Current, Marks

LEMMA SaveConfigPreserves ==
  ASSUME FilesInv, NEW w \in Writers, SaveConfig(w)
  PROVE  FilesInv'
<1>1. /\ writer[w].at \in Marks /\ writer[w].proposed \in Marks
      /\ writer[w] = [step |-> "saved", op |-> writer[w].op,
                      at |-> writer[w].at, proposed |-> writer[w].proposed]
  BY PlaceFields DEF SaveConfig
<1>2. UNCHANGED <<file, history, review, told>>
  BY DEF SaveConfig
<1>3. config' \in Marks
  BY <1>1, CurrentIsMark DEF SaveConfig
<1>4. \E place \in Places : Goes(w, place) /\ place.step # "checked"
  <2>1. CASE writer[w].op = "advance"
    BY <2>1, IdleIsPlace DEF SaveConfig
  <2>2. CASE writer[w].op = "change"
    <3> DEFINE place == [step |-> "tell", op |-> "change",
                         at |-> writer[w].at, proposed |-> writer[w].proposed]
    <3>1. At(writer[w], "tell") = place
      BY <1>1, <2>2 DEF At
    <3>2. place \in Places
      BY <1>1 DEF Places
    <3>3. Goes(w, place)
      BY <2>2, <3>1 DEF SaveConfig
    <3> QED BY <3>2, <3>3
  <2> QED BY <2>1, <2>2 DEF SaveConfig
<1>5. /\ writer' \in [Writers -> Places]
      /\ \A v \in Writers : writer'[v].step = "checked" => file' # NoFile
  BY <1>2, <1>4, GoesPreserves
<1> QED BY <1>2, <1>3, <1>5 DEF FilesInv

LEMMA TellPreserves ==
  ASSUME FilesInv, NEW w \in Writers, Tell(w)
  PROVE  FilesInv'
<1>1. UNCHANGED <<file, history>> /\ Goes(w, Idle)
  BY DEF Tell
<1>2. writer[w].proposed \in Marks
  BY PlaceFields DEF Tell
<1>3. {config', told'} \subseteq Marks /\ review' \in {NoReview} \cup Reviews
  BY <1>2, CurrentIsMark DEF Tell, FilesInv
<1>4. /\ writer' \in [Writers -> Places]
      /\ \A v \in Writers : writer'[v].step = "checked" => file' # NoFile
  BY <1>1, IdleIsPlace, GoesPreserves
<1> QED BY <1>1, <1>3, <1>4 DEF FilesInv

LEMMA RaisePreserves ==
  ASSUME FilesInv, NEW w \in Writers, Raise(w)
  PROVE  FilesInv'
BY IdleIsPlace, OnlyGoes DEF Raise

LEMMA NextPreserves ==
  ASSUME FilesInv, [Next]_vars
  PROVE  FilesInv'
<1>1. ASSUME NEW w \in Writers, Perform(w) PROVE FilesInv'
  BY <1>1, PlanPreserves, ContractPreserves, AdvancePreserves,
     CloseoutPreserves, ApprovePreserves, WriteStatePreserves,
     HistoryPreserves, SaveConfigPreserves, TellPreserves, RaisePreserves
     DEF Perform
<1>2. CASE Propose \/ Reject
  BY <1>2 DEF Propose, Reject, FilesInv
<1>3. CASE Sync
  BY <1>3, GoodStateMarks DEF Sync, FilesInv
<1>4. CASE Restart
  BY <1>4, IdleIsPlace DEF Restart, FilesInv
<1>5. CASE UNCHANGED vars
  BY <1>5 DEF vars, FilesInv
<1> QED BY <1>1, <1>2, <1>3, <1>4, <1>5 DEF Next

LEMMA InitFiles == Init => FilesInv
BY IdleIsPlace DEF Init, FilesInv, Marks

\* The files, the configuration, the approval and every thread's locals keep
\* their types, and whatever is about to replace the roadmap is consistent.
THEOREM FilesCorrect == Spec => []FilesInv
BY InitFiles, NextPreserves, PTL DEF Spec

\* Whatever the overlap of planning, advancing, closing out and changing
\* course, from whatever snapshot a thread built its roadmap, and wherever the
\* host stops: the roadmap file describes one roadmap.
THEOREM RoadmapAlwaysConsistent == Spec => []RoadmapIsConsistent
<1>1. FilesInv => RoadmapIsConsistent
  BY DEF FilesInv, GoodStates, Consistent, RoadmapIsConsistent
<1> QED BY <1>1, FilesCorrect, PTL

\* The same as a type invariant.
THEOREM FilesTypeCorrect == Spec => []TypeOK
<1>1. FilesInv => TypeOK
  BY DEF FilesInv, GoodStates, TypeOK, Marks, Entries, Ops
<1> QED BY <1>1, FilesCorrect, PTL

-----------------------------------------------------------------------------
\* One operation at a time.

Busy(w) == writer[w].step # "idle"

\* A successor forgets no completed stage it still has.
Keeps(old, new) ==
  old # NoFile => old.completed \cap Stages(new) \subseteq new.completed

\* What the one thread inside an operation carries to its next step: the
\* revision after the file's, and a history that lacks the change's entry.
AloneInv ==
  /\ FilesInv
  /\ \A v, w \in Writers : Busy(v) /\ Busy(w) => v = w
  /\ Len(history) <= Revision(file)
  /\ \A w \in Writers :
       /\ writer[w].step = "built" =>
            /\ Keeps(file, writer[w].state)
            /\ Revision(writer[w].state) = Revision(file) + 1
       /\ writer[w].step = "written" => Len(history) < Revision(file)
       /\ writer[w].step = "read" => Len(writer[w].text) < Revision(file)

LEMMA RevisionIsNat ==
  ASSUME FilesInv
  PROVE  Revision(file) \in Nat
BY StateFields DEF FilesInv, GoodStates, Revision

\* The thread that takes a step is the only one inside an operation then.
LEMMA Alone ==
  ASSUME AloneInv, NEW w \in Writers, NEW place \in Places,
         (MayBegin(w) /\ ~Overlap) \/ Busy(w), Goes(w, place)
  PROVE  /\ \A v \in Writers : v # w => ~Busy(v) /\ writer'[v].step = "idle"
         /\ writer'[w] = place
         /\ \A u, v \in Writers : Busy(u)' /\ Busy(v)' => u = v
<1>1. \A v \in Writers : v # w => writer[v].step = "idle"
  BY DEF AloneInv, Busy, MayBegin, Idle
<1>2. \A v \in Writers : writer'[v] = IF v = w THEN place ELSE writer[v]
  BY DEF Goes, AloneInv, FilesInv
<1> QED BY <1>1, <1>2 DEF Busy

\* A step that changes neither file keeps the invariant if its thread's new
\* place does.
LEMMA AloneGoes ==
  ASSUME AloneInv, FilesInv', NEW w \in Writers, NEW place \in Places,
         (MayBegin(w) /\ ~Overlap) \/ Busy(w), Goes(w, place),
         UNCHANGED <<file, history>>,
         place.step = "built" =>
           /\ Keeps(file, place.state)
           /\ Revision(place.state) = Revision(file) + 1,
         place.step = "written" => Len(history) < Revision(file),
         place.step = "read" => Len(place.text) < Revision(file)
  PROVE  AloneInv'
<1>1. /\ \A v \in Writers : v # w => writer'[v].step = "idle"
      /\ writer'[w] = place
      /\ \A u, v \in Writers : Busy(u)' /\ Busy(v)' => u = v
  BY Alone
<1> QED BY <1>1 DEF AloneInv

\* The four ways to build a successor count one revision and keep what is
\* complete.
LEMMA SuccessorsKeep ==
  ASSUME NEW s \in GoodStates
  PROVE  /\ \A target : /\ Keeps(s, Advanced(s, target))
                        /\ Revision(Advanced(s, target)) = Revision(s) + 1
         /\ Keeps(s, Completed(s)) /\ Revision(Completed(s)) = Revision(s) + 1
         /\ \A r \in Reviews : /\ Keeps(s, Changed(s, r))
                               /\ Revision(Changed(s, r)) = Revision(s) + 1
<1>1. s # NoFile /\ Revision(s) = s.revision
  BY GoodStateMarks DEF Revision
<1>2. ASSUME NEW target
      PROVE  /\ Keeps(s, Advanced(s, target))
             /\ Revision(Advanced(s, target)) = Revision(s) + 1
  BY <1>1 DEF Advanced, Keeps, Revision, NoFile
<1>3. Keeps(s, Completed(s)) /\ Revision(Completed(s)) = Revision(s) + 1
  BY <1>1 DEF Completed, Keeps, Revision, NoFile
<1>4. ASSUME NEW r \in Reviews
      PROVE  /\ Keeps(s, Changed(s, r))
             /\ Revision(Changed(s, r)) = Revision(s) + 1
  <2> DEFINE roadmap == Approved(r, s)
  <2>1. /\ Changed(s, r).roadmap = roadmap
        /\ Changed(s, r).completed = s.completed \cap Range(roadmap)
        /\ Changed(s, r).revision = s.revision + 1
    BY DEF Changed, ChangedTo
  <2>2. Changed(s, r) # NoFile
    BY ChangedIsGood, GoodStateMarks
  <2> HIDE DEF roadmap
  <2> QED BY <1>1, <2>1, <2>2 DEF Keeps, Revision, Stages
<1> QED BY <1>2, <1>3, <1>4

LEMMA FirstPlanKeeps ==
  ASSUME NEW r, NEW preferred
  PROVE  /\ Keeps(NoFile, Planned(r, preferred))
         /\ Revision(Planned(r, preferred)) = Revision(NoFile) + 1
BY DEF Keeps, Planned, Revision, NoFile

LEMMA BeginPreservesAlone ==
  ASSUME AloneInv, FilesInv', ~Overlap, NEW w \in Writers,
         Plan(w) \/ Contract(w) \/ Closeout(w) \/ Approve(w)
  PROVE  AloneInv'
<1>1. MayBegin(w) /\ UNCHANGED <<file, history>> /\ FilesInv
  BY DEF Plan, Contract, Closeout, Approve, AloneInv
<1>2. ASSUME NEW op \in Ops, NEW s \in GoodStates, NEW proposed \in Marks,
             Goes(w, Built(op, s, proposed)), Keeps(file, s),
             Revision(s) = Revision(file) + 1
      PROVE  AloneInv'
  <2>1. /\ Built(op, s, proposed) \in Places
        /\ Built(op, s, proposed).step = "built"
        /\ Built(op, s, proposed).state = s
    BY BuiltIsPlace DEF Built
  <2> QED BY <1>1, <1>2, <2>1, AloneGoes
<1>3. CASE Plan(w)
  <2>1. PICK r \in Roadmaps, p \in Positions \cup {NoPosition} :
          Goes(w, Built("plan", Planned(r, p), NoPosition))
    BY <1>3 DEF Plan
  <2>2. file = NoFile /\ Planned(r, p) \in GoodStates
    BY <1>3, PlannedIsGood DEF Plan
  <2> QED BY <1>2, <2>1, <2>2, FirstPlanKeeps DEF Ops, Marks
<1>4. CASE Contract(w)
  <2>1. PICK target \in Positions :
          UNCHANGED writer \/ Goes(w, Checked("advance", target))
    BY <1>4 DEF Contract
  <2>2. CASE UNCHANGED writer
    BY <1>1, <2>2 DEF AloneInv, Busy
  <2>3. CASE Goes(w, Checked("advance", target))
    <3>1. /\ Checked("advance", target) \in Places
          /\ Checked("advance", target).step = "checked"
      BY DEF Checked, Places
    <3> QED BY <1>1, <2>3, <3>1, AloneGoes
  <2> QED BY <2>1, <2>2, <2>3
<1>5. CASE Closeout(w)
  <2>1. /\ Checked("complete", NoPosition) \in Places
        /\ Checked("complete", NoPosition).step = "checked"
    BY DEF Checked, Places
  <2>2. Goes(w, Checked("complete", NoPosition))
    BY <1>5 DEF Closeout
  <2> QED BY <1>1, <2>1, <2>2, AloneGoes
<1>6. CASE Approve(w)
  <2>1. review \in Reviews /\ review.proposed \in Marks
    BY <1>1, <1>6 DEF Approve, FilesInv, Reviews, Marks
  <2>2. CASE file # NoFile
    <3>1. file \in GoodStates /\ Changed(file, review) \in GoodStates
      BY <1>1, <2>1, <2>2, ChangedIsGood DEF FilesInv
    <3> QED BY <1>2, <1>6, <2>1, <2>2, <3>1, SuccessorsKeep DEF Approve, Ops
  <2>3. CASE file = NoFile
    <3>1. review.replacement \in Roadmaps
      BY <1>6, <2>1, <2>3 DEF Approve, Reviews
    <3>2. Planned(review.replacement, review.proposed) \in GoodStates
      BY <3>1, PlannedIsGood
    <3> QED BY <1>2, <1>6, <2>1, <2>3, <3>2, FirstPlanKeeps DEF Approve, Ops
  <2> QED BY <2>2, <2>3
<1> QED BY <1>3, <1>4, <1>5, <1>6

LEMMA BuildPreservesAlone ==
  ASSUME AloneInv, FilesInv', NEW w \in Writers, Advance(w) \/ Complete(w)
  PROVE  AloneInv'
<1>1. Busy(w) /\ UNCHANGED <<file, history>> /\ FilesInv
  BY DEF Advance, Complete, Busy, AloneInv
<1>2. file \in GoodStates
  BY <1>1 DEF FilesInv, Advance, Complete
<1>3. ASSUME NEW op \in Ops, NEW s \in GoodStates, Keeps(file, s),
             Revision(s) = Revision(file) + 1,
             Goes(w, Built(op, s, NoPosition))
      PROVE  AloneInv'
  <2>1. /\ Built(op, s, NoPosition) \in Places
        /\ Built(op, s, NoPosition).step = "built"
        /\ Built(op, s, NoPosition).state = s
    BY BuiltIsPlace DEF Built, Marks
  <2> QED BY <1>1, <1>3, <2>1, AloneGoes
<1>4. CASE Advance(w)
  <2> DEFINE target == writer[w].target
  <2>1. CASE Goes(w, At(Written(Built("advance", file, NoPosition)), "saved"))
    <3> DEFINE place == [step |-> "saved", op |-> "advance",
                         at |-> file.current, proposed |-> NoPosition]
    <3>1. At(Written(Built("advance", file, NoPosition)), "saved") = place
      BY DEF At, Written, Built
    <3>2. place \in Places /\ place.step = "saved"
      BY <1>2, GoodStateMarks DEF Places, Marks
    <3> HIDE DEF place
    <3> QED BY <1>1, <2>1, <3>1, <3>2, AloneGoes
  <2>2. CASE /\ target = NextOf(file)
             /\ Goes(w, Built("advance", Advanced(file, target), NoPosition))
    <3>1. target \in Positions
      BY <1>1, <1>4, PlaceFields DEF Advance
    <3>2. Advanced(file, target) \in GoodStates
      BY <1>2, <2>2, <3>1, AdvancedIsGood
    <3> QED BY <1>2, <1>3, <2>2, <3>2, SuccessorsKeep DEF Ops
  <2>3. CASE Goes(w, Idle)
    BY <1>1, <2>3, IdleIsPlace, AloneGoes
  <2> QED BY <1>4, <2>1, <2>2, <2>3 DEF Advance
<1>5. CASE Complete(w)
  <2>1. Completed(file) \in GoodStates
    BY <1>2, CompletedIsGood
  <2>2. Goes(w, Built("complete", Completed(file), NoPosition))
    BY <1>5 DEF Complete
  <2> QED BY <1>2, <1>3, <2>1, <2>2, SuccessorsKeep DEF Ops
<1> QED BY <1>4, <1>5

LEMMA WriteStatePreservesAlone ==
  ASSUME AloneInv, FilesInv', NEW w \in Writers, WriteState(w)
  PROVE  AloneInv' /\ Keeps(file, file')
<1>1. /\ writer[w].op \in Ops /\ writer[w].proposed \in Marks
      /\ writer[w].state \in GoodStates
  BY PlaceFields DEF WriteState, AloneInv
<1>2. Written(writer[w]) \in Places /\ Written(writer[w]).step = "written"
  BY <1>1, GoodStateMarks DEF Written, Places
<1>3. /\ file' = writer[w].state /\ Goes(w, Written(writer[w])) /\ Busy(w)
      /\ UNCHANGED history
  BY DEF WriteState, Busy
<1>4. /\ \A v \in Writers : v # w => writer'[v].step = "idle"
      /\ writer'[w] = Written(writer[w])
      /\ \A u, v \in Writers : Busy(u)' /\ Busy(v)' => u = v
  BY <1>2, <1>3, Alone
<1>5. /\ Keeps(file, writer[w].state)
      /\ Revision(writer[w].state) = Revision(file) + 1
      /\ Len(history) <= Revision(file)
  BY DEF AloneInv, WriteState
<1>6. Len(history) \in Nat /\ Revision(file) \in Nat
  BY RevisionIsNat DEF AloneInv, FilesInv
<1>7. /\ Revision(file)' = Revision(file) + 1
      /\ Len(history') < Revision(file)' /\ Len(history') <= Revision(file)'
  BY <1>3, <1>5, <1>6
<1> QED BY <1>2, <1>3, <1>4, <1>5, <1>7 DEF AloneInv

LEMMA HistoryPreservesAlone ==
  ASSUME AloneInv, FilesInv', NEW w \in Writers,
         ReadHistory(w) \/ WriteHistory(w)
  PROVE  AloneInv'
<1>1. CASE ReadHistory(w)
  <2> DEFINE place == [step |-> "read", op |-> writer[w].op,
                       at |-> writer[w].at, proposed |-> writer[w].proposed,
                       text |-> history]
  <2>1. /\ place \in Places /\ place.step = "read" /\ place.text = history
    BY <1>1, PlaceFields DEF ReadHistory, Places, FilesInv, AloneInv
  <2>2. Goes(w, place) /\ Busy(w) /\ UNCHANGED <<file, history>>
    BY <1>1 DEF ReadHistory, Busy
  <2>3. Len(history) < Revision(file)
    BY <1>1 DEF ReadHistory, AloneInv
  <2> HIDE DEF place
  <2> QED BY <2>1, <2>2, <2>3, AloneGoes
<1>2. CASE WriteHistory(w)
  <2>1. /\ writer[w].op \in Ops /\ writer[w].at \in Marks
        /\ writer[w].proposed \in Marks /\ writer[w].text \in Seq(Entries)
    BY <1>2, PlaceFields DEF WriteHistory, AloneInv
  <2> DEFINE place == IF writer[w].op \in {"advance", "change"}
                        THEN [step |-> "saved", op |-> writer[w].op,
                              at |-> writer[w].at,
                              proposed |-> writer[w].proposed]
                        ELSE Idle
  <2>2. place \in Places /\ place.step \in {"saved", "idle"}
    BY <2>1, IdleIsPlace DEF Places
  <2>3. /\ Goes(w, place) /\ Busy(w) /\ UNCHANGED file
        /\ history' = Append(writer[w].text, Entry(writer[w].op, writer[w].at))
        /\ Len(writer[w].text) < Revision(file)
    BY <1>2 DEF WriteHistory, Busy, AloneInv
  <2>4. Len(history') = Len(writer[w].text) + 1
    BY <2>1, <2>3
  <2>5. Len(history') <= Revision(file)
    BY <2>1, <2>3, <2>4, RevisionIsNat DEF AloneInv
  <2> HIDE DEF place
  <2>6. /\ \A v \in Writers : v # w => writer'[v].step = "idle"
        /\ writer'[w] = place
        /\ \A u, v \in Writers : Busy(u)' /\ Busy(v)' => u = v
    BY <2>2, <2>3, Alone
  <2> QED BY <2>2, <2>3, <2>5, <2>6 DEF AloneInv
<1> QED BY <1>1, <1>2

LEMMA EndPreservesAlone ==
  ASSUME AloneInv, FilesInv', NEW w \in Writers,
         SaveConfig(w) \/ Tell(w) \/ Raise(w)
  PROVE  AloneInv'
<1>1. Busy(w) /\ UNCHANGED <<file, history>>
  BY DEF SaveConfig, Tell, Raise, Busy
<1>2. CASE Goes(w, Idle)
  BY <1>1, <1>2, IdleIsPlace, AloneGoes
<1>3. CASE SaveConfig(w) /\ writer[w].op = "change"
  <2> DEFINE place == [step |-> "tell", op |-> "change",
                       at |-> writer[w].at, proposed |-> writer[w].proposed]
  <2>1. /\ writer[w].at \in Marks /\ writer[w].proposed \in Marks
        /\ writer[w] = [step |-> "saved", op |-> writer[w].op,
                        at |-> writer[w].at, proposed |-> writer[w].proposed]
    BY <1>3, PlaceFields DEF SaveConfig, AloneInv
  <2>2. Goes(w, place)
    BY <1>3, <2>1 DEF SaveConfig, At
  <2>3. place \in Places /\ place.step = "tell"
    BY <2>1 DEF Places
  <2> HIDE DEF place
  <2> QED BY <1>1, <2>2, <2>3, AloneGoes
<1> QED BY <1>2, <1>3 DEF SaveConfig, Tell, Raise

LEMMA NextPreservesAlone ==
  ASSUME AloneInv, ~Overlap, [Next]_vars
  PROVE  AloneInv' /\ (UNCHANGED file \/ Keeps(file, file'))
<1>1. FilesInv'
  BY NextPreserves DEF AloneInv
<1>2. ASSUME NEW w \in Writers, Perform(w)
      PROVE  AloneInv' /\ (UNCHANGED file \/ Keeps(file, file'))
  <2>1. CASE Plan(w) \/ Contract(w) \/ Closeout(w) \/ Approve(w)
    BY <1>1, <2>1, BeginPreservesAlone DEF Plan, Contract, Closeout, Approve
  <2>2. CASE Advance(w) \/ Complete(w)
    BY <1>1, <2>2, BuildPreservesAlone DEF Advance, Complete
  <2>3. CASE WriteState(w)
    BY <1>1, <2>3, WriteStatePreservesAlone
  <2>4. CASE ReadHistory(w) \/ WriteHistory(w)
    BY <1>1, <2>4, HistoryPreservesAlone DEF ReadHistory, WriteHistory
  <2>5. CASE SaveConfig(w) \/ Tell(w) \/ Raise(w)
    BY <1>1, <2>5, EndPreservesAlone DEF SaveConfig, Tell, Raise
  <2> QED BY <1>2, <2>1, <2>2, <2>3, <2>4, <2>5 DEF Perform
<1>3. CASE Propose \/ Reject \/ Sync \/ UNCHANGED vars
  BY <1>1, <1>3 DEF Propose, Reject, Sync, vars, AloneInv, Busy
<1>4. CASE Restart
  <2>1. /\ \A w \in Writers : writer'[w].step = "idle"
        /\ UNCHANGED <<file, history>>
    BY <1>4 DEF Restart, Idle
  <2> QED BY <1>1, <2>1 DEF AloneInv, Busy
<1> QED BY <1>2, <1>3, <1>4 DEF Next

LEMMA InitAlone == Init => AloneInv
BY InitFiles DEF Init, AloneInv, Busy, Idle, Revision

LEMMA AloneCorrect ==
  ASSUME ~Overlap
  PROVE  Spec => []AloneInv
BY InitAlone, NextPreservesAlone, PTL DEF Spec

\* One operation at a time, stopped or failing anywhere: HISTORY.md never
\* records a change that ROADMAP.md does not have.
THEOREM HistoryNeverAhead ==
  ASSUME ~Overlap
  PROVE  Spec => []HistoryIsNeverAhead
<1>1. AloneInv => HistoryIsNeverAhead
  BY DEF AloneInv, HistoryIsNeverAhead
<1> QED BY <1>1, AloneCorrect, PTL

\* And no step of such an operation forgets a completed stage that the roadmap
\* still has.
THEOREM CompletedWorkKept ==
  ASSUME ~Overlap
  PROVE  Spec => CompletedWorkIsKept
<1>1. AloneInv /\ [Next]_vars =>
        [file # NoFile =>
           file.completed \cap Stages(file') \subseteq file'.completed]_vars
  BY NextPreservesAlone DEF Keeps, vars
<1> QED BY <1>1, AloneCorrect, PTL DEF Spec, CompletedWorkIsKept

-----------------------------------------------------------------------------
\* What an approved course change tells the model.

\* The current position is the proposed one if the roadmap has it.
Names(state, proposed) == proposed \in Stages(state) => state.current = proposed

\* What a course change in progress knows of the file f and the config c: from
\* the moment the file is replaced, it names the proposed position.
Named(place, f, c) ==
  /\ place.step = "built" /\ place.op = "change"
       => Names(place.state, place.proposed)
  /\ place.step \in {"written", "read", "saved", "tell"} /\ place.op = "change"
       => f # NoFile /\ Names(f, place.proposed)
  /\ place.step = "tell" => place.op = "change" /\ c = f.current

NamedInv == \A w \in Writers : Named(writer[w], file, config)

LEMMA IdleIsNamed ==
  ASSUME NEW place, place.step \in {"idle", "checked"}, NEW f, NEW c
  PROVE  Named(place, f, c)
BY DEF Named

\* Both ways to build a change's state make the proposed position current.
LEMMA ChangeIsNamed ==
  ASSUME NEW s, NEW r, NEW roadmap
  PROVE  /\ Names(Changed(s, r), r.proposed)
         /\ Names(Planned(roadmap, r.proposed), r.proposed)
<1>1. /\ Changed(s, r).roadmap = Approved(r, s)
      /\ r.proposed \in Range(Approved(r, s)) => Changed(s, r).current = r.proposed
  BY DEF Changed, ChangedTo
<1>2. /\ Planned(roadmap, r.proposed).roadmap = roadmap
      /\ r.proposed \in Range(roadmap) => Planned(roadmap, r.proposed).current = r.proposed
  BY DEF Planned
<1> QED BY <1>1, <1>2 DEF Names, Stages

\* Only the thread that moves has a place to answer for.
LEMMA NamedGoes ==
  ASSUME AloneInv, NEW w \in Writers, NEW place \in Places,
         (MayBegin(w) /\ ~Overlap) \/ Busy(w), Goes(w, place),
         Named(place, file', config')
  PROVE  NamedInv'
<1>1. \A v \in Writers : v # w => writer'[v].step = "idle"
  BY Alone
<1>2. writer'[w] = place
  BY Alone
<1>3. ASSUME NEW v \in Writers PROVE Named(writer'[v], file', config')
  <2>1. CASE v = w
    BY <1>2, <2>1
  <2>2. CASE v # w
    BY <1>1, <2>2, IdleIsNamed
  <2> QED BY <2>1, <2>2
<1> QED BY <1>3 DEF NamedInv

LEMMA BeginPreservesNamed ==
  ASSUME AloneInv, NamedInv, ~Overlap, NEW w \in Writers,
         Plan(w) \/ Contract(w) \/ Closeout(w) \/ Approve(w)
  PROVE  NamedInv'
<1>1. MayBegin(w) /\ file' = file /\ FilesInv
  BY DEF Plan, Contract, Closeout, Approve, AloneInv
<1>2. CASE Plan(w)
  <2>1. PICK r \in Roadmaps, p \in Positions \cup {NoPosition} :
          Goes(w, Built("plan", Planned(r, p), NoPosition))
    BY <1>2 DEF Plan
  <2> DEFINE place == Built("plan", Planned(r, p), NoPosition)
  <2>2. place \in Places
    BY PlannedIsGood, BuiltIsPlace DEF Ops, Marks
  <2>3. place.step = "built" /\ place.op = "plan"
    BY DEF Built
  <2>4. Named(place, file', config')
    BY <2>3 DEF Named
  <2> HIDE DEF place
  <2> QED BY <1>1, <2>1, <2>2, <2>4, NamedGoes DEF place
<1>3. CASE Contract(w)
  <2>1. PICK target \in Positions :
          UNCHANGED writer \/ Goes(w, Checked("advance", target))
    BY <1>3 DEF Contract
  <2>2. CASE UNCHANGED writer
    <3>1. \A v \in Writers : writer'[v].step = "idle"
      BY <1>1, <2>2 DEF MayBegin, Idle
    <3> QED BY <3>1, IdleIsNamed DEF NamedInv
  <2>3. CASE Goes(w, Checked("advance", target))
    <3>1. /\ Checked("advance", target) \in Places
          /\ Checked("advance", target).step = "checked"
      BY DEF Checked, Places
    <3> QED BY <1>1, <2>3, <3>1, IdleIsNamed, NamedGoes
  <2> QED BY <2>1, <2>2, <2>3
<1>4. CASE Closeout(w)
  <2>1. /\ Checked("complete", NoPosition) \in Places
        /\ Checked("complete", NoPosition).step = "checked"
    BY DEF Checked, Places
  <2> QED BY <1>1, <1>4, <2>1, IdleIsNamed, NamedGoes DEF Closeout
<1>5. CASE Approve(w)
  <2>1. review \in Reviews /\ review.proposed \in Marks
    BY <1>1, <1>5 DEF Approve, FilesInv, Reviews, Marks
  <2>2. ASSUME NEW s \in GoodStates, Names(s, review.proposed),
               Goes(w, Built("change", s, review.proposed))
        PROVE  NamedInv'
    <3> DEFINE place == Built("change", s, review.proposed)
    <3>1. place \in Places
      BY <2>1, BuiltIsPlace DEF Ops
    <3>2. /\ place.step = "built" /\ place.state = s
          /\ place.proposed = review.proposed
      BY DEF Built
    <3>3. Named(place, file', config')
      BY <2>2, <3>2 DEF Named
    <3> HIDE DEF place
    <3> QED BY <1>1, <2>2, <3>1, <3>3, NamedGoes DEF place
  <2>3. CASE file # NoFile
    <3>1. file \in GoodStates /\ Changed(file, review) \in GoodStates
      BY <1>1, <2>1, <2>3, ChangedIsGood DEF FilesInv
    <3> QED BY <1>5, <2>2, <2>3, <3>1, ChangeIsNamed DEF Approve
  <2>4. CASE file = NoFile
    <3>1. review.replacement \in Roadmaps
      BY <1>5, <2>1, <2>4 DEF Approve, Reviews
    <3>2. Planned(review.replacement, review.proposed) \in GoodStates
      BY <3>1, PlannedIsGood
    <3> QED BY <1>5, <2>2, <2>4, <3>2, ChangeIsNamed DEF Approve
  <2> QED BY <2>3, <2>4
<1> QED BY <1>2, <1>3, <1>4, <1>5

LEMMA BuildPreservesNamed ==
  ASSUME AloneInv, NamedInv, NEW w \in Writers, Advance(w) \/ Complete(w)
  PROVE  NamedInv'
<1>1. Busy(w) /\ FilesInv /\ file \in GoodStates
  BY DEF Advance, Complete, Busy, AloneInv, FilesInv
<1>2. ASSUME NEW op \in {"advance", "complete"}, NEW s \in GoodStates,
             Goes(w, Built(op, s, NoPosition))
      PROVE  NamedInv'
  <2> DEFINE place == Built(op, s, NoPosition)
  <2>1. place \in Places
    BY BuiltIsPlace DEF Ops, Marks
  <2>2. place.step = "built" /\ place.op = op
    BY DEF Built
  <2>3. Named(place, file', config')
    BY <2>2 DEF Named
  <2> HIDE DEF place
  <2> QED BY <1>1, <1>2, <2>1, <2>3, NamedGoes DEF place
<1>3. CASE Advance(w)
  <2> DEFINE target == writer[w].target
  <2>1. CASE Goes(w, At(Written(Built("advance", file, NoPosition)), "saved"))
    <3> DEFINE place == [step |-> "saved", op |-> "advance",
                         at |-> file.current, proposed |-> NoPosition]
    <3>1. At(Written(Built("advance", file, NoPosition)), "saved") = place
      BY DEF At, Written, Built
    <3>2. place \in Places
      BY <1>1, GoodStateMarks DEF Places, Marks
    <3>3. Named(place, file', config')
      BY DEF Named
    <3> HIDE DEF place
    <3> QED BY <1>1, <2>1, <3>1, <3>2, <3>3, NamedGoes
  <2>2. CASE /\ target = NextOf(file)
             /\ Goes(w, Built("advance", Advanced(file, target), NoPosition))
    <3>1. target \in Positions
      BY <1>1, <1>3, PlaceFields DEF Advance
    <3>2. Advanced(file, target) \in GoodStates
      BY <1>1, <2>2, <3>1, AdvancedIsGood
    <3> QED BY <1>2, <2>2, <3>2
  <2>3. CASE Goes(w, Idle)
    BY <1>1, <2>3, IdleIsPlace, IdleIsNamed, NamedGoes DEF Idle
  <2> QED BY <1>3, <2>1, <2>2, <2>3 DEF Advance
<1>4. CASE Complete(w)
  <2>1. Completed(file) \in GoodStates
    BY <1>1, CompletedIsGood
  <2> QED BY <1>2, <1>4, <2>1 DEF Complete
<1> QED BY <1>3, <1>4

LEMMA WritePreservesNamed ==
  ASSUME AloneInv, NamedInv, NEW w \in Writers,
         WriteState(w) \/ ReadHistory(w) \/ WriteHistory(w)
  PROVE  NamedInv'
<1>1. FilesInv /\ Busy(w) /\ Named(writer[w], file, config)
  BY DEF AloneInv, Busy, WriteState, ReadHistory, WriteHistory, NamedInv
<1>2. CASE WriteState(w)
  <2>1. /\ writer[w].op \in Ops /\ writer[w].proposed \in Marks
        /\ writer[w].state \in GoodStates /\ writer[w].state # NoFile
    BY <1>1, <1>2, PlaceFields, GoodStateMarks DEF WriteState
  <2>2. /\ Written(writer[w]) \in Places /\ Written(writer[w]).step = "written"
        /\ Written(writer[w]).op = writer[w].op
        /\ Written(writer[w]).proposed = writer[w].proposed
    BY <2>1, GoodStateMarks DEF Written, Places
  <2>3. file' = writer[w].state /\ Goes(w, Written(writer[w]))
        /\ writer[w].step = "built"
    BY <1>2 DEF WriteState
  <2>4. Named(Written(writer[w]), file', config')
    BY <1>1, <2>1, <2>2, <2>3 DEF Named
  <2> QED BY <1>1, <2>2, <2>3, <2>4, NamedGoes
<1>3. CASE ReadHistory(w)
  <2> DEFINE place == [step |-> "read", op |-> writer[w].op,
                       at |-> writer[w].at, proposed |-> writer[w].proposed,
                       text |-> history]
  <2>1. place \in Places
    BY <1>1, <1>3, PlaceFields DEF ReadHistory, Places, FilesInv
  <2>2. Goes(w, place) /\ UNCHANGED <<file, config>> /\ writer[w].step = "written"
    BY <1>3 DEF ReadHistory
  <2>3. Named(place, file', config')
    BY <1>1, <2>2 DEF Named
  <2> HIDE DEF place
  <2> QED BY <1>1, <2>1, <2>2, <2>3, NamedGoes
<1>4. CASE WriteHistory(w)
  <2>1. /\ writer[w].op \in Ops /\ writer[w].at \in Marks
        /\ writer[w].proposed \in Marks /\ writer[w].step = "read"
    BY <1>1, <1>4, PlaceFields DEF WriteHistory
  <2>2. CASE Goes(w, Idle)
    BY <1>1, <2>2, IdleIsPlace, IdleIsNamed, NamedGoes DEF Idle
  <2>3. CASE writer[w].op \in {"advance", "change"}
    <3> DEFINE place == [step |-> "saved", op |-> writer[w].op,
                         at |-> writer[w].at, proposed |-> writer[w].proposed]
    <3>1. place \in Places
      BY <2>1, <2>3 DEF Places
    <3>2. Goes(w, place) /\ UNCHANGED <<file, config>>
      BY <1>4, <2>3 DEF WriteHistory
    <3>3. Named(place, file', config')
      BY <1>1, <2>1, <3>2 DEF Named
    <3> HIDE DEF place
    <3> QED BY <1>1, <3>1, <3>2, <3>3, NamedGoes
  <2> QED BY <1>4, <2>2, <2>3 DEF WriteHistory
<1> QED BY <1>2, <1>3, <1>4

LEMMA EndPreservesNamed ==
  ASSUME AloneInv, NamedInv, NEW w \in Writers,
         SaveConfig(w) \/ Tell(w) \/ Raise(w)
  PROVE  NamedInv'
<1>1. FilesInv /\ Busy(w) /\ Named(writer[w], file, config) /\ file' = file
  BY DEF AloneInv, Busy, SaveConfig, Tell, Raise, NamedInv
<1>2. CASE Goes(w, Idle)
  BY <1>1, <1>2, IdleIsPlace, IdleIsNamed, NamedGoes DEF Idle
<1>3. CASE SaveConfig(w) /\ writer[w].op = "change"
  <2> DEFINE place == [step |-> "tell", op |-> "change",
                       at |-> writer[w].at, proposed |-> writer[w].proposed]
  <2>1. /\ writer[w].at \in Marks /\ writer[w].proposed \in Marks
        /\ writer[w].step = "saved"
        /\ writer[w] = [step |-> "saved", op |-> writer[w].op,
                        at |-> writer[w].at, proposed |-> writer[w].proposed]
    BY <1>1, <1>3, PlaceFields DEF SaveConfig
  <2>2. Goes(w, place) /\ config' = Current(file)
    BY <1>3, <2>1 DEF SaveConfig, At
  <2>3. place \in Places
    BY <2>1 DEF Places
  <2>4. Named(place, file', config')
    BY <1>1, <1>3, <2>1, <2>2 DEF Named, Current
  <2> HIDE DEF place
  <2> QED BY <1>1, <2>2, <2>3, <2>4, NamedGoes
<1> QED BY <1>2, <1>3 DEF SaveConfig, Tell, Raise

LEMMA NextPreservesNamed ==
  ASSUME AloneInv, NamedInv, ~Overlap, [Next]_vars
  PROVE  NamedInv'
<1>1. ASSUME NEW w \in Writers, Perform(w) PROVE NamedInv'
  BY <1>1, BeginPreservesNamed, BuildPreservesNamed, WritePreservesNamed,
     EndPreservesNamed DEF Perform
<1>2. CASE Propose \/ Reject \/ UNCHANGED vars
  BY <1>2 DEF Propose, Reject, vars, NamedInv
<1>3. CASE Sync
  <2>1. UNCHANGED <<file, writer>> /\ config' = file.current
    BY <1>3 DEF Sync
  <2> QED BY <2>1 DEF NamedInv, Named
<1>4. CASE Restart
  <2>1. \A w \in Writers : writer'[w].step = "idle"
    BY <1>4 DEF Restart, Idle
  <2> QED BY <2>1, IdleIsNamed DEF NamedInv
<1> QED BY <1>1, <1>2, <1>3, <1>4 DEF Next

\* Only Tell tells.
LEMMA TellNamesCurrent ==
  ASSUME AloneInv, NamedInv, [Next]_vars, told' # told, told' \in Stages(file)
  PROVE  told' = Current(file)
<1>1. PICK w \in Writers : Tell(w)
  BY DEF Next, Perform, Plan, Contract, Advance, Closeout, Complete, Approve,
         WriteState, ReadHistory, WriteHistory, SaveConfig, Raise, Propose, Reject,
         Sync, Restart, vars
<1>2. /\ writer[w].step = "tell"
      /\ told' = IF writer[w].proposed # NoPosition THEN writer[w].proposed ELSE config
  BY <1>1 DEF Tell
<1>3. /\ file # NoFile /\ config = file.current
      /\ Names(file, writer[w].proposed)
  BY <1>2 DEF NamedInv, Named
<1> QED BY <1>2, <1>3 DEF Names, Current

\* The position an approved course change names in its prompt is the one
\* ROADMAP.md has by then, unless the roadmap does not have the proposed one:
\* apply_course_change took it over, and no other operation came between.
THEOREM ToldAlwaysCurrent ==
  ASSUME ~Overlap
  PROVE  Spec => ToldIsCurrentIfPlanned
<1>1. Init => NamedInv
  BY DEF Init, NamedInv, Named, Idle
<1>2. AloneInv /\ NamedInv /\ [Next]_vars => NamedInv'
  BY NextPreservesNamed
<1>3. AloneInv /\ NamedInv /\ [Next]_vars =>
        [told' # told /\ told' \in Stages(file) => told' = Current(file)]_vars
  BY TellNamesCurrent
<1> QED BY <1>1, <1>2, <1>3, AloneCorrect, PTL DEF Spec, ToldIsCurrentIfPlanned

=============================================================================
