---------------------- MODULE ConversationBinding_proofs ----------------------
(***************************************************************************)
(* The binding of a workflow to a conversation, for any number of tabs,    *)
(* pages, providers and handlers: its types, that memory and storage agree,*)
(* where prompts go, and that the service worker keeps BindingPromise.     *)
(***************************************************************************)
EXTENDS ConversationBinding, SequenceTheorems, TLAPS

\* While a request has looked and its tab has not moved, what it knows of the
\* page still holds.
LookHolds ==
  \A j \in Requests :
    job[j].step = "decide" /\ j \notin moved /\ job[j].fits
      => page[job[j].binding.tab] = job[j].binding.page

BindingInv ==
  TypeOK /\ MemoryIsStored /\ LookHolds /\ PromptGoesWhereChecked

-----------------------------------------------------------------------------
LEMMA NoBindingIsNone ==
  /\ NoBinding \notin Bindings /\ ~Provisional(NoBinding)
  /\ \A b \in Bindings : b # NoBinding /\ b.tab \in Tabs /\ b.page \in Pages
BY BindingAssumption DEF NoBinding, Bindings, Provisional

\* With memory and storage in agreement, the storage has the binding in force.
LEMMA LoadedIsStored ==
  ASSUME MemoryIsStored
  PROVE  Loaded = session
BY DEF MemoryIsStored, Loaded

\* What a step may do to the binding, and keep it typed and stored.
Kept(m, s, l) ==
  /\ {m, s, l} \subseteq Bindings \cup {NoBinding}
  /\ m # NoBinding => m = s

LEMMA BindingKept ==
  ASSUME TypeOK, MemoryIsStored
  PROVE  /\ Loaded \in Bindings \cup {NoBinding} /\ Loaded = session
         /\ Kept(memory, session, seal) /\ Kept(Loaded, session, seal)
         /\ Kept(Loaded, session, NoBinding)
         /\ Kept(memory, session, NoBinding)
         /\ Kept(Loaded, session, Loaded)
         /\ Kept(NoBinding, NoBinding, NoBinding)
         /\ Kept(NoBinding, session, NoBinding)
BY LoadedIsStored DEF TypeOK, MemoryIsStored, Kept

\* trySealAuthorizedProvisionalBinding: the binding stays, is given up, or
\* becomes the conversation the licensed new chat turned into.
LEMMA TrySealKeeps ==
  ASSUME TypeOK, MemoryIsStored, NEW tab \in Tabs, NEW p \in Places,
         TrySeal(tab, p)
  PROVE  /\ Kept(memory', session', seal')
         /\ seal' \in {seal, NoBinding}
         /\ \/ session' \in {session, NoBinding}
            \/ /\ Loaded # NoBinding /\ Loaded = seal /\ p \in Conversations
               /\ session' = [tab |-> tab, page |-> p] /\ tab = Loaded.tab
               /\ p.provider = Loaded.page.provider
<1>1. CASE UNCHANGED <<memory, session, seal>>
  BY <1>1, BindingKept
<1>2. CASE memory' = Loaded /\ UNCHANGED session /\ seal' \in {seal, NoBinding}
  BY <1>2, BindingKept
<1>3. CASE Clear
  BY <1>3, BindingKept DEF Clear, Persist
<1>4. CASE /\ Provisional(Loaded) /\ Loaded = seal /\ seal.tab = tab
           /\ p.provider = Loaded.page.provider /\ p \in Conversations
           /\ Persist([tab |-> tab, page |-> p]) /\ seal' = NoBinding
  <2>1. [tab |-> tab, page |-> p] \in Bindings
    BY <1>4 DEF Bindings, Pages
  <2>2. session' = [tab |-> tab, page |-> p] /\ memory' = session'
    BY <1>4 DEF Persist
  <2>3. Loaded # NoBinding
    BY <1>4, NoBindingIsNone
  <2> QED BY <1>4, <2>1, <2>2, <2>3 DEF Kept
<1> QED BY <1>1, <1>2, <1>3, <1>4 DEF TrySeal

LEMMA HandlerTyped ==
  ASSUME NEW kind \in {"send", "check", "pin", "prepare"},
         NEW step \in {"decide", "deliver", "authorize", "seal", "pin"},
         NEW b \in Bindings, NEW fits \in BOOLEAN
  PROVE  Handler(kind, step, b, fits) \in Handlers
BY DEF Handler, Handlers

\* A handler that is under way has a binding.
LEMMA UnderWay ==
  ASSUME TypeOK, NEW j \in Jobs, job[j].step # "done"
  PROVE  /\ job[j] \in Handlers /\ job[j].binding \in Bindings
         /\ job[j].binding.tab \in Tabs
<1>1. job[j] \in Handlers \cup {Done}
  BY DEF TypeOK
<1>2. job[j] \in Handlers
  BY <1>1 DEF Done
<1>3. job[j].binding \in Bindings
  BY <1>2 DEF Handlers
<1> QED BY <1>2, <1>3, NoBindingIsNone

\* What a handler claims about the pages is true.
Truthful(h, free) ==
  /\ h.step = "decide" /\ h.fits => page[h.binding.tab] = h.binding.page
  /\ h.step = "deliver" /\ free => page[h.binding.tab] = h.binding.page

\* One handler takes a step and no page changes.
LEMMA HandlerSteps ==
  ASSUME BindingInv, UNCHANGED <<page, selection, recovery>>,
         NEW j \in Jobs, NEW h \in Handlers \cup {Done},
         job' = [job EXCEPT ![j] = h],
         moved' \in {moved, moved \ {j}},
         Kept(memory', session', seal'),
         updates' = updates,
         j \in Requests => Truthful(h, j \notin moved')
  PROVE  BindingInv'
<1>1. /\ job' \in [Jobs -> Handlers \cup {Done}] /\ job'[j] = h
      /\ \A k \in Jobs \ {j} : job'[k] = job[k]
  BY DEF BindingInv, TypeOK
<1>2. TypeOK'
  BY <1>1 DEF BindingInv, TypeOK, Kept
<1>3. MemoryIsStored'
  BY DEF Kept, MemoryIsStored
<1>4. ASSUME NEW k \in Requests, k \notin moved'
      PROVE  /\ job'[k].step = "decide" /\ job'[k].fits
                  => page[job'[k].binding.tab] = job'[k].binding.page
             /\ job'[k].step = "deliver"
                  => page[job'[k].binding.tab] = job'[k].binding.page
  <2>1. CASE k = j
    BY <2>1, <1>1, <1>4 DEF Truthful
  <2>2. CASE k # j
    <3>1. k \notin moved /\ job'[k] = job[k]
      BY <2>2, <1>1, <1>4 DEF Jobs
    <3> QED BY <3>1 DEF BindingInv, LookHolds, PromptGoesWhereChecked
  <2> QED BY <2>1, <2>2
<1>5. LookHolds' /\ PromptGoesWhereChecked'
  BY <1>4 DEF LookHolds, PromptGoesWhereChecked
<1> QED BY <1>2, <1>3, <1>5 DEF BindingInv

\* A handler that has nothing left to do.
LEMMA HandlerFinishes ==
  ASSUME BindingInv, UNCHANGED <<page, selection, recovery, updates>>,
         NEW j \in Jobs, Finish(j), Kept(memory', session', seal')
  PROVE  BindingInv'
<1>1. Truthful(Done, j \notin moved')
  BY DEF Truthful, Done
<1> QED BY <1>1, HandlerSteps DEF Finish

\* No handler steps and no page changes.
LEMMA HandlersWait ==
  ASSUME BindingInv, UNCHANGED <<page, job, moved>>,
         selection' \in Selectable, recovery' \in Interrupted \cup {"none"},
         Kept(memory', session', seal'),
         updates' \in Seq([tab : Tabs, page : Places])
  PROVE  BindingInv'
BY DEF BindingInv, TypeOK, MemoryIsStored, Kept, LookHolds,
       PromptGoesWhereChecked

-----------------------------------------------------------------------------
LEMMA BeginCheckKeeps ==
  ASSUME BindingInv, NEW j \in Requests, NEW kind \in {"send", "check"},
         BeginCheck(j, kind)
  PROVE  BindingInv'
<1> DEFINE h == Handler(kind, "decide", Loaded, page[Loaded.tab] = Loaded.page)
<1>1. Loaded \in Bindings /\ Kept(memory', session', seal')
  BY BindingKept DEF BeginCheck, BindingInv
<1>2. h \in Handlers
  BY <1>1, HandlerTyped
<1>3. Truthful(h, j \notin moved')
  BY DEF Truthful, Handler
<1>4. /\ job' = [job EXCEPT ![j] = h] /\ moved' = moved /\ updates' = updates
      /\ UNCHANGED <<page, selection, recovery>>
  BY DEF BeginCheck
<1> HIDE DEF h
<1> QED BY <1>1, <1>2, <1>3, <1>4, HandlerSteps DEF Jobs

LEMMA DecideKeeps ==
  ASSUME BindingInv, NEW j \in Jobs, Decide(j)
  PROVE  BindingInv'
<1>1. CASE Clear /\ Finish(j)
  BY <1>1, BindingKept, HandlerFinishes DEF Decide, Clear, Persist, BindingInv
<1>2. CASE Finish(j) /\ UNCHANGED <<memory, session, seal>>
  BY <1>2, BindingKept, HandlerFinishes DEF Decide, BindingInv
<1>3. CASE /\ job[j].fits /\ Goes(j, "deliver")
           /\ UNCHANGED <<moved, memory, session, seal>>
  <2> DEFINE h == Handler("send", "deliver", job[j].binding, TRUE)
  <2>1. job[j].step = "decide" /\ UNCHANGED <<page, selection, recovery, updates>>
    BY DEF Decide
  <2>2. h \in Handlers
    BY <2>1, UnderWay, HandlerTyped DEF BindingInv
  <2>3. j \in Requests => Truthful(h, j \notin moved')
    BY <1>3, <2>1 DEF Truthful, Handler, BindingInv, LookHolds
  <2>4. Kept(memory', session', seal') /\ job' = [job EXCEPT ![j] = h]
    BY <1>3, BindingKept DEF BindingInv, Goes
  <2> HIDE DEF h
  <2> QED BY <1>3, <2>1, <2>2, <2>3, <2>4, HandlerSteps
<1> QED BY <1>1, <1>2, <1>3 DEF Decide

LEMMA DeliverKeeps ==
  ASSUME BindingInv, NEW j \in Jobs, Deliver(j)
  PROVE  BindingInv'
<1> DEFINE h == Handler("send", "authorize", job[j].binding, TRUE)
<1>1. h \in Handlers
  BY UnderWay, HandlerTyped DEF BindingInv, Deliver, Submits
<1>2. Truthful(h, j \notin moved')
  BY DEF Truthful, Handler
<1>3. /\ Kept(memory', session', seal') /\ job' = [job EXCEPT ![j] = h]
      /\ moved' = moved \ {j} /\ UNCHANGED <<page, selection, recovery, updates>>
  BY BindingKept DEF BindingInv, Deliver, Goes
<1> HIDE DEF h
<1> QED BY <1>1, <1>2, <1>3, HandlerSteps

LEMMA AuthorizeKeeps ==
  ASSUME BindingInv, NEW j \in Jobs, Authorize(j)
  PROVE  BindingInv'
<1> DEFINE h == Handler("send", "seal", job[j].binding, TRUE)
<1>1. CASE UNCHANGED seal /\ Finish(j)
  BY <1>1, BindingKept, HandlerFinishes DEF Authorize, BindingInv
<1>2. CASE seal' = Loaded /\ Goes(j, "seal") /\ UNCHANGED moved
  <2>1. h \in Handlers
    BY UnderWay, HandlerTyped DEF BindingInv, Authorize
  <2>2. Truthful(h, j \notin moved')
    BY DEF Truthful, Handler
  <2>3. Kept(memory', session', seal')
    BY <1>2, BindingKept DEF BindingInv, Authorize
  <2>4. job' = [job EXCEPT ![j] = h] /\ UNCHANGED <<page, selection, recovery, updates>>
    BY <1>2 DEF Authorize, Goes
  <2> HIDE DEF h
  <2> QED BY <1>2, <2>1, <2>2, <2>3, <2>4, HandlerSteps
<1> QED BY <1>1, <1>2 DEF Authorize

LEMMA SealAtOnceKeeps ==
  ASSUME BindingInv, NEW j \in Jobs, SealAtOnce(j)
  PROVE  BindingInv'
<1> DEFINE tab == job[j].binding.tab
<1>1. tab \in Tabs /\ page[tab] \in Places
  BY UnderWay DEF BindingInv, SealAtOnce, TypeOK
<1>2. Kept(memory', session', seal')
  <2>1. CASE UNCHANGED <<memory, session, seal>>
    BY <2>1, BindingKept DEF BindingInv
  <2>2. CASE TrySeal(tab, page[tab])
    BY <1>1, <2>2, TrySealKeeps DEF BindingInv
  <2> QED BY <2>1, <2>2 DEF SealAtOnce
<1> QED BY <1>2, HandlerFinishes DEF SealAtOnce

LEMMA InspectKeeps ==
  ASSUME BindingInv, NEW j \in Commands, NEW kind \in {"pin", "prepare"},
         NEW tab \in Tabs, Inspect(j, kind, tab)
  PROVE  BindingInv'
<1> DEFINE h == Handler(kind, "pin", [tab |-> tab, page |-> page[tab]], TRUE)
<1>1. [tab |-> tab, page |-> page[tab]] \in Bindings
  BY DEF Inspect, Bindings
<1>2. h \in Handlers
  BY <1>1, HandlerTyped
<1>3. Truthful(h, j \notin moved')
  BY DEF Truthful, Handler
<1>4. /\ Kept(memory', session', seal') /\ job' = [job EXCEPT ![j] = h]
      /\ moved' = moved /\ UNCHANGED <<page, selection, recovery, updates>>
  BY BindingKept DEF BindingInv, Inspect
<1> HIDE DEF h
<1> QED BY <1>2, <1>3, <1>4, HandlerSteps DEF Jobs

LEMMA PinKeeps ==
  ASSUME BindingInv, NEW j \in Jobs, Pin(j)
  PROVE  BindingInv'
<1>1. job[j].binding \in Bindings
  BY UnderWay DEF BindingInv, Pin
<1>2. Kept(memory', session', seal')
  BY <1>1, BindingKept DEF BindingInv, Pin, Persist, Kept
<1> QED BY <1>2, HandlerFinishes DEF Pin

\* A page changes: whoever had looked at it is marked.
LEMMA ShowsKeeps ==
  ASSUME BindingInv, NEW tab \in Tabs, NEW p \in Places, Shows(tab, p),
         UNCHANGED <<selection, memory, session, seal, recovery>>,
         job' \in [Jobs -> Handlers \cup {Done}],
         \A k \in Jobs : /\ job'[k].step = job[k].step
                         /\ job'[k].binding = job[k].binding
                         /\ job'[k].fits = job[k].fits
  PROVE  BindingInv'
<1>1. /\ page' \in [Tabs -> Places]
      /\ \A t \in Tabs \ {tab} : page'[t] = page[t]
  BY DEF BindingInv, TypeOK, Shows
<1>2. updates' \in Seq([tab : Tabs, page : Places])
  <2>1. updates \in Seq([tab : Tabs, page : Places])
    BY DEF BindingInv, TypeOK
  <2>2. [tab |-> tab, page |-> p] \in [tab : Tabs, page : Places]
    OBVIOUS
  <2>3. CASE UNCHANGED updates
    BY <2>1, <2>3
  <2>4. CASE updates' = Append(updates, [tab |-> tab, page |-> p])
    BY <2>1, <2>2, <2>4, AppendProperties
  <2> QED BY <2>3, <2>4 DEF Shows
<1>3. TypeOK' /\ MemoryIsStored'
  BY <1>1, <1>2 DEF BindingInv, TypeOK, MemoryIsStored, Shows
<1>4. ASSUME NEW k \in Requests, k \notin moved',
             job[k].step \in {"decide", "deliver"}
      PROVE  /\ k \notin moved
             /\ page'[job[k].binding.tab] = page[job[k].binding.tab]
  <2>1. k \notin moved /\ job[k].binding.tab # tab
    BY <1>4 DEF Shows
  <2>2. job[k].binding.tab \in Tabs
    BY <1>4, UnderWay DEF Jobs, BindingInv
  <2> QED BY <1>1, <2>1, <2>2
<1>5. LookHolds'
  BY <1>4 DEF BindingInv, LookHolds, Jobs
<1>6. PromptGoesWhereChecked'
  BY <1>4 DEF BindingInv, PromptGoesWhereChecked, Jobs
<1> QED BY <1>3, <1>5, <1>6 DEF BindingInv

LEMMA NavigateKeeps ==
  ASSUME BindingInv, NEW tab \in Tabs, NEW p \in Places, Navigate(tab, p)
  PROVE  BindingInv'
<1>1. job' \in [Jobs -> Handlers \cup {Done}] /\ job' = job
  BY DEF BindingInv, TypeOK, Navigate
<1> QED BY <1>1, ShowsKeeps DEF Navigate

LEMMA DeliverAgainKeeps ==
  ASSUME BindingInv, NEW j \in Jobs, NEW p \in Places, DeliverAgain(j, p)
  PROVE  BindingInv'
<1>1. job[j] \in Handlers /\ job[j].binding.tab \in Tabs
  BY UnderWay DEF BindingInv, DeliverAgain, Submits
<1>2. [job[j] EXCEPT !.resent = TRUE] \in Handlers
  BY <1>1 DEF Handlers
<1>3. /\ job' \in [Jobs -> Handlers \cup {Done}]
      /\ job'[j] = [job[j] EXCEPT !.resent = TRUE]
      /\ \A k \in Jobs \ {j} : job'[k] = job[k]
  BY <1>2 DEF DeliverAgain, BindingInv, TypeOK
<1>4. /\ job'[j].step = job[j].step /\ job'[j].binding = job[j].binding
      /\ job'[j].fits = job[j].fits
  BY <1>1, <1>3 DEF Handlers
<1>5. UNCHANGED <<selection, memory, session, seal, recovery>>
  BY DEF DeliverAgain
<1>6. Shows(job[j].binding.tab, p)
  BY DEF DeliverAgain
<1> QED BY <1>1, <1>3, <1>4, <1>5, <1>6, ShowsKeeps

LEMMA HandleUpdateKeeps ==
  ASSUME BindingInv, HandleUpdate
  PROVE  BindingInv'
<1>1. /\ Head(updates) \in [tab : Tabs, page : Places]
      /\ updates' \in Seq([tab : Tabs, page : Places])
  BY HeadTailProperties DEF BindingInv, TypeOK, HandleUpdate
<1>2. Kept(memory', session', seal')
  BY <1>1, TrySealKeeps DEF BindingInv, HandleUpdate
<1> QED BY <1>1, <1>2, HandlersWait DEF HandleUpdate, BindingInv, TypeOK

LEMMA HostReportsKeeps ==
  ASSUME BindingInv, NEW lifecycle, NEW provider \in Interrupted,
         HostReports(lifecycle, provider)
  PROVE  BindingInv'
<1>1. Kept(memory', session', seal')
  BY BindingKept DEF BindingInv, HostReports, Clear, Persist
<1> QED BY <1>1, HandlersWait DEF HostReports, BindingInv, TypeOK

LEMMA WorkerRestartsKeeps ==
  ASSUME BindingInv, WorkerRestarts
  PROVE  BindingInv'
<1>1. /\ job' \in [Jobs -> Handlers \cup {Done}]
      /\ \A j \in Jobs : job'[j].step = "done"
      /\ <<>> \in Seq([tab : Tabs, page : Places])
  BY DEF WorkerRestarts, Done
<1>2. TypeOK'
  BY <1>1 DEF BindingInv, TypeOK, WorkerRestarts
<1>3. MemoryIsStored'
  BY DEF WorkerRestarts, MemoryIsStored
<1>4. LookHolds' /\ PromptGoesWhereChecked'
  BY <1>1 DEF LookHolds, PromptGoesWhereChecked, Jobs
<1> QED BY <1>2, <1>3, <1>4 DEF BindingInv

-----------------------------------------------------------------------------
LEMMA GoOnKeeps ==
  ASSUME BindingInv, NEW j \in Jobs, GoOn(j)
  PROVE  BindingInv'
<1>1. CASE DeliveryFails(j)
  BY <1>1, BindingKept, HandlerFinishes DEF DeliveryFails, BindingInv
<1> QED BY <1>1, DecideKeeps, DeliverKeeps, AuthorizeKeeps, SealAtOnceKeeps,
           PinKeeps, DeliverAgainKeeps DEF GoOn

LEMMA QuietKeeps ==
  ASSUME BindingInv,
         \/ \E choice \in Selectable : SelectProvider(choice)
         \/ SealExpires \/ GiveUp \/ UNCHANGED vars
  PROVE  BindingInv'
<1> USE BindingKept, HandlersWait DEF BindingInv
<1>1. ASSUME NEW choice \in Selectable, SelectProvider(choice)
      PROVE  BindingInv'
  BY <1>1 DEF SelectProvider, TypeOK
<1>2. CASE SealExpires
  BY <1>2 DEF SealExpires, TypeOK
<1>3. CASE GiveUp
  BY <1>3 DEF GiveUp, Clear, Persist, TypeOK
<1>4. CASE UNCHANGED vars
  BY <1>4 DEF vars, TypeOK
<1> QED BY <1>1, <1>2, <1>3, <1>4

LEMMA BindingInvHolds == Spec => []BindingInv
<1>1. ASSUME Init PROVE BindingInv
  <2>1. /\ job \in [Jobs -> Handlers \cup {Done}]
        /\ \A j \in Jobs : job[j].step = "done"
        /\ <<>> \in Seq([tab : Tabs, page : Places])
    BY <1>1 DEF Init, Done
  <2>2. TypeOK
    BY <1>1, <2>1 DEF Init, TypeOK, Places
  <2>3. LookHolds /\ PromptGoesWhereChecked
    BY <2>1 DEF LookHolds, PromptGoesWhereChecked, Jobs
  <2> QED BY <1>1, <2>2, <2>3 DEF Init, BindingInv, MemoryIsStored
<1>2. ASSUME BindingInv, [Next]_vars
      PROVE  BindingInv'
  BY <1>2, BeginCheckKeeps, InspectKeeps, GoOnKeeps, HostReportsKeeps,
     NavigateKeeps, HandleUpdateKeeps, WorkerRestartsKeeps, QuietKeeps DEF Next
<1> QED BY <1>1, <1>2, PTL DEF Spec

\* Every variable keeps its type.
THEOREM BindingTyped == Spec => []TypeOK
<1>1. BindingInv => TypeOK
  BY DEF BindingInv
<1> QED BY <1>1, BindingInvHolds, PTL

\* The binding in memory is always the one the next service worker will find.
THEOREM MemoryAgreesWithStorage == Spec => []MemoryIsStored
<1>1. BindingInv => MemoryIsStored
  BY DEF BindingInv
<1> QED BY <1>1, BindingInvHolds, PTL

\* A prompt about to be delivered goes to the conversation it was checked for,
\* unless the tab has navigated since.
THEOREM PromptsGoWhereChecked == Spec => []PromptGoesWhereChecked
<1>1. BindingInv => PromptGoesWhereChecked
  BY DEF BindingInv
<1> QED BY <1>1, BindingInvHolds, PTL

-----------------------------------------------------------------------------
Asked == {job[j].binding : j \in {k \in Jobs : job[k].step = "pin"}}
Shown == {[tab |-> t, page |-> page[t]] : t \in Tabs} \cup ToSet(updates)
Submitted ==
  {job[j].binding.tab : j \in {k \in Jobs : job[k].step = "authorize"}}

\* The step of BindingPromise, in terms of what is stored.
PromiseStep ==
  /\ Asked' \subseteq Asked \cup Shown
  /\ \/ seal' \in {seal, NoBinding}
     \/ /\ session # NoBinding /\ session.page \in NewChats
        /\ session.tab \in Submitted /\ seal' = session
  /\ \/ session' \in {session, NoBinding} \cup Asked
     \/ /\ session # NoBinding /\ session = seal
        /\ session' \in Shown /\ session'.tab = session.tab
        /\ session'.page.provider = session.page.provider
        /\ session'.page \in Conversations

LEMMA PromiseStepIsPromised ==
  ASSUME MemoryIsStored, MemoryIsStored', PromiseStep
  PROVE  Promise!PromiseNext
<1>1. Loaded = session /\ Loaded' = session'
  BY LoadedIsStored DEF Loaded, MemoryIsStored
<1> QED BY <1>1 DEF PromiseStep, Promise!PromiseNext, Promise!License,
           Promise!Choose, Promise!Grow, Promise!GiveUp, Asked, Shown, Submitted

\* What a handler asks for, unless it has just inspected a tab, it asked before.
LEMMA AskedShrinks ==
  ASSUME NEW j \in Jobs, \A k \in Jobs \ {j} : job'[k] = job[k],
         job'[j].step # "pin" \/ job'[j] = job[j]
  PROVE  Asked' \subseteq Asked
BY DEF Asked

\* A handler leaves its place to another that asks for nothing.
LEMMA FinishAsks ==
  ASSUME TypeOK, NEW j \in Jobs,
         Finish(j) \/ \E step \in {"deliver", "authorize", "seal"} : Goes(j, step)
  PROVE  Asked' \subseteq Asked
<1>1. /\ \A k \in Jobs \ {j} : job'[k] = job[k]
      /\ job'[j].step # "pin"
  BY DEF Finish, Goes, Done, Handler, TypeOK
<1> QED BY <1>1, AskedShrinks

LEMMA DecidePromised ==
  ASSUME BindingInv, NEW j \in Jobs, Decide(j)
  PROVE  PromiseStep
<1>1. Asked' \subseteq Asked
  BY FinishAsks DEF Decide, BindingInv
<1> QED BY <1>1 DEF Decide, Clear, Persist, PromiseStep

LEMMA DeliveryPromised ==
  ASSUME BindingInv, NEW j \in Jobs, Deliver(j) \/ DeliveryFails(j)
  PROVE  PromiseStep
<1>1. Asked' \subseteq Asked
  BY FinishAsks DEF Deliver, DeliveryFails, BindingInv
<1> QED BY <1>1 DEF Deliver, DeliveryFails, PromiseStep

LEMMA DeliverAgainPromised ==
  ASSUME BindingInv, NEW j \in Jobs, NEW p \in Places, DeliverAgain(j, p)
  PROVE  PromiseStep
<1>1. job[j] \in Handlers /\ job[j].step = "deliver"
  BY UnderWay DEF BindingInv, DeliverAgain, Submits
<1>2. /\ \A k \in Jobs \ {j} : job'[k] = job[k]
      /\ job'[j] = [job[j] EXCEPT !.resent = TRUE]
  BY DEF DeliverAgain, BindingInv, TypeOK
<1>3. job'[j].step # "pin"
  BY <1>1, <1>2 DEF Handlers
<1>4. Asked' \subseteq Asked
  BY <1>2, <1>3, AskedShrinks
<1> QED BY <1>4 DEF DeliverAgain, PromiseStep

LEMMA AuthorizePromised ==
  ASSUME BindingInv, NEW j \in Jobs, Authorize(j)
  PROVE  PromiseStep
<1>1. Asked' \subseteq Asked
  BY FinishAsks DEF Authorize, BindingInv
<1>2. CASE UNCHANGED seal
  BY <1>1, <1>2 DEF Authorize, PromiseStep
<1>3. CASE /\ Provisional(Loaded) /\ Loaded.tab = job[j].binding.tab
           /\ seal' = Loaded
  <2>1. Loaded = session
    BY LoadedIsStored DEF BindingInv
  <2>2. job[j].binding.tab \in Submitted
    BY DEF Submitted, Authorize
  <2> QED BY <1>1, <1>3, <2>1, <2>2 DEF Authorize, PromiseStep, Provisional
<1> QED BY <1>2, <1>3 DEF Authorize

\* A page the browser reports may be what the new chat turned into.
LEMMA TrySealPromised ==
  ASSUME BindingInv, NEW tab \in Tabs, NEW p \in Places, TrySeal(tab, p),
         [tab |-> tab, page |-> p] \in Shown, Asked' \subseteq Asked
  PROVE  PromiseStep
<1>1. Loaded = session
  BY LoadedIsStored DEF BindingInv
<1>2. seal' \in {seal, NoBinding}
  BY TrySealKeeps DEF BindingInv
<1>3. CASE session' \in {session, NoBinding}
  BY <1>2, <1>3 DEF PromiseStep
<1>4. CASE /\ Loaded # NoBinding /\ Loaded = seal /\ p \in Conversations
           /\ session' = [tab |-> tab, page |-> p] /\ tab = Loaded.tab
           /\ p.provider = Loaded.page.provider
  BY <1>1, <1>2, <1>4 DEF PromiseStep
<1> QED BY <1>3, <1>4, TrySealKeeps DEF BindingInv

LEMMA SealAtOncePromised ==
  ASSUME BindingInv, NEW j \in Jobs, SealAtOnce(j)
  PROVE  PromiseStep
<1> DEFINE tab == job[j].binding.tab
<1>1. tab \in Tabs /\ page[tab] \in Places
  BY UnderWay DEF BindingInv, SealAtOnce, TypeOK
<1>2. Asked' \subseteq Asked /\ [tab |-> tab, page |-> page[tab]] \in Shown
  BY <1>1, FinishAsks DEF SealAtOnce, BindingInv, Shown
<1>3. CASE UNCHANGED <<memory, session, seal>>
  BY <1>2, <1>3 DEF PromiseStep
<1>4. CASE TrySeal(tab, page[tab])
  BY <1>1, <1>2, <1>4, TrySealPromised
<1> QED BY <1>3, <1>4 DEF SealAtOnce

LEMMA InspectPromised ==
  ASSUME BindingInv, NEW j \in Commands, NEW kind, NEW tab \in Tabs,
         Inspect(j, kind, tab)
  PROVE  PromiseStep
<1> DEFINE b == [tab |-> tab, page |-> page[tab]]
<1>1. /\ \A k \in Jobs \ {j} : job'[k] = job[k]
      /\ job'[j].binding = b
  BY DEF Inspect, BindingInv, TypeOK, Jobs, Handler
<1>2. Asked' \subseteq Asked \cup {b}
  BY <1>1 DEF Asked
<1>3. b \in Shown
  BY DEF Shown
<1> QED BY <1>2, <1>3 DEF Inspect, PromiseStep

LEMMA PinPromised ==
  ASSUME BindingInv, NEW j \in Jobs, Pin(j)
  PROVE  PromiseStep
<1>1. Asked' \subseteq Asked
  BY FinishAsks DEF Pin, BindingInv
<1>2. job[j].binding \in Asked
  BY DEF Pin, Asked
<1> QED BY <1>1, <1>2 DEF Pin, Persist, PromiseStep

LEMMA HandleUpdatePromised ==
  ASSUME BindingInv, HandleUpdate
  PROVE  PromiseStep
<1>1. updates \in Seq([tab : Tabs, page : Places]) /\ updates # <<>>
  BY DEF BindingInv, TypeOK, HandleUpdate
<1>2. Head(updates) \in [tab : Tabs, page : Places]
  BY <1>1, HeadTailProperties
<1>3. /\ Head(updates) = updates[1] /\ 1 \in DOMAIN updates
  BY <1>1, EmptySeq
<1>4. Head(updates) \in Shown
  BY <1>3 DEF Shown, ToSet
<1>5. [tab |-> Head(updates).tab, page |-> Head(updates).page] = Head(updates)
  BY <1>2
<1>6. Asked' \subseteq Asked
  BY DEF HandleUpdate, Asked
<1> QED BY <1>2, <1>4, <1>5, <1>6, TrySealPromised DEF HandleUpdate

LEMMA OthersPromised ==
  ASSUME BindingInv,
         \/ \E j \in Requests, kind \in {"send", "check"} : BeginCheck(j, kind)
         \/ \E lifecycle \in {"recovery_required", "complete", "running"},
               provider \in Interrupted : HostReports(lifecycle, provider)
         \/ \E choice \in Selectable : SelectProvider(choice)
         \/ \E tab \in Tabs, p \in Places : Navigate(tab, p)
         \/ SealExpires \/ GiveUp \/ WorkerRestarts \/ UNCHANGED vars
  PROVE  PromiseStep
<1>1. ASSUME NEW j \in Requests, NEW kind \in {"send", "check"},
             BeginCheck(j, kind)
      PROVE  PromiseStep
  <2>1. /\ \A k \in Jobs \ {j} : job'[k] = job[k]
        /\ job'[j].step # "pin"
    BY <1>1 DEF BeginCheck, BindingInv, TypeOK, Jobs, Handler
  <2>2. Asked' \subseteq Asked
    BY <2>1, AskedShrinks DEF Jobs
  <2> QED BY <1>1, <2>2 DEF BeginCheck, PromiseStep
<1>2. CASE WorkerRestarts
  <2>1. Asked' = {}
    BY <1>2 DEF WorkerRestarts, Asked, Done
  <2> QED BY <1>2, <2>1 DEF WorkerRestarts, PromiseStep
<1>3. CASE UNCHANGED job /\ session' \in {session, NoBinding}
             /\ seal' \in {seal, NoBinding}
  BY <1>3 DEF PromiseStep, Asked
<1> QED BY <1>1, <1>2, <1>3 DEF HostReports, SelectProvider, Navigate,
           SealExpires, GiveUp, Clear, Persist, vars

\* The service worker keeps its promise about the conversation in force.
THEOREM WorkerKeepsPromise == Spec => BindingPromiseKept
<1>1. ASSUME Init PROVE Promise!PromiseInit
  <2>1. Asked = {}
    BY <1>1 DEF Init, Asked, Done
  <2> QED BY <1>1, <2>1 DEF Init, Promise!PromiseInit, Loaded, Asked
<1>2. ASSUME BindingInv, BindingInv', [Next]_vars
      PROVE  Promise!PromiseNext
  <2>1. ASSUME NEW j \in Jobs, GoOn(j)
        PROVE  PromiseStep
    <3>1. CASE Deliver(j) \/ DeliveryFails(j)
      BY <1>2, <3>1, DeliveryPromised
    <3>2. CASE \E p \in Places : DeliverAgain(j, p)
      BY <1>2, <3>2, DeliverAgainPromised
    <3>3. CASE Decide(j) \/ Authorize(j)
      BY <1>2, <3>3, DecidePromised, AuthorizePromised
    <3>4. CASE SealAtOnce(j) \/ Pin(j)
      BY <1>2, <3>4, SealAtOncePromised, PinPromised
    <3> QED BY <2>1, <3>1, <3>2, <3>3, <3>4 DEF GoOn
  <2>2. PromiseStep
    BY <1>2, <2>1, InspectPromised, HandleUpdatePromised, OthersPromised
       DEF Next
  <2> QED BY <1>2, <2>2, PromiseStepIsPromised DEF BindingInv
<1> QED BY <1>1, <1>2, BindingInvHolds, PTL
        DEF Spec, BindingPromiseKept, Promise!PromiseSpec

=============================================================================
