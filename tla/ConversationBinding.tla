------------------------- MODULE ConversationBinding -------------------------
(***************************************************************************)
(* The service worker of the extension (background.js): the browser tab    *)
(* and conversation a workflow is bound to.  The binding is kept in memory *)
(* and, for the next time the service worker is started, in                *)
(* chrome.storage.session.  Every handler is asynchronous: while it waits  *)
(* for the tabs, the settings or the content script, the pages and the     *)
(* binding may change.                                                     *)
(*                                                                         *)
(* Abstraction: chrome.storage.session answers at once.  Chrome carries    *)
(* out the calls of the extension in the order they are made.              *)
(***************************************************************************)
EXTENDS Naturals, Sequences, SequencesExt

CONSTANTS
  Tabs, Providers,
  NewChats, Conversations, OtherPages,  \* the pages of the providers
  Selectable,   \* what the human may select: a provider, or "auto"
  Interrupted,  \* providers a run may have been interrupted on
  Requests,     \* bound: requests of the host or a tab under way at once
  Commands,     \* bound: commands of the side panel under way at once
  MaxUpdates    \* bound: tabs.onUpdated events not yet handled

\* A page is identified by provider:path, and ROUTE_RULES tells its kind.
Pages == NewChats \cup Conversations \cup OtherPages
Jobs  == Requests \cup Commands

ASSUME BindingAssumption ==
  /\ "none" \notin Tabs /\ {"none", "auto"} \cap Providers = {}
  /\ \A p \in Pages : p.provider \in Providers
  /\ NewChats \cap Conversations = {}
  /\ Selectable \subseteq Providers \cup {"auto"} /\ Interrupted \subseteq Providers
  /\ MaxUpdates \in Nat

VARIABLES
  page,       \* what each tab shows
  selection,  \* the provider selected in chrome.storage.local, or "auto"
  memory,     \* lastLlmBinding
  session,    \* the binding in chrome.storage.session
  seal,       \* provisionalSealAuthorization: the binding it is for
  recovery,   \* recoveryProviderId
  job,        \* the handlers under way
  updates,    \* tabs.onUpdated events to come
  moved       \* ghost: requests whose tab has navigated since they looked

vars == <<page, selection, memory, session, seal, recovery, job, updates,
          moved>>

Elsewhere == [provider |-> "none", at |-> "elsewhere"]
Closed    == [provider |-> "none", at |-> "closed"]
Places    == Pages \cup {Elsewhere, Closed}

Bindings  == [tab : Tabs, page : Pages]
NoBinding == [tab |-> "none", page |-> Closed]
Provisional(b) == b # NoBinding /\ b.page \in NewChats

\* A handler and what it knows: the binding it works for, whether the tab
\* showed it when the handler looked, and whether the prompt was sent again.
Handler(kind, step, binding, fits) ==
  [kind |-> kind, step |-> step, binding |-> binding, fits |-> fits,
   resent |-> FALSE]
Handlers ==
  [kind : {"send", "check", "pin", "prepare"},
   step : {"decide", "deliver", "authorize", "seal", "pin"},
   binding : Bindings, fits : BOOLEAN, resent : BOOLEAN]
Done == [step |-> "done"]

Init ==
  /\ page \in [Tabs -> Pages]
  /\ selection \in Selectable
  /\ memory = NoBinding /\ session = NoBinding /\ seal = NoBinding
  /\ recovery = "none"
  /\ job = [j \in Jobs |-> Done] /\ updates = <<>>
  /\ moved = {}

-----------------------------------------------------------------------------
\* selectedProviderConfig.
Selected(provider) == selection \in {"auto", provider}

\* Slip: the sealed binding is not stored.
PersistInMemory(b) == memory' = b /\ UNCHANGED session

\* persistLlmBinding.
Persist(b) == memory' = b /\ session' = b

\* clearPinnedLlmTab.
Clear == Persist(NoBinding) /\ seal' = NoBinding

\* getLlmBinding: from memory, else from the session storage.
Loaded == IF memory # NoBinding THEN memory ELSE session

Finish(j) == job' = [job EXCEPT ![j] = Done] /\ moved' = moved \ {j}

\* A request goes on to its next step with what it knew at first.
Goes(j, step) ==
  job' = [job EXCEPT ![j] = Handler("send", step, job[j].binding, TRUE)]

\* Slip: the authorization is not compared with the binding.
TrySealAnyBinding(tab, p) ==
  \/ (seal = NoBinding \/ seal.tab # tab) /\ UNCHANGED <<memory, session, seal>>
  \/ /\ seal # NoBinding /\ seal.tab = tab
     /\ \/ ~Provisional(Loaded)
             /\ memory' = Loaded /\ UNCHANGED session /\ seal' = NoBinding
        \/ Provisional(Loaded) /\ p.provider # Loaded.page.provider /\ Clear
        \/ Provisional(Loaded) /\ p.provider = Loaded.page.provider
             /\ IF p \in Conversations
                  THEN Persist([tab |-> Loaded.tab, page |-> p])
                         /\ seal' = NoBinding
                  ELSE memory' = Loaded /\ UNCHANGED <<session, seal>>

\* trySealAuthorizedProvisionalBinding, when the tab is reported at p.
TrySeal(tab, p) ==
  \/ (seal = NoBinding \/ seal.tab # tab) /\ UNCHANGED <<memory, session, seal>>
  \/ /\ seal # NoBinding /\ seal.tab = tab
     /\ \/ /\ ~Provisional(Loaded) \/ Loaded # seal
           /\ memory' = Loaded /\ UNCHANGED session /\ seal' = NoBinding
        \/ /\ Provisional(Loaded) /\ Loaded = seal
           /\ \/ p.provider # Loaded.page.provider /\ Clear
              \/ /\ p.provider = Loaded.page.provider
                 /\ p \in Conversations
                 /\ Persist([tab |-> tab, page |-> p]) /\ seal' = NoBinding
              \/ /\ p.provider = Loaded.page.provider
                 /\ p \notin Conversations
                 /\ memory' = Loaded /\ UNCHANGED <<session, seal>>

-----------------------------------------------------------------------------
\* A send_to_llm message, or a reply, a safety signal or a download request of
\* the bound tab: findBoundLlmTab has a binding and asks for its tab.  Without a
\* binding, or for another tab, it refuses and changes nothing.
BeginCheck(j, kind) ==
  /\ job[j] = Done
  /\ Loaded # NoBinding
  /\ memory' = Loaded
  /\ job' = [job EXCEPT ![j] =
               Handler(kind, "decide", Loaded, page[Loaded.tab] = Loaded.page)]
  /\ UNCHANGED <<page, selection, session, seal, recovery, updates, moved>>

\* Slip: the conversation is not compared, only the provider.
DecideByProvider(j) ==
  /\ job[j].step = "decide"
  /\ IF Selected(job[j].binding.page.provider)
       THEN /\ IF job[j].kind = "send" THEN Goes(j, "deliver") /\ UNCHANGED moved
                                     ELSE Finish(j)
            /\ UNCHANGED <<memory, session, seal>>
       ELSE Clear /\ Finish(j)
  /\ UNCHANGED <<page, selection, recovery, updates>>

\* The tab and the selection are known: the binding holds, or it is given up.
Decide(j) ==
  /\ job[j].step = "decide"
  /\ IF job[j].fits /\ Selected(job[j].binding.page.provider)
       THEN /\ IF job[j].kind = "send" THEN Goes(j, "deliver") /\ UNCHANGED moved
                                     ELSE Finish(j)
            /\ UNCHANGED <<memory, session, seal>>
       ELSE Clear /\ Finish(j)
  /\ UNCHANGED <<page, selection, recovery, updates>>

\* The content script does not submit the prompt, or there is none.
DeliveryFails(j) ==
  /\ job[j].step = "deliver"
  /\ Finish(j)
  /\ UNCHANGED <<page, selection, memory, session, seal, recovery, updates>>

\* The content script of whatever page the tab now shows submits the prompt.
Submits(j) ==
  /\ job[j].step = "deliver" /\ page[job[j].binding.tab] \in Pages

\* SEND_TO_LLM.
Deliver(j) ==
  /\ Submits(j) /\ Goes(j, "authorize") /\ moved' = moved \ {j}
  /\ UNCHANGED <<page, selection, memory, session, seal, recovery, updates>>

\* The tab shows p; only a tab that is still there is reported.
Shows(tab, p) ==
  /\ page[tab] # Closed
  /\ page' = [page EXCEPT ![tab] = p]
  /\ IF p = Closed
       THEN UNCHANGED updates
       ELSE Len(updates) < MaxUpdates
              /\ updates' = Append(updates, [tab |-> tab, page |-> p])
  /\ moved' = moved \cup {j \in Requests : job[j].step \in {"decide", "deliver"}
                                           /\ job[j].binding.tab = tab}

\* The page is replaced before the content script answers: the message port
\* closes, and sendToContent sends the prompt once more.
DeliverAgain(j, p) ==
  /\ Submits(j) /\ ~job[j].resent
  /\ job' = [job EXCEPT ![j].resent = TRUE]
  /\ Shows(job[j].binding.tab, p)
  /\ UNCHANGED <<selection, memory, session, seal, recovery>>

\* authorizeProvisionalSealAfterSubmit; a binding to another tab or provider
\* is refused.
Authorize(j) ==
  /\ job[j].step = "authorize" /\ memory' = Loaded
  /\ IF /\ Provisional(Loaded) /\ Loaded.tab = job[j].binding.tab
        /\ Loaded.page.provider = job[j].binding.page.provider
       THEN seal' = Loaded /\ Goes(j, "seal") /\ UNCHANGED moved
       ELSE UNCHANGED seal /\ Finish(j)
  /\ UNCHANGED <<page, selection, session, recovery, updates>>

\* Its one immediate check of the tab, which may have gone.
SealAtOnce(j) ==
  LET tab == job[j].binding.tab
  IN /\ job[j].step = "seal"
     /\ IF page[tab] = Closed THEN UNCHANGED <<memory, session, seal>>
                              ELSE TrySeal(tab, page[tab])
     /\ Finish(j)
     /\ UNCHANGED <<page, selection, recovery, updates>>

-----------------------------------------------------------------------------
\* Slip: any tab will do.
InspectAnyTab(j, kind, tab) ==
  /\ job[j] = Done
  /\ kind = "prepare" => recovery # "none"
  /\ job' = [job EXCEPT ![j] =
               Handler(kind, "pin", [tab |-> tab, page |-> page[tab]], TRUE)]
  /\ UNCHANGED <<page, selection, memory, session, seal, recovery, updates, moved>>

\* plan_project, arm, change_course, finish_project, recovery_prepare:
\* inspectActiveLlmTab finds a supported tab of the selected provider.
Inspect(j, kind, tab) ==
  /\ job[j] = Done
  /\ kind = "prepare" => recovery # "none"
  /\ page[tab] \in Pages /\ Selected(page[tab].provider)
  /\ job' = [job EXCEPT ![j] =
               Handler(kind, "pin", [tab |-> tab, page |-> page[tab]], TRUE)]
  /\ UNCHANGED <<page, selection, memory, session, seal, recovery, updates, moved>>

\* pinLlmBinding.  An authorization for an earlier binding stays.
Pin(j) ==
  /\ job[j].step = "pin"
  /\ IF job[j].kind = "prepare" /\ recovery # job[j].binding.page.provider
       THEN UNCHANGED <<memory, session>> ELSE Persist(job[j].binding)
  /\ Finish(j)
  /\ UNCHANGED <<page, selection, seal, recovery, updates>>

\* A state message of the native host.
HostReports(lifecycle, provider) ==
  /\ recovery' = IF lifecycle = "recovery_required" THEN provider ELSE "none"
  /\ IF lifecycle \in {"recovery_required", "complete"}
       THEN Clear ELSE UNCHANGED <<memory, session, seal>>
  /\ UNCHANGED <<page, selection, job, updates, moved>>

\* recovery_discard; runtime.onStartup.
GiveUp ==
  /\ Clear
  /\ UNCHANGED <<page, selection, recovery, job, updates, moved>>

\* save_config.
SelectProvider(choice) ==
  /\ selection' = choice
  /\ UNCHANGED <<page, memory, session, seal, recovery, job, updates,
                 moved>>

\* The tab navigates, inside the page or by loading another one, or closes.
Navigate(tab, p) ==
  /\ page[tab] # p /\ Shows(tab, p)
  /\ UNCHANGED <<selection, memory, session, seal, recovery, job>>

\* tabs.onUpdated.
HandleUpdate ==
  /\ updates # <<>> /\ updates' = Tail(updates)
  /\ TrySeal(Head(updates).tab, Head(updates).page)
  /\ UNCHANGED <<page, selection, recovery, job, moved>>

\* PROVISIONAL_SEAL_AUTH_TTL_MS have passed.
SealExpires ==
  /\ seal # NoBinding /\ seal' = NoBinding
  /\ UNCHANGED <<page, selection, memory, session, recovery, job, updates,
                 moved>>

\* Chrome ends the service worker and starts it again: storage.session stays.
WorkerRestarts ==
  /\ memory' = NoBinding /\ seal' = NoBinding /\ recovery' = "none"
  /\ job' = [j \in Jobs |-> Done] /\ updates' = <<>> /\ moved' = {}
  /\ UNCHANGED <<page, selection, session>>

\* What a handler under way does next.
GoOn(j) ==
  \/ Decide(j) \/ Deliver(j) \/ DeliveryFails(j) \/ Authorize(j)
  \/ SealAtOnce(j) \/ Pin(j) \/ \E p \in Places : DeliverAgain(j, p)

Next ==
  \/ \E j \in Requests, kind \in {"send", "check"} : BeginCheck(j, kind)
  \/ \E j \in Commands, kind \in {"pin", "prepare"}, tab \in Tabs :
       Inspect(j, kind, tab)
  \/ \E j \in Jobs : GoOn(j)
  \/ \E lifecycle \in {"recovery_required", "complete", "running"},
        provider \in Interrupted : HostReports(lifecycle, provider)
  \/ \E choice \in Selectable : SelectProvider(choice)
  \/ \E tab \in Tabs, p \in Places : Navigate(tab, p)
  \/ HandleUpdate \/ SealExpires \/ GiveUp \/ WorkerRestarts

Spec == Init /\ [][Next]_vars

-----------------------------------------------------------------------------
TypeOK ==
  /\ page \in [Tabs -> Places]
  /\ selection \in Selectable
  /\ {memory, session, seal} \subseteq Bindings \cup {NoBinding}
  /\ recovery \in Interrupted \cup {"none"}
  /\ job \in [Jobs -> Handlers \cup {Done}]
  /\ updates \in Seq([tab : Tabs, page : Places])
  /\ moved \subseteq Requests

\* The binding in memory is the one the next service worker will find: no
\* seal, pin or clear leaves them apart (persistLlmBinding, clearPinnedLlmTab).
MemoryIsStored == memory # NoBinding => memory = session

\* The conversation in force moves only by the human's choice, or from a new
\* chat to the conversation it became, whatever handlers, navigations and
\* restarts come between (README.md:47, "instead of silently following browser
\* focus or same-tab navigation").
Promise == INSTANCE BindingPromise WITH
  bound <- Loaded,
  asked <- {job[j].binding : j \in {k \in Jobs : job[k].step = "pin"}},
  shown <- {[tab |-> t, page |-> page[t]] : t \in Tabs} \cup ToSet(updates),
  submitted <-
    {job[j].binding.tab : j \in {k \in Jobs : job[k].step = "authorize"}},
  licence <- seal
BindingPromiseKept == Promise!PromiseSpec

\* A prompt of the workflow goes to the conversation it was checked for, unless
\* the tab has navigated since that check (findBoundLlmTab, sendToContent).
PromptGoesWhereChecked ==
  \A j \in Requests :
    job[j].step = "deliver" /\ j \notin moved
      => page[job[j].binding.tab] = job[j].binding.page

=============================================================================
