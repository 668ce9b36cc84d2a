---------------------------- MODULE BindingPromise ----------------------------
(***************************************************************************)
(* What the extension promises about the conversation a workflow is bound  *)
(* to: the human chooses it; a new chat may become the conversation it     *)
(* turns into, once and in the same tab, after a prompt of the workflow    *)
(* was submitted there; and it may be given up.  It never moves otherwise. *)
(***************************************************************************)

CONSTANTS NewChats, Conversations, NoBinding

VARIABLES
  bound,      \* the conversation of the workflow, or NoBinding
  asked,      \* what the human has asked to bind
  shown,      \* tabs and pages as the browser reports them
  submitted,  \* tabs in which a prompt of the workflow was just submitted
  licence     \* the new chat that may turn into a conversation, or NoBinding

promiseVars == <<bound, asked, shown, submitted, licence>>

PromiseInit == bound = NoBinding /\ licence = NoBinding /\ asked = {}

Choose == bound' \in asked

\* The licensed new chat has turned into a conversation.
Grow ==
  /\ bound # NoBinding /\ bound = licence
  /\ bound' \in shown
  /\ bound'.tab = bound.tab
  /\ bound'.page.provider = bound.page.provider
  /\ bound'.page \in Conversations

GiveUp == bound' = NoBinding

License ==
  /\ bound # NoBinding /\ bound.page \in NewChats /\ bound.tab \in submitted
  /\ licence' = bound

\* The human asks for what the browser shows.
PromiseNext ==
  /\ asked' \subseteq asked \cup shown
  /\ licence' \in {licence, NoBinding} \/ License
  /\ UNCHANGED bound \/ Choose \/ Grow \/ GiveUp

PromiseSpec == PromiseInit /\ [][PromiseNext]_promiseVars

=============================================================================
