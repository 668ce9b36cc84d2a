------------------------ MODULE MCConversationBinding ------------------------
(***************************************************************************)
(* ConversationBinding for TLC: one provider with a new chat and a         *)
(* conversation, another one with a conversation only.                     *)
(***************************************************************************)
EXTENDS ConversationBinding, TLC

CONSTANTS chatgpt, claude

MCNewChats      == {[provider |-> chatgpt, at |-> "new"]}
MCConversations == {[provider |-> p, at |-> "chat"] : p \in {chatgpt, claude}}

Symmetric == Permutations(Tabs)

=============================================================================
