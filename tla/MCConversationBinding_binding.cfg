SPECIFICATION Spec
CONSTANTS
  chatgpt = chatgpt
  claude = claude
  Tabs = {t1, t2}
  Providers = {chatgpt, claude}
  NewChats <- MCNewChats
  Conversations <- MCConversations
  OtherPages = {}
  Selectable = {"auto", claude}
  Interrupted = {claude}
  Requests = {1}
  Commands = {2}
  MaxUpdates = 1
SYMMETRY Symmetric
INVARIANTS
  TypeOK
  MemoryIsStored
  PromptGoesWhereChecked
PROPERTIES
  BindingPromiseKept
