SPECIFICATION Spec
CONSTANTS
  owner = owner
  user = user
  bot = bot
  helper = helper
  me = me
  anon = anon
  tg = tg
  c1 = c1
  h1 = h1
  h2 = h2
  Handler = {h1,h2}
  Message <- AllMessages
  Input <- Inputs
  Channel = {c1}
  Sender = {owner,user,bot,helper,me,anon,tg}
  Bot = {bot,helper,me,anon}
  Target = {bot}
  GlobalBots = {helper}
  Self = me
  Creator = owner
  AnonymousBot = anon
  AllowAnonymousAdmin = TRUE
INVARIANTS TypeOK NoEscape TrustedNeverDeleted CommandsNeedAccess SilentToOthers
PROPERTIES OnlyCreatorChanges ImplementsModeration
