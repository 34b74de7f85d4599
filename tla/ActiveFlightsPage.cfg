SPECIFICATION FairSpec
CONSTANTS
  casual = casual
  expert = expert
  text = text
  x1 = x1
  x2 = x2
  NoServer = NoServer
  NoText = NoText
  None = None
  Servers = {casual, expert}
  Default = casual
  Texts = {NoText, text}
  Slots = {x1, x2}
  MaxEdits = 2
  Faults = {"sessions", "flights"}
INVARIANTS TypeOK UrlFollowsForm
PROPERTIES MapFollowsForm
