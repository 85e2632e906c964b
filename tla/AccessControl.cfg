CONSTANTS
  x = x
  y = y
  t1 = t1
  t2 = t2
  anna = anna
  label = label
  bot = bot
  mail = mail
  called = called
  user = user
  agent = agent
  Servers = {x}
  MachineOf <- Machines
  Tools = {t1, t2}
  Subs = {anna, label, bot}
  Agents = {bot}
  Roles = {user, agent}
  People <- Known
  Policies <- Saved
  Handmade <- Edited
  Archives <- Backups
  MaxWrites = 2
  MaxTokens = 2
  None = None
  All = All
  Broken = Broken
  Unusable = Unusable
  Missing = Missing
SPECIFICATION Spec
INVARIANTS
  BannedIsRefused
  AgentsAreCurrent
  GrantsNameTheirCaller
  AnswersAreOfTheirTime
CHECK_DEADLOCK FALSE
