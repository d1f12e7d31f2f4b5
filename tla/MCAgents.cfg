SPECIFICATION Spec
CONSTANTS
  None = None
  grp = grp
  adm = adm
  rg = rg
  rg2 = rg2
  ra = ra
  yu = yu
  yv = yv
  yd = yd
  Sessions = {grp, adm}
  AdminChat = adm
  Requests = {rg, rg2, ra}
  Replies = {yu, yv, yd}
  SessOf <- MCSessOf
  ViaAdmin = {rg2}
  Entitled <- MCEntitled
  Allows = {yu, yv, yd}
  TaskSubs = {a1, a2, a3}
  MaxRounds = 2
  SessionSubs = {b1, b2}
  MaxTurns = 2
  MaxStops = 1
  TeamCalls <- MCTeamCalls
  Builtin = {"b"}
  TeamNames = {"t"}
  Defined <- MCDefined
  MaxTeams = 1
  MaxMembers = 2
  MemberTime = 1
  RequestTime = 4
  Reserve = 2
  MaxChanges = 1
INVARIANTS
  RepliesDecideTheirRequest
  SubagentsAreSettled
PROPERTY EverythingEnds
CHECK_DEADLOCK FALSE
