CONSTANTS
  r1 = r1  r2 = r2  alice = alice
  allowAll = allowAll  denyOne = denyOne  allowSub = allowSub  denySub = denySub
  Level = {"+", "#", "a", "b"}
  User = {alice}
  Password = {"right", "new"}
  NoUser = NoUser
  Role = {r1, r2}
  Rule = {allowAll, denyOne, allowSub, denySub}
  RuleOf <- MCRuleOf
  Session = {"s"}
  Request <- MCRequest
  MaxEdits = 2
  ProbeTopic <- MCProbeTopic
SPECIFICATION Spec
INVARIANTS
  TypeOK
  StableDenyWins
  GrantHasGrounds
  OneEditExact
