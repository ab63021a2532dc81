CONSTANTS
  c1 = c1
  c2 = c2
  q1 = q1
  k1 = k1
  k2 = k2
  k3 = k3
  Nil = Nil
  Missing = Missing
  Unset = Unset
  Bad = Bad
  Clients = {c1, c2}
  Queries = {q1}
  Keys = {k1, k2, k3}
  Exps = {}
  Kinds = {"plan", "apply", "activate", "expire", "reset", "disable", "enable"}
  Files <- MCFiles
  IdempMax = 2
  AuditMax = 2
  MaxGen = 2
SPECIFICATION Spec
SYMMETRY Perms
CONSTRAINT OneLoad
INVARIANTS AuditTellsHistory PolicyInForce NoReplayAcrossReset
PROPERTIES NoLostUpdate NoDoubleApply
