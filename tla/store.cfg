CONSTANTS
  t1 = t1
  t2 = t2
  t3 = t3
  a = a
  y = y
  Nil = Nil
  Threads = {t1, t2, t3}
  Contents = {a, y}
  YamlOff = {y}
  Boot = a
  Calls = {"apply", "reset", "disable", "enable"}
  MaxGen = 1
SPECIFICATION StoreSpec
SYMMETRY Perms
INVARIANTS PreviousIsLastDisplaced LockedStaysOff DisableReachesSnapshot
PROPERTIES Atomic
