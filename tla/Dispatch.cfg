CONSTANTS
  Agents = {a1, a2}
  Tasks = {t1, t2}
  NoTask = NoTask
  idleCyclesBeforeRequest = 1
  maxWaitingCycles = 0
  MaxUp = 2
  MaxDrops = 0
SPECIFICATION Spec
SYMMETRY Symmetry
INVARIANTS
  TypeOK
  CountersMatchRegistry
  SingleOwner
  RegistryCatchesUp
