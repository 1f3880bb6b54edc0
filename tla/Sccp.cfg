SPECIFICATION Spec
CONSTANTS
  MinDead = 1
  W = 2
  Bot = Bot
  Top = Top
  FLAGS = "flags"
  LowBits = 1
  MaxInstrs = 6
  IterFactor = 2
  Regs <- MCRegs
  CALLER_SAVED <- MCCallerSaved
  Programs <- MCPrograms
INVARIANTS
  TypeOK
  WorklistComplete
  ValuesSound
  DeadNeverEntered
PROPERTIES
  OnlyUp
