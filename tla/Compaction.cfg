SPECIFICATION Spec
CONSTANTS
  PAGE_SIZE = 2
  TextStart = 2
  TextEnd = 10
  FileEnd = 13
  DataGap = 2
  Filled = Filled
  InputRefs <- PieRefs
  Inputs <- ElfInputs
INVARIANTS
  TypeOK
  LiveCodeKept
  RefsFollow
  HeadersFollow
  UnwindFollows
  NeverHalfApplied
  AlignmentKept
  LsdaOffsetsKept
