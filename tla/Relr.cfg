SPECIFICATION Spec
CONSTANTS
  WORD = 2
  BITMAP_BITS = 2
  PAGE = 8
  EHDR_SIZE = 2
  PHDR_SIZE = 2
  SHDR_SIZE = 2
  DYN_SIZE = 4
  REL_SIZE = 4
  RELA_SIZE = 6
  MAX_VERSIONS = 4
  SHN_LORESERVE = 20
  NameWord = 99
  Images <- MCImages
INVARIANTS
  TypeOK
  StillMappable
  SectionsKept
PROPERTY
  LoadsTheSame
