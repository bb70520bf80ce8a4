CONSTANTS
  ByteSize = 16
  ENTRIES_PER_TRAIL_BLOCK = 2
  SIZE_EXTERN_OUTPUT_BLOCK = 24
  SizeLimit = 200
  Page = 16
  MarshalHeaps <- MCMarshalHeaps
  Writers <- MCWriters
  Readers <- MCReaders
  UserBuffers = {3, 12, 21, 26, 40}
  Mallocs = {0, 1, 3}
  HalfBits = 3
  Operands64 <- MCOperands64
  NumberStrings <- MCNumberStrings
  FormatWidths = {0, 3, 8}
  ParseBuffer = 3
  COMPARE_STACK_INIT_SIZE = 2
  COMPARE_STACK_MAX_SIZE = 8
  CompareHeaps <- MCCompareHeaps
  HashParams <- MCHashParams
  WordBytes = 4
  ByteStrings <- MCByteStrings
  VariantNames <- MCVariantNames
  MaxArray = 9
  Max_young = 4
  Max_size = 8
  HalfDigit = 2
  SomeDigits = {0, 1, 7, 8, 15}
  MaxViews = 3
  ShapeLimit = 2
  WordHalf = 2
  PageSize = 4
  Chars <- MCChars
  Regexps <- MCRegexps
  Texts <- MCTexts
  Replacements <- MCReplacements
  BACKTRACK_STACK_BLOCK_SIZE = 2
  Eof = 3
  LexTable <- MCLexTable
  LexTexts <- MCLexTexts
  AuxBuffer = 2
  LexBuffer = 3
  DescrKind <- MCDescrKind
  SelectQueries <- MCSelectQueries
  SelectCalls = 2
  MAXIMUM_SELECT_OBJECTS = 2
  THREAD_WORKERS_MAX = 1
  YaccTexts <- MCYaccTexts
  RuleLength = 2
  Untagged = {1}
  CompactHeaps <- MCCompactHeaps
  ChunkStarts <- MCChunkStarts
  Pages = {1, 2, 3, 4}
  PageWord = 256
  HASH_FACTOR = 158
  InitialPages = 1
  Pagetable2_size = 2
  RootAddrs = {1, 2, 3}
  RootValues = {"int", "young", "old"}
  TopLevel = 2
  ValueNames <- MCValueNames
  TableOps = 4
  DigestBlock = 4
  DigestTrailer = 2
  CountWord = 64
  DigestBuffer = 5
  MaxMessage = 18
  WinConsumers = 3
  StartFiles <- MCStartFiles
  StartOptions <- MCStartOptions
  StartArgs <- MCStartArgs
  Builtin = {1}
  Dlls <- MCDlls
  LdLibraryPath <- MCLdLibraryPath
  LdConf <- MCLdConf
  CodeBlocks <- MCCodeBlocks
  SizeBase = 8
  RunParams <- MCRunParams
  Kilo = 16
  WordSize = 8
  PageWords = 2
  Minor_heap_min = 16
  Minor_heap_max = 48
  Heap_chunk_min = 4
  MaxYoungWords = 1
  NoCompaction = 1000
  MinorSizes = {0, 3, 9}
  Increments <- MCIncrements
  Controls <- MCControls
  GcSets = 2
  StackInUse = 3
  Addresses = 4096
  HeapMeasures <- MCHeapMeasures
SPECIFICATION Spec
INVARIANTS ReadsBack MessageWhole NumbersExact ValuesSound BigarraySound EnginesExact WindowsSound CompactionKeepsGraph RuntimeSound
CHECK_DEADLOCK FALSE
