CONSTANTS
  NULL = NULL
  Item <- ContItems
  KeyOf <- ContKeyOf
  HashOf <- ContHash
  Upper <- ContUpper
  Node = {"n1", "n2", "n3"}
  Key <- ContKeys
  Value = {"v1", "v2", "v3"}
  Mem <- ContMem
  BucketCapacity = 1
  MaxPuts = 4
SPECIFICATION LibrarySpec
INVARIANTS
  ContainersSound
  TextSound
  DocumentsSound
  PatternSound
  ConfigSound
  LogsSound
  MemorySound
  ProcessesSound
  HttpSound
  ThreadsSound
  NetworkSound
PROPERTY MapImplements
