CONSTANTS
  Scalars <- MCScalars
  Keys <- MCKeys
  MaxObjects = 4
  MaxMembers = 2
  Alphabet <- MCAlphabet
  AnyLen = 4
  MaxLen = 7
  MaxStr = 2
  Descriptors <- MCDescriptors
  Top = "Person"
  Inputs <- MCInputs
  W32 = 3
  W64 = 5
  File = {1, 2}
  Imports <- MCImports
  Enum = {1, 2}
  Contents <- MCContents
  Address = {1, 2, 3, 4}
  MaxEdits = 2
  MaxReloads = 2
  Params <- MCParams
  Answers <- MCAnswers
  m_count = 2
  Widths = {0, 4}
  MaxRuns = 2
  MaxClears = 1
  Commands <- MCCommands
  Words <- MCWords
  Replies <- MCReplies
  MaxParams = 3
  MaxTasks = 3
  MaxReads = 4
  Sizes = {0, 2, 4}
SPECIFICATION Spec
INVARIANTS JsonSound ProtoSound SqlSound 
CHECK_DEADLOCK FALSE
