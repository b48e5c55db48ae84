CONSTANTS
  Index = {1, 2, 3}
  Name = {101, 102}
  Hash <- MCHash
  Val = {1}
  MAX_INT = 3
  Table = {"G", "w", "t"}
  Weak = {"w"}
  Function = {"f"}
  String = {"x"}
  Udata = {"d"}
  Upval = {"u"}
  Global = "G"
  Main = "main"
  Slots = {1, 2}
  Mixes <- MCMixes
  NilRef = "nil"
  Elem = {1, 2, 3}
  MaxSort = 5
  Less <- MCLess
  Char = {"a", "b"}
  MaxSubject = 4
  Pattern <- MCPattern
  LuaFunction = {"f"}
  BashVar = {"V"}
  Word = {"a b"}
  Result = {"false", "number"}
  MaxDepth = 5
  MaxStack = 6
  Source <- MCSource
  VarName = {"a", "b"}
  MaxFunc = 3
  MaxBlock = 3
  MaxVar = 2
  MaxOpen = 5
  Co = {"p", "q"}
  MainThread = "main"
  Handler = {1}
  LUAI_MAXCCALLS = 3
  MaxFrames = 5
  Program <- MCProgram
  Pieces <- MCPieces
  Quoted <- MCQuoted
  Bracketed <- MCBracketed
  Plain <- MCPlain
SPECIFICATION Spec
INVARIANTS
  LuaDataRight
  CollectorRight
  CompilerRight
  CallsRight
  BridgeRight
PROPERTIES
  IsMap
  FinalizedOnce
CHECK_DEADLOCK FALSE
