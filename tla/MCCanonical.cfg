CONSTANTS
  Trees <- MCTrees
  EditedTrees <- MCEditedTrees
  Encoded <- MCEncoded
  Callers = {c1, c2}
  MaxEdits = 2
  KeyNames <- MCKeyNames
  Func = "func"
SPECIFICATION MemoSpec
CHECK_DEADLOCK FALSE
INVARIANTS OneAnswer EncodingExact
PROPERTIES CallersReturn
