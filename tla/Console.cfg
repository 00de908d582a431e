SPECIFICATION Spec
CONSTANTS
  INPUT_BUF = 2
  WORD = 8
  Chars = {"a", "newline", "eof"}
  Controls = {"^H", "^U", "^C", "^V", "^B", "^X"}
  MaxN = 2
INVARIANTS
  NoMissedInput
PROPERTY
  LineDiscipline
