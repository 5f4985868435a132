SPECIFICATION Spec
CONSTANTS
  letter = letter
  tty1 = tty1
  tty2 = tty2
  w = w
  r = r
  Ctrl = Ctrl
  Terms = {tty1, tty2}
  First = tty1
  Loads <- MCLoads
  NL = NL
  BS = BS
  CR = CR
  NUL = NUL
  Block = Block
  Tick = Tick
  T = T
  Keys <- MCKeys
  Letters = {letter}
  NEvents = 3
  MaxChars = 3
  MaxPermits = 1
  Writers = {w}
  Readers = {r}
  Counts = {2}
  QSize = 4
  Columns = 2
  Lines = 2
CHECK_DEADLOCK FALSE
INVARIANTS EventsCounted LinesCounted ScreenTrue
PROPERTY ImplementsDiscipline
