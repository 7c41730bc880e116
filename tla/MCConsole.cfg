SPECIFICATION FairSpec
CONSTANTS
  r1 = r1
  w1 = w1
  x = x
  intr = intr
  Newline = Newline
  EndOfFile = EndOfFile
  Backspace = Backspace
  KillLine = KillLine
  Empty = Empty
  NoOne = NoOne
  Readers = {r1}
  Writers = {w1}
  Chars = {x}
  INPUT_BUF_SIZE = 2
  UART_TX_BUF_SIZE = 1
  UINT32 = 4
  RX_FIFO = 1
  TX_FIFO = 2
  MaxRead = 2
INVARIANT ReaderAwaited
PROPERTIES LineDiscipline  WriterWakes
