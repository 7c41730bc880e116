------------------------------ MODULE Console -------------------------------
(***************************************************************************)
(* The console of kernel/console.c over the serial port of kernel/uart.c:  *)
(* threads in consoleread() and consolewrite(), the interrupt handler      *)
(* uartintr(), and the device (external), which receives keys, sends what  *)
(* is in its transmit FIFO, and interrupts when a key arrives or the FIFO  *)
(* runs empty.                                                             *)
(*                                                                         *)
(* A section under cons.lock or uart_tx_lock is one step, except where it  *)
(* reads the status register and later writes the transmit register: the   *)
(* device and the other lock's holder move in between.  A slot of a ring   *)
(* that was consumed is cleared.                                           *)
(***************************************************************************)
EXTENDS Integers, FiniteSets, FiniteSetsExt, Sequences

CONSTANTS Readers, Writers,
          intr,              \* the interrupt handler, as an actor
          Chars,             \* ordinary characters
          Newline, EndOfFile, Backspace, KillLine, \* the other keys
          Empty,             \* a slot without character
          NoOne,             \* holder of a lock that is free
          INPUT_BUF_SIZE, UART_TX_BUF_SIZE,
          UINT32,            \* cons.r, cons.w and cons.e wrap around here
          RX_FIFO, TX_FIFO,  \* sizes of the device's FIFOs
          MaxRead            \* most bytes a read() asks for

Threads == Readers \cup Writers
Keys == Chars \cup {Newline, EndOfFile, Backspace, KillLine}

ASSUME ConsoleAssumption ==
  /\ INPUT_BUF_SIZE \in Nat \ {0} /\ UART_TX_BUF_SIZE \in Nat /\ UINT32 \in Nat
  /\ UINT32 % INPUT_BUF_SIZE = 0 /\ UINT32 > INPUT_BUF_SIZE
  /\ Backspace # KillLine /\ {intr, NoOne} \cap Threads = {} /\ intr # NoOne
  /\ TX_FIFO >= 2  \* one byte for each processor that may write

VARIABLES
  buf, r, w, e,        \* struct cons
  tx, txlock,          \* uart_tx_buf between uart_tx_r and uart_tx_w; its lock
  thr, rhr, interrupt, \* the device: bytes to send, keys received, interrupt
  pc, n, target,       \* the threads and the handler; locals of consoleread
  echo,                \* bytes consoleintr() has yet to echo
  killed

consVars == <<buf, r, w, e>>
uartVars == <<tx, txlock>>
deviceVars == <<thr, rhr, interrupt>>
threadVars == <<n, target, killed>>
vars == <<consVars, uartVars, deviceVars, pc, threadVars, echo>>

(* consoleinit(), uartinit() *)
Init ==
  /\ buf = [i \in 0 .. INPUT_BUF_SIZE - 1 |-> Empty]
  /\ r = 0 /\ w = 0 /\ e = 0
  /\ tx = <<>> /\ txlock = NoOne
  /\ thr = 0 /\ rhr = <<>> /\ interrupt = FALSE
  /\ pc = [a \in Threads \cup {intr} |-> "user"]
  /\ n = [t \in Readers |-> 0] /\ target = [t \in Readers |-> 0]
  /\ killed = {} /\ echo = 0

Goto(a, label) == pc' = [pc EXCEPT ![a] = label]

-----------------------------------------------------------------------------
(* consoleread() *)

Slot(i) == i % INPUT_BUF_SIZE
Minus(i, j) == (i - j) % UINT32
Plus(i, k) == (i + k) % UINT32

(* cons.lock is held by consoleintr() until it has echoed. *)
ConsLockFree == pc[intr] \notin {"echo", "echo_thr"}

(* The characters between two indices. *)
Between(i, j) == [k \in 1 .. Minus(j, i) |-> buf[Slot(Plus(i, k - 1))]]

ReadCall(t, len) ==
  /\ pc[t] = "user"
  /\ n' = [n EXCEPT ![t] = len]
  /\ target' = [target EXCEPT ![t] = len]
  /\ Goto(t, "read")
  /\ UNCHANGED <<consVars, uartVars, deviceVars, killed, echo>>

Ready == Between(r, w)

(* Where the loop of consoleread() ends: at a line end or after n bytes.   *)
Stops(t) == {k \in 1 .. Len(Ready) :
               Ready[k] \in {Newline, EndOfFile} \/ k = n[t]}

Consume(k) ==
  /\ buf' = [i \in DOMAIN buf |->
               IF \E j \in 0 .. k - 1 : i = Slot(Plus(r, j)) THEN Empty ELSE buf[i]]
  /\ r' = Plus(r, k)

ReadReturns(t) ==
  /\ Goto(t, "user")
  /\ n' = [n EXCEPT ![t] = 0]
  /\ target' = [target EXCEPT ![t] = 0]
  /\ killed' = killed \ {t}

(* An end-of-file that follows other bytes is kept for the next read. *)
KeepsEof(t, k) == Ready[k] = EndOfFile /\ (k > 1 \/ n[t] < target[t])

ReadLine(t) ==
  /\ pc[t] = "read" /\ ConsLockFree
  /\ Stops(t) # {}
  /\ LET k == Min(Stops(t)) IN Consume(IF KeepsEof(t, k) THEN k - 1 ELSE k)
  /\ ReadReturns(t)
  /\ UNCHANGED <<w, e, uartVars, deviceVars, echo>>

(* either_copyout() fails: the character is lost. *)
ReadFaults(t) ==
  /\ pc[t] = "read" /\ ConsLockFree
  /\ Ready # <<>> /\ Ready[1] # EndOfFile
  /\ Consume(1)
  /\ ReadReturns(t)
  /\ UNCHANGED <<w, e, uartVars, deviceVars, echo>>

(* All there is has been read, and it is not enough. *)
ReadSleeps(t) ==
  /\ pc[t] = "read" /\ ConsLockFree
  /\ Stops(t) = {}
  /\ Consume(Len(Ready))
  /\ IF t \in killed
     THEN ReadReturns(t)
     ELSE /\ n' = [n EXCEPT ![t] = @ - Len(Ready)]
          /\ Goto(t, "read_asleep")
          /\ UNCHANGED <<target, killed>>
  /\ UNCHANGED <<w, e, uartVars, deviceVars, echo>>

-----------------------------------------------------------------------------
(* consolewrite(), uartputc() and uartstart() *)

WriteCall(t) ==
  /\ pc[t] = "user"
  /\ Goto(t, "putc")
  /\ UNCHANGED <<consVars, uartVars, deviceVars, threadVars, echo>>

(* The loop of consolewrite() ends: n bytes are written, or either_copyin() *)
(* fails.                                                                  *)
WriteReturns(t) ==
  /\ pc[t] = "putc"
  /\ Goto(t, "user")
  /\ UNCHANGED <<consVars, uartVars, deviceVars, threadVars, echo>>

(* The transmit buffer is full; the variant is off by one. *)
TxFull_Late == Len(tx) > UART_TX_BUF_SIZE
TxFull == Len(tx) = UART_TX_BUF_SIZE

Uartputc(t, c) ==
  /\ pc[t] = "putc" /\ txlock = NoOne
  /\ IF TxFull
     THEN Goto(t, "write_asleep") /\ UNCHANGED uartVars
     ELSE /\ tx' = Append(tx, c)
          /\ txlock' = t
          /\ Goto(t, "uartstart")
  /\ UNCHANGED <<consVars, deviceVars, threadVars, echo>>

(* LSR_TX_IDLE *)
TxIdle == thr = 0

(* wakeup(&uart_tx_r); the variant is a missing call. *)
WakeWriters_Missing == pc
WakeWriters == [a \in DOMAIN pc |->
                  IF pc[a] = "write_asleep" THEN "putc" ELSE pc[a]]

(* One turn of the loop of uartstart(), up to the write of THR. *)
Uartstart(a) ==
  /\ pc[a] = "uartstart"
  /\ IF tx = <<>> \/ ~TxIdle
     THEN /\ txlock' = NoOne
          /\ Goto(a, IF a = intr THEN "user" ELSE "putc")
     ELSE /\ pc' = [WakeWriters EXCEPT ![a] = "thr"]
          /\ UNCHANGED txlock
  /\ UNCHANGED <<consVars, tx, deviceVars, threadVars, echo>>

WriteThr(a) ==
  /\ pc[a] = "thr"
  /\ thr' = thr + 1
  /\ tx' = Tail(tx)
  /\ Goto(a, "uartstart")
  /\ UNCHANGED <<consVars, txlock, rhr, interrupt, threadVars, echo>>

-----------------------------------------------------------------------------
(* uartintr() and consoleintr() *)

IntrEnter ==
  /\ pc[intr] = "user" /\ interrupt
  /\ interrupt' = FALSE
  /\ Goto(intr, "uartgetc")
  /\ UNCHANGED <<consVars, uartVars, thr, rhr, threadVars, echo>>

(* wakeup(&cons.r); the variant is a missing call. *)
WakeReaders_Missing == pc
WakeReaders == [a \in DOMAIN pc |->
                  IF pc[a] = "read_asleep" THEN "read" ELSE pc[a]]

Edit == Between(w, e)

(* How many characters of the line ^U erases; the variant goes on into     *)
(* finished lines.                                                         *)
Killed_All == Minus(e, r)
Killed == Len(Edit) - Max({0} \cup {k \in 1 .. Len(Edit) : Edit[k] = Newline})

(* The bytes that consputc() sends for a character. *)
consputc(c) == IF c = Backspace THEN 3 ELSE 1

EraseLast(k) ==
  /\ e' = Minus(e, k)
  /\ buf' = [i \in DOMAIN buf |->
               IF \E j \in 1 .. k : i = Slot(Minus(e, j)) THEN Empty ELSE buf[i]]
  /\ echo' = k * consputc(Backspace)
  /\ pc' = [pc EXCEPT ![intr] = "echo"]
  /\ UNCHANGED <<r, w>>

(* A character ends the line, or fills the buffer. *)
Commits(c) == c \in {Newline, EndOfFile} \/ Minus(Plus(e, 1), r) = INPUT_BUF_SIZE

(* The buffer has room for one more character. *)
HasRoom == Minus(e, r) < INPUT_BUF_SIZE

Store(c) ==
  /\ buf' = [buf EXCEPT ![Slot(e)] = c]
  /\ e' = Plus(e, 1)
  /\ w' = IF Commits(c) THEN Plus(e, 1) ELSE w
  /\ echo' = consputc(c)
  /\ pc' = [(IF Commits(c) THEN WakeReaders ELSE pc) EXCEPT ![intr] = "echo"]
  /\ UNCHANGED r

uartgetc == Head(rhr)

(* uartgetc() and consoleintr() up to the echo.  A carriage return is a    *)
(* newline, ^P and NUL change nothing and are left out.                    *)
Consoleintr ==
  /\ pc[intr] = "uartgetc" /\ rhr # <<>>
  /\ rhr' = Tail(rhr)
  /\ LET c == uartgetc
     IN  CASE c = KillLine -> EraseLast(Killed)
           [] c = Backspace /\ e # w -> EraseLast(1)
           [] c \notin {KillLine, Backspace} /\ HasRoom -> Store(c)
           [] OTHER -> UNCHANGED <<consVars, pc, echo>>
  /\ UNCHANGED <<uartVars, thr, interrupt, threadVars>>

(* uartputc_sync() waits for LSR_TX_IDLE, holding no lock of the uart. *)
EchoPoll ==
  /\ pc[intr] = "echo"
  /\ echo = 0 \/ TxIdle
  /\ Goto(intr, IF echo = 0 THEN "uartgetc" ELSE "echo_thr")
  /\ UNCHANGED <<consVars, uartVars, deviceVars, threadVars, echo>>

EchoWrite ==
  /\ pc[intr] = "echo_thr"
  /\ thr' = thr + 1
  /\ echo' = echo - 1
  /\ Goto(intr, "echo")
  /\ UNCHANGED <<consVars, uartVars, rhr, interrupt, threadVars>>

(* No more input: the handler turns to the output. *)
AfterInput == txlock = NoOne /\ Goto(intr, "uartstart") /\ txlock' = intr

IntrOutput ==
  /\ pc[intr] = "uartgetc" /\ rhr = <<>>
  /\ AfterInput
  /\ UNCHANGED <<consVars, tx, deviceVars, threadVars, echo>>

-----------------------------------------------------------------------------
(* The device, and kill() *)

DevReceive(c) ==
  /\ Len(rhr) < RX_FIFO
  /\ rhr' = Append(rhr, c)
  /\ interrupt' = TRUE
  /\ UNCHANGED <<consVars, uartVars, thr, pc, threadVars, echo>>

DevSend ==
  /\ thr > 0
  /\ thr' = thr - 1
  /\ interrupt' = (interrupt \/ thr = 1)
  /\ UNCHANGED <<consVars, uartVars, rhr, pc, threadVars, echo>>

(* Only consoleread() asks whether it was killed. *)
Kill(t) ==
  /\ IF t \in Readers
     THEN pc[t] # "user" /\ t \notin killed /\ killed' = killed \cup {t}
     ELSE pc[t] = "write_asleep" /\ UNCHANGED killed
  /\ Goto(t, CASE pc[t] = "read_asleep" -> "read"
               [] pc[t] = "write_asleep" -> "putc" [] OTHER -> pc[t])
  /\ UNCHANGED <<consVars, uartVars, deviceVars, n, target, echo>>

-----------------------------------------------------------------------------
Handler == IntrEnter \/ Consoleintr \/ EchoPoll \/ EchoWrite \/ IntrOutput

Next ==
  \/ \E t \in Readers : \/ \E len \in 1 .. MaxRead : ReadCall(t, len)
                        \/ ReadLine(t) \/ ReadFaults(t) \/ ReadSleeps(t)
  \/ \E t \in Writers : \/ WriteCall(t) \/ WriteReturns(t)
                        \/ \E c \in Chars : Uartputc(t, c)
  \/ \E a \in Writers \cup {intr} : Uartstart(a) \/ WriteThr(a)
  \/ Handler
  \/ DevSend \/ \E c \in Keys : DevReceive(c)
  \/ \E t \in Threads : Kill(t)

Spec == Init /\ [][Next]_vars

(* The device sends, its interrupts are taken, the handler and a thread    *)
(* that holds uart_tx_lock run on.  uartputc_sync() polls until it finds   *)
(* the FIFO empty.  Nobody need ever type, read or write.                  *)
Fairness ==
  /\ WF_vars(DevSend)
  /\ WF_vars(IntrEnter) /\ WF_vars(Consoleintr) /\ WF_vars(EchoWrite)
  /\ SF_vars(EchoPoll) /\ SF_vars(IntrOutput)
  /\ \A a \in Writers \cup {intr} : WF_vars(Uartstart(a)) /\ WF_vars(WriteThr(a))

FairSpec == Spec /\ Fairness

-----------------------------------------------------------------------------
(* The console keeps the promise of Tty: backspace and ^U only touch the   *)
(* line being typed, a line is read as it stood when it ended, in order,   *)
(* and one read() returns at most one line.                                *)
T == INSTANCE Tty WITH ready <- Ready, edit <- Edit, Capacity <- INPUT_BUF_SIZE
LineDiscipline == T!Spec

(* A reader sleeps only while there is no finished line. *)
ReaderAwaited ==
  ConsLockFree => \A t \in Readers : pc[t] = "read_asleep" => r = w

(* Bytes of consolewrite() are sent in order, none lost or twice, whoever  *)
(* of uartputc() and uartintr() sends them.                                *)
F == INSTANCE Fifo WITH queue <- tx, readopen <- TRUE, writeopen <- TRUE,
                        Bytes <- Chars, Capacity <- UART_TX_BUF_SIZE
TxIsFifo == F!Spec

(* A writer that sleeps because the buffer is full wakes up, unless keys   *)
(* arrive so fast that uartintr() never leaves its input loop.             *)
WriterWakes ==
  <>[](rhr = <<>>) =>
    \A t \in Writers : pc[t] = "write_asleep" ~> pc[t] # "write_asleep"
=============================================================================
