-------------------------------- MODULE Tty ---------------------------------
(* What the console promises its readers: lines that can be edited until   *)
(* they end, and that are then read once, in the order they were typed.    *)
EXTENDS Naturals, Sequences

CONSTANTS Chars,     \* ordinary characters
          Newline, EndOfFile,
          Capacity

VARIABLES ready, \* characters of finished lines that nobody has read
          edit   \* the line that is being typed

vars == <<ready, edit>>

Init == ready = <<>> /\ edit = <<>>

Room == Len(ready) + Len(edit) < Capacity

Type(c) ==
  /\ Room
  /\ Len(ready) + Len(edit) + 1 < Capacity
  /\ edit' = Append(edit, c)
  /\ UNCHANGED ready

(* A line ends with its terminator, or when no more fits. *)
EndLine(c) ==
  /\ Room
  /\ c \in {Newline, EndOfFile} \/ Len(ready) + Len(edit) + 1 = Capacity
  /\ ready' = ready \o Append(edit, c)
  /\ edit' = <<>>

Erase(n) ==
  /\ n \in 1 .. Len(edit)
  /\ edit' = SubSeq(edit, 1, Len(edit) - n)
  /\ UNCHANGED ready

(* A read takes characters of one line only, and an end-of-file by itself. *)
Read(n) ==
  /\ n \in 1 .. Len(ready)
  /\ \A i \in 1 .. n - 1 : ready[i] \notin {Newline, EndOfFile}
  /\ n > 1 => ready[n] # EndOfFile
  /\ ready' = SubSeq(ready, n + 1, Len(ready))
  /\ UNCHANGED edit

Next ==
  \/ \E c \in Chars : Type(c)
  \/ \E c \in Chars \cup {Newline, EndOfFile} : EndLine(c)
  \/ \E n \in 1 .. Capacity : Erase(n) \/ Read(n)

Spec == Init /\ [][Next]_vars
=============================================================================
