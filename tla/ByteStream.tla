----------------------------- MODULE ByteStream -----------------------------
(***************************************************************************)
(* What a UTCP connection promises to the two applications in one          *)
(* direction: a pipe of limited capacity.  utcp_send puts bytes in at one  *)
(* end, utcp_read takes them out at the other, in order, each once, and    *)
(* nothing else happens to them.                                           *)
(***************************************************************************)
EXTENDS Integers, Sequences

CONSTANTS
  Source,    \* the bytes the sending application has
  Capacity   \* most bytes that can be on their way

VARIABLES
  written,  \* number of bytes of Source put in so far
  pipe,     \* bytes put in and not yet taken out
  output    \* bytes taken out

vars == <<written, pipe, output>>

Init == written = 0 /\ pipe = <<>> /\ output = <<>>

Write(n) ==
  /\ written' = written + n
  /\ written' <= Len(Source) /\ Len(pipe) + n <= Capacity
  /\ pipe' = pipe \o SubSeq(Source, written + 1, written')
  /\ UNCHANGED output

Read(n) ==
  /\ Len(output') = Len(output) + n
  /\ n <= Len(pipe)
  /\ output' = output \o SubSeq(pipe, 1, n)
  /\ pipe' = SubSeq(pipe, n + 1, Len(pipe))
  /\ UNCHANGED written

Next == \E n \in 1 .. Capacity : Write(n) \/ Read(n)

Spec == Init /\ [][Next]_vars
=============================================================================
