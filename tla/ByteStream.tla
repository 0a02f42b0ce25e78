---------------------------- MODULE ByteStream -----------------------------
(***************************************************************************)
(* What the sender of a connection promises the rest of the server: bytes  *)
(* come out in the order they went in, none twice, and none left out. When *)
(* the connection closes the stream ends early, and nothing more goes in.  *)
(***************************************************************************)
EXTENDS Naturals, Sequences

CONSTANT MaxBytes  \* bound on the length of the stream

VARIABLES
  given,  \* the bytes accepted so far, the i-th of them the number i
  got,    \* the bytes the other end has
  closed

vars == <<given, got, closed>>

Init == given = <<>> /\ got = <<>> /\ closed = FALSE

Give ==
  /\ ~closed
  /\ \E n \in Len(given) + 1 .. MaxBytes : given' = [i \in 1 .. n |-> i]
  /\ UNCHANGED <<got, closed>>

Deliver ==
  /\ \E n \in Len(got) + 1 .. Len(given) : got' = SubSeq(given, 1, n)
  /\ UNCHANGED <<given, closed>>

Close == closed' = TRUE /\ UNCHANGED <<given, got>>

Next == Give \/ Deliver \/ Close

Spec == Init /\ [][Next]_vars

=============================================================================
