--------------------------- MODULE ReliableStream ---------------------------
(***************************************************************************)
(* What a transfer promises to the two applications: the receiver's file   *)
(* only grows, at its end, by the next chunks of the sender's file.        *)
(***************************************************************************)
EXTENDS Naturals, Sequences

CONSTANT Length    \* number of chunks of the file

VARIABLE file      \* the chunks the receiver has written, in file order

Init == file = << >>

\* One or more of the next chunks arrive.
Deliver ==
  \E k \in Len(file)+1..Length : file' = [i \in 1..k |-> i]

Next == Deliver

Spec == Init /\ [][Next]_file
=============================================================================
