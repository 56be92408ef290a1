------------------------ MODULE MCSocketConnection ------------------------
(* SocketConnection on small pools; the .cfg files choose the threads that *)
(* reset without a reference and what the ring may refuse.                 *)
EXTENDS SocketConnection, TLC

\* Slots, descriptors and threads of one kind are interchangeable; used for
\* runs without temporal properties only.
Interchangeable == Permutations(Slots) \cup Permutations(Fds)
                   \cup Permutations(Workers) \cup Permutations(Resetters)
=============================================================================
