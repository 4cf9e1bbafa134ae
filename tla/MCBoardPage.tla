---------------------------- MODULE MCBoardPage ----------------------------
(* A tab and two boards: see MCBoardPage.cfg for the bounds. *)
EXTENDS BoardPage, TLC

\* Blamed states, of which the property says nothing, are not followed (`blame` only grows), but
\* for those of a failed call.
Unblamed == blame \subseteq {"failed call"}

Symmetry == Permutations(Boards)
=============================================================================
