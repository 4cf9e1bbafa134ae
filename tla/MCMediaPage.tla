---------------------------- MODULE MCMediaPage ----------------------------
(* The CMS frontend with three files to upload.  Uploads, edits and faults are bounded together: *)
(* many uploads with one edit, many edits with no upload, and so on.                            *)
EXTENDS MediaPage

Budget(n, l, p, c, f) == [cards |-> n, loads |-> l, presses |-> p, calls |-> c, faults |-> f]
MCBudgets == {Budget(0, 2, 0, 2, 1), Budget(2, 1, 2, 0, 1), Budget(2, 1, 1, 1, 1), Budget(2, 2, 1, 1, 0),
              Budget(3, 0, 3, 0, 0)}

Symmetry == Permutations(Cards)
=============================================================================
