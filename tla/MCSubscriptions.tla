------------------------- MODULE MCSubscriptions --------------------------
(* Small instances of Subscriptions for TLC. *)
EXTENDS Subscriptions, TLC

\* Objects are interchangeable: only safety runs use the symmetry.
ObjSymmetry == Permutations(Obj)

\* unlimited subscriptions and one-message requests
SmallLimits == {0, 1}

=============================================================================
