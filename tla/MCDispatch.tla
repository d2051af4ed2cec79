----------------------------- MODULE MCDispatch -----------------------------
(* Instances of Dispatch: one host, with one slot or with two. *)
EXTENDS Dispatch, TLC

MCTokens == Jobs \X (1 .. MaxAttempts)

OneHost == {1}
OneSlot == [h \in OneHost |-> 1]
TwoSlots == [h \in OneHost |-> 2]

JobSymmetry == Permutations(Jobs)
=============================================================================
