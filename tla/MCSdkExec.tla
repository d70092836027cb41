----------------------------- MODULE MCSdkExec -----------------------------
(* Bounds and constant values for the TLC runs of SdkExec.                 *)
EXTENDS SdkExec, TLC

CONSTANTS c1, c2, c3, a1, a2, a3

TwoCalls   == {c1, c2}
ThreeCalls == {c1, c2, c3}
OneAdmin   == {a1}
TwoAdmins  == {a1, a2}
ThreeAdmins == {a1, a2, a3}

\* What the admins may call: all the same, or each its own.
OnlyInit     == [a \in Admin |-> {"init"}]
InitOrCancel == [a \in Admin |-> {"init", "cancel"}]
AnyCall      == [a \in Admin |-> AllAdminOps]
OneEach      == a1 :> {"init"} @@ a2 :> {"cancel"} @@ a3 :> {"submit"}

\* Calls are interchangeable, and so are admins, when no liveness is checked.
Symmetry == Permutations(Call) \cup Permutations(Admin)
=============================================================================
