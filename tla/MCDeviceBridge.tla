--------------------------- MODULE MCDeviceBridge ---------------------------
(* Bounds and constant values for the TLC runs of DeviceBridge.            *)
EXTENDS DeviceBridge, TLC

CONSTANTS c1, c2, c3, h1, h2, g1, g2, g3

TwoCalls   == {c1, c2}
ThreeCalls == {c1, c2, c3}
OneResponder  == {h1}
TwoResponders == {h1, h2}
OneHost    == {g1}
TwoHosts   == {g1, g2}
ThreeHosts == {g1, g2, g3}

\* Threads of one kind are interchangeable when no liveness is checked.
Symmetry ==
    Permutations(Call) \cup Permutations(Responder) \cup Permutations(Host)
=============================================================================
