------------------------------- MODULE MCNet -------------------------------
(* Commands for the TLC run of Net.                                        *)
EXTENDS Net

Curl(timed, retry, fail, own) ==
    [prog |-> "curl", timed |-> timed, retry |-> retry, fail |-> fail, own |-> own]
Other(prog, timed) == [prog |-> prog, timed |-> timed, retry |-> 0, fail |-> FALSE, own |-> TRUE]

Commands == {Curl(TRUE, 2, TRUE, FALSE), Curl(FALSE, 1, FALSE, TRUE), Other("wget", TRUE),
             Other("pip", TRUE)}
=============================================================================
