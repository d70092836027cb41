---------------------------- MODULE HostContract ----------------------------
(***************************************************************************)
(* What the SDK promises a host about the commands it hands over,          *)
(* whatever threads, locks and flags deliver it: a command runs at most     *)
(* once and alone at its place, and the host gets one answer, which is the  *)
(* outcome of the command, a refusal (the command never runs), or a         *)
(* timeout, which says nothing about the command.                          *)
(***************************************************************************)
CONSTANTS Call, Place, Codes, Nil

VARIABLES
    phase,     \* phase[c]: "waiting", "running", "over" or "refused"
    place,     \* place[c]: the runtime c is for
    outcome,   \* outcome[c]: the exit code of a command that is over
    answer     \* answer[c]: what the host was told

vars == <<phase, place, outcome, answer>>

Init ==
    /\ phase = [c \in Call |-> "waiting"]
    /\ place \in [Call -> Place]
    /\ outcome = [c \in Call |-> Nil]
    /\ answer = [c \in Call |-> Nil]

\* The call is bound to the runtime that is current when it is made.
Bind(c) ==
    /\ phase[c] = "waiting" /\ answer[c] = Nil
    /\ \E p \in Place : place' = [place EXCEPT ![c] = p]
    /\ UNCHANGED <<phase, outcome, answer>>

Start(c) ==
    /\ phase[c] = "waiting"
    /\ \A d \in Call : phase[d] = "running" => place[d] # place[c]
    /\ phase' = [phase EXCEPT ![c] = "running"]
    /\ UNCHANGED <<place, outcome, answer>>

End(c) ==
    /\ phase[c] = "running"
    /\ phase' = [phase EXCEPT ![c] = "over"]
    /\ \E code \in Codes : outcome' = [outcome EXCEPT ![c] = code]
    /\ UNCHANGED <<place, answer>>

Refuse(c) ==
    /\ phase[c] = "waiting"
    /\ phase' = [phase EXCEPT ![c] = "refused"]
    /\ UNCHANGED <<place, outcome, answer>>

\* A call made before init() is refused and answered at once.
Reject(c) ==
    /\ phase[c] = "waiting" /\ answer[c] = Nil
    /\ phase' = [phase EXCEPT ![c] = "refused"]
    /\ answer' = [answer EXCEPT ![c] = "error"]
    /\ UNCHANGED <<place, outcome>>

Answer(c) ==
    /\ answer[c] = Nil
    /\ \/ phase[c] = "over" /\ answer' = [answer EXCEPT ![c] = outcome[c]]
       \/ phase[c] = "refused" /\ answer' = [answer EXCEPT ![c] = "cancelled"]
       \/ answer' = [answer EXCEPT ![c] = "timeout"]
    /\ UNCHANGED <<phase, place, outcome>>

Next == \E c \in Call :
    Bind(c) \/ Start(c) \/ End(c) \/ Refuse(c) \/ Reject(c) \/ Answer(c)

Spec == Init /\ [][Next]_vars
=============================================================================
