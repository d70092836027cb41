-------------------------------- MODULE Net --------------------------------
(***************************************************************************)
(* curl, wget and pip-install: a command in a worker of the SDK, its HTTP   *)
(* requests, each on a thread of its own, which the command leaves behind   *)
(* when its deadline passes, and the retries.  The runtime lock, the cancel *)
(* flag and the deadline slot are what SdkExec says of them; here the host  *)
(* makes one call after the other, and a call that times out goes on.       *)
(*                                                                         *)
(* The server and the ureq library are external.  Time is when a deadline   *)
(* or a limit passes; a backoff is a sleep.  Headers, cookies and what -w   *)
(* and -v print are left out, permissions are granted.                      *)
(***************************************************************************)
EXTENDS Integers, FiniteSets, SequencesExt

CONSTANTS
    MaxCalls,    \* bound on the calls of the host
    Programs,    \* the commands: [prog, timed, retry, fail, own]
    MaxCancels,  \* bound on the cancellations of the host
    Size,        \* pieces of a body
    Files,       \* files of a wheel
    Skipped,     \* those under .data/
    Nil          \* no deadline (0), no answer yet

Call == 1 .. MaxCalls

\* timed: under a timeout.  own: with a limit of its own, which -m 0 takes away.
Program == [prog : {"curl", "wget", "pip"}, timed : BOOLEAN, retry : Nat, fail : BOOLEAN,
            own : BOOLEAN]

ASSUME NetAssumption ==
    /\ MaxCalls \in Nat /\ MaxCancels \in Nat /\ Size \in Nat
    /\ Files \in Nat /\ Skipped \subseteq 1 .. Files
    /\ Programs \subseteq Program
    /\ \A p \in Programs : p.prog # "curl" => p.own
    /\ Nil \notin Int

VARIABLES
    cmd,       \* the calls made, in order
    told,      \* the calls that returned to the host, with 124 or their code
    cancel,    \* the cancel flag
    slot,      \* the deadline slot: the call whose deadline it is
    expired,   \* the calls whose deadline has passed
    holder,    \* the call that holds the runtime
    pc,        \* pc[c]: where the worker of c is
    stage,     \* stage[c]: what pip asks for, "info" or "wheel"
    tries,     \* tries[c]: attempts made
    budget,    \* budget[c]: the deadline that the command took from the slot
    out,       \* out[c]: its exit code
    req,       \* req[c]: those under way and the one it waits for, [pc, ok, got, ans]
    file,      \* the output: the call that wrote it, how much, and whether byte
               \* for byte
    cache,     \* the wheel cache: Nil, or whether it holds a wheel
    site,      \* the files of the wheel that are installed
    unpacked,  \* unpacked[c]: how many c has written
    cancels    \* cancellations so far

host   == <<cmd, told, cancel, slot, expired>>
disk   == <<file, cache, site, unpacked>>
worker == <<holder, pc, stage, tries, budget, out>>
vars   == <<host, worker, req, disk, cancels>>

To(f, c, v) == [f EXCEPT ![c] = v]
Runs(c, names) == c <= Len(cmd) /\ cmd[c].prog \in names
Cancelled(c) == Runs(c, {"curl"}) /\ cancel

-----------------------------------------------------------------------------
(* The host (execute_with_runtime).                                        *)

HostCall(p) ==
    /\ Len(cmd) < MaxCalls /\ 1 .. Len(cmd) = told
    /\ LET c == Len(cmd) + 1
       IN  /\ cmd' = Append(cmd, p)
           /\ slot' = IF p.timed THEN c ELSE Nil
           /\ cancel' = (cancel /\ ~p.timed)
           /\ pc' = To(pc, c, "lock")
    /\ UNCHANGED <<told, expired, holder, stage, tries, budget, out, req, disk, cancels>>

Expire(c) ==
    /\ c <= Len(cmd) /\ cmd[c].timed /\ c \notin expired
    /\ expired' = expired \cup {c}
    /\ UNCHANGED <<cmd, told, cancel, slot, worker, req, disk, cancels>>

TellTimeout(c) ==
    /\ c \in expired \ told
    /\ told' = told \cup {c} /\ cancel' = TRUE
    /\ UNCHANGED <<cmd, slot, expired, worker, req, disk, cancels>>

Tell(c) ==
    /\ out[c] # Nil /\ c \notin told
    /\ told' = told \cup {c}
    /\ UNCHANGED <<cmd, cancel, slot, expired, worker, req, disk, cancels>>

HostCancel ==
    /\ cancels < MaxCancels /\ ~cancel
    /\ cancel' = TRUE /\ cancels' = cancels + 1
    /\ UNCHANGED <<cmd, told, slot, expired, worker, req, disk>>

-----------------------------------------------------------------------------
(* The worker.                                                             *)

\* Ends the command and lets go of the runtime.
Finish(c, code) ==
    /\ pc' = To(pc, c, "done") /\ out' = To(out, c, code)
    /\ holder' = IF holder = c THEN Nil ELSE holder
    /\ stage' = To(stage, c, "info") /\ tries' = To(tries, c, 0) /\ UNCHANGED budget
Goes(c, at) == pc' = To(pc, c, at) /\ UNCHANGED <<holder, stage, tries, budget, out>>

\* The worker of a timed call looks at the flag while it waits for the runtime.
GiveWay(c) ==
    /\ pc[c] = "lock" /\ cmd[c].timed /\ cancel
    /\ Finish(c, 143) /\ UNCHANGED <<host, req, disk, cancels>>
Acquire(c) ==
    /\ pc[c] = "lock" /\ holder = Nil /\ ~(cmd[c].timed /\ cancel)
    /\ holder' = c /\ pc' = To(pc, c, "begin")
    /\ UNCHANGED <<host, stage, tries, budget, out, req, disk, cancels>>

\* Shell::execute looks at the flag; curl and wget read the slot once, pip has
\* no deadline.
Begin(c) ==
    /\ pc[c] = "begin"
    /\ IF cancel THEN Finish(c, 143)
       ELSE /\ budget' = To(budget, c, IF Runs(c, {"pip"}) THEN Nil ELSE slot)
            /\ pc' = To(pc, c, "top") /\ UNCHANGED <<holder, stage, tries, out>>
    /\ UNCHANGED <<host, req, disk, cancels>>

\* The top of the loop of attempts; curl sleeps before a retry, pip after it.
Top(c) ==
    /\ pc[c] = "top"
    /\ IF Cancelled(c) THEN Finish(c, 143)
       ELSE Goes(c, IF Runs(c, {"curl"}) /\ tries[c] > 0 THEN "backoff" ELSE "ask")
    /\ UNCHANGED <<host, req, disk, cancels>>
Wake(c) ==
    /\ pc[c] = "backoff" /\ Goes(c, "ask") /\ UNCHANGED <<host, req, disk, cancels>>

\* http_request[_ex]: no time left, or a new request; without a deadline the
\* command itself makes it.  Mutant of Ask: the deadline is read for each.
Fresh == [pc |-> "new", ok |-> FALSE, got |-> 0, ans |-> Nil]
AskSlot(c) ==
    /\ pc[c] = "ask"
    /\ budget' = IF Runs(c, {"pip"}) THEN budget ELSE To(budget, c, slot)
    /\ IF budget'[c] \in expired THEN pc' = To(pc, c, "late") /\ UNCHANGED req
       ELSE req' = To(req, c, Append(req[c], Fresh)) /\ pc' = To(pc, c, "wait")
    /\ UNCHANGED <<host, holder, stage, tries, out, disk, cancels>>
Ask(c) ==
    /\ pc[c] = "ask"
    /\ IF budget[c] \in expired THEN Goes(c, "late") /\ UNCHANGED req
       ELSE req' = To(req, c, Append(req[c], Fresh)) /\ Goes(c, "wait")
    /\ UNCHANGED <<host, disk, cancels>>

\* recv_timeout: the deadline passes first.
GiveUp(c) ==
    /\ pc[c] = "wait" /\ budget[c] \in expired
    /\ Goes(c, "late") /\ UNCHANGED <<host, req, disk, cancels>>

Attempts(c) == CASE Runs(c, {"curl"}) -> cmd[c].retry + 1
                 [] Runs(c, {"wget"}) -> 1
                 [] OTHER             -> 3

\* An attempt failed.  Mutant of Failed: one that had no time left is not counted.
FailedUncounted(c, code) ==
    IF tries[c] + 1 < Attempts(c)
      THEN /\ tries' = IF code = 28 THEN tries ELSE To(tries, c, tries[c] + 1)
           /\ pc' = To(pc, c, IF Runs(c, {"pip"}) THEN "backoff" ELSE "top")
           /\ UNCHANGED <<holder, stage, budget, out>>
      ELSE Finish(c, IF Runs(c, {"curl"}) THEN code ELSE 1)
Failed(c, code) ==
    IF tries[c] + 1 < Attempts(c)
      THEN /\ tries' = To(tries, c, tries[c] + 1)
           /\ pc' = To(pc, c, IF Runs(c, {"pip"}) THEN "backoff" ELSE "top")
           /\ UNCHANGED <<holder, stage, budget, out>>
      ELSE Finish(c, IF Runs(c, {"curl"}) THEN code ELSE 1)
Late(c) == pc[c] = "late" /\ Failed(c, 28) /\ UNCHANGED <<host, req, disk, cancels>>

\* What its request ended with is taken from the channel.
Answer(c) == Last(req[c])
Has(c, names, ans) ==
    /\ pc[c] = "wait" /\ Runs(c, names) /\ Answer(c).ans \in ans
    /\ req' = To(req, c, Front(req[c]))
Error(c) ==
    /\ Has(c, {"curl", "wget", "pip"}, {1, 7, 28, 143})
    /\ Failed(c, Answer(c).ans) /\ UNCHANGED <<host, disk, cancels>>

\* fs::write empties the file first: if it fails, the file is as it was or cut short.
WriteFails(c, n, exact) ==
    \/ UNCHANGED file
    \/ \E k \in 0 .. n - 1 : file' = [by |-> c, got |-> k, exact |-> exact]

\* curl -o, byte for byte: -f keeps an error page out of the file, which is then
\* empty.
CurlDone(c) ==
    LET hide == cmd[c].fail /\ ~Answer(c).ok
        n    == IF hide THEN 0 ELSE Answer(c).got
    IN  /\ Has(c, {"curl"}, {0})
        /\ \/ file' = [by |-> c, got |-> n, exact |-> TRUE] /\ Finish(c, IF hide THEN 22 ELSE 0)
           \/ WriteFails(c, n, TRUE) /\ Finish(c, 23)
        /\ UNCHANGED <<host, cache, site, unpacked, cancels>>

\* wget: an error page is an error, and so is a body that into_string finds too
\* long.  A body that is no text is decoded all the same, and saved as decoded.
WgetDone(c) ==
    LET r == Answer(c)
    IN  /\ Has(c, {"wget"}, {0})
        /\ \/ ~r.ok /\ Finish(c, 1) /\ UNCHANGED file
           \/ r.ok /\ WriteFails(c, r.got, FALSE) /\ Finish(c, 1)
           \/ /\ r.ok /\ Finish(c, 0)
              /\ \E text \in BOOLEAN : file' = [by |-> c, got |-> r.got, exact |-> text]
        /\ UNCHANGED <<host, cache, site, unpacked, cancels>>

\* pip: what the index says, then the wheel, which may be in the cache.
GotInfo(c) ==
    /\ stage[c] = "info" /\ Has(c, {"pip"}, {0})
    /\ IF ~Answer(c).ok THEN Finish(c, 1)
       ELSE /\ stage' = To(stage, c, "wheel") /\ tries' = To(tries, c, 0)
            /\ pc' = To(pc, c, IF cache = Nil THEN "ask" ELSE "read")
            /\ UNCHANGED <<holder, budget, out>>
    /\ UNCHANGED <<host, disk, cancels>>

\* It goes into the cache as it came, an error page too; if that cannot be
\* written, or only in part, nothing is said.
GotWheel(c) ==
    /\ stage[c] = "wheel" /\ Has(c, {"pip"}, {0})
    /\ cache' \in {cache, "other", IF Answer(c).ok THEN "wheel" ELSE "other"}
    /\ IF Answer(c).ok THEN Goes(c, "unpack") ELSE Finish(c, 1)
    /\ UNCHANGED <<host, file, site, unpacked, cancels>>
FromCache(c) ==
    /\ pc[c] = "read"
    /\ IF cache = "wheel" THEN Goes(c, "unpack") ELSE Finish(c, 1)
    /\ UNCHANGED <<host, req, disk, cancels>>

\* extract_wheel, file by file, but for those it skips; one that cannot be
\* written ends it, and is not left as it may have been installed before.
Extract(c) ==
    LET f == unpacked[c] + 1
    IN  /\ pc[c] = "unpack"
        /\ \/ unpacked[c] = Files /\ Finish(c, 0) /\ UNCHANGED <<site, unpacked>>
           \/ /\ unpacked[c] < Files
              /\ site' = IF f \in Skipped THEN site ELSE site \cup {f}
              /\ unpacked' = To(unpacked, c, f) /\ Goes(c, "unpack")
           \/ /\ unpacked[c] < Files
              /\ site' \in {site, IF f \in Skipped THEN site ELSE site \ {f}}
              /\ Finish(c, 1) /\ UNCHANGED unpacked
        /\ UNCHANGED <<host, req, file, cache, cancels>>

-----------------------------------------------------------------------------
(* A request (http_request[_ex]_inner), and the server.                    *)

Requests(c) == 1 .. Len(req[c])
Becomes(c, k, r) ==
    req' = [req EXCEPT ![c][k] = r] /\ UNCHANGED <<host, worker, disk, cancels>>
\* The answer of a request that was left behind goes nowhere.
Ends(c, k, ans) ==
    IF pc[c] = "wait" /\ k = Len(req[c])
      THEN Becomes(c, k, [req[c][k] EXCEPT !.pc = "ended", !.ans = ans,
                                           !.got = IF ans = 0 THEN @ ELSE 0])
      ELSE req' = To(req, c, RemoveAt(req[c], k)) /\ UNCHANGED <<host, worker, disk, cancels>>

\* It looks at the time once more, and at the flag, and goes out.
Check(c, k) ==
    /\ req[c][k].pc = "new"
    /\ IF budget[c] \in expired THEN Ends(c, k, 28)
       ELSE IF Cancelled(c) THEN Ends(c, k, 143)
       ELSE Becomes(c, k, [req[c][k] EXCEPT !.pc = "sent"])

Refuse(c, k)  == req[c][k].pc = "sent" /\ Ends(c, k, 7)
Respond(c, k) ==
    /\ req[c][k].pc = "sent"
    /\ \E ok \in BOOLEAN : Becomes(c, k, [req[c][k] EXCEPT !.pc = "body", !.ok = ok])

\* The loop over the body; curl looks at the flag before each piece.  Mutant of
\* Read: a cancellation ends the loop, not the request.
ReadLess(c, k) ==
    /\ req[c][k].pc = "body"
    /\ IF Cancelled(c) \/ req[c][k].got = Size THEN Ends(c, k, 0)
       ELSE Becomes(c, k, [req[c][k] EXCEPT !.got = @ + 1])
Read(c, k) ==
    /\ req[c][k].pc = "body"
    /\ IF Cancelled(c) THEN Ends(c, k, 143)
       ELSE IF req[c][k].got = Size THEN Ends(c, k, 0)
       ELSE Becomes(c, k, [req[c][k] EXCEPT !.got = @ + 1])
Break(c, k) == req[c][k].pc = "body" /\ Ends(c, k, 1)

\* Its limit: its own, or the time left; without either it waits for the server.
Limit(c, k) ==
    /\ cmd[c].own \/ budget[c] \in expired
    /\ \/ req[c][k].pc = "sent" /\ Ends(c, k, 28)
       \/ req[c][k].pc = "body" /\ Ends(c, k, 1)

-----------------------------------------------------------------------------

Init ==
    /\ cmd = <<>> /\ told = {}
    /\ cancel = FALSE /\ slot = Nil /\ expired = {} /\ cancels = 0
    /\ holder = Nil /\ pc = [c \in Call |-> "none"] /\ stage = [c \in Call |-> "info"]
    /\ tries = [c \in Call |-> 0] /\ budget = [c \in Call |-> Nil]
    /\ out = [c \in Call |-> Nil] /\ req = [c \in Call |-> <<>>]
    /\ file = [by |-> Nil, got |-> 0, exact |-> TRUE] /\ cache = Nil /\ site = {}
    /\ unpacked = [c \in Call |-> 0]

Work(c) ==
    \/ GiveWay(c) \/ Acquire(c) \/ Begin(c) \/ Top(c) \/ Wake(c) \/ Ask(c) \/ GiveUp(c)
    \/ Late(c) \/ Error(c) \/ CurlDone(c) \/ WgetDone(c) \/ GotInfo(c) \/ GotWheel(c)
    \/ FromCache(c) \/ Extract(c)
Server(c, k) == Refuse(c, k) \/ Respond(c, k) \/ Read(c, k) \/ Break(c, k)

Next ==
    \/ \E p \in Programs : HostCall(p)
    \/ HostCancel
    \/ \E c \in Call : Expire(c) \/ TellTimeout(c) \/ Tell(c) \/ Work(c)
    \/ \E c \in Call : \E k \in Requests(c) :
          Check(c, k) \/ Limit(c, k) \/ Server(c, k)

\* Threads run and time passes; a server may stall and the host may stop.
Attempt == 1 .. 2
Fairness ==
    /\ \A c \in Call : WF_vars(Work(c)) /\ WF_vars(Expire(c))
    /\ \A c \in Call, k \in Attempt :
          WF_vars(k \in Requests(c) /\ (Check(c, k) \/ Limit(c, k)))

Spec == Init /\ [][Next]_vars /\ Fairness

-----------------------------------------------------------------------------
(* Properties.                                                             *)

\* "The abandoned thread holds no lock, so it cannot wedge later commands"
\* (curl.rs:217): a command has one request in flight at most, whatever its
\* retries, and leaves it behind only when its deadline has passed.
Live(c) == {k \in Requests(c) : req[c][k].pc # "ended"}
OneRequest ==
    \A c \in Call : /\ Cardinality(Live(c)) <= 1
                    /\ Live(c) # {} => pc[c] = "wait" \/ budget[c] \in expired

\* What an exit code says of the disk.  0: the output is there in whole, from this
\* command, and curl's byte for byte (curl.rs:1622); of a wheel all that pip does
\* not skip (pip_install.rs:639).  22: curl -f has emptied it.  Any other: the
\* output is as it was or, if it could not be written (curl's 23, wget's 1), cut
\* short, never whole.
CutShort(c) == file'.by = c /\ file'.got < Size
Kept(c)     == file' = file /\ file.by # c
Delivered ==
    [][\A c \in Call : out[c] = Nil /\ out'[c] # Nil =>
         /\ cmd[c].prog = "pip" /\ out'[c] = 0 => site' = (1 .. Files) \ Skipped
         /\ cmd[c].prog = "curl" =>
              /\ out'[c] = 0 => file' = [by |-> c, got |-> Size, exact |-> TRUE]
              /\ out'[c] = 22 => file' = [by |-> c, got |-> 0, exact |-> TRUE]
              /\ out'[c] \notin {0, 22} => Kept(c) \/ (out'[c] = 23 /\ CutShort(c))
         /\ cmd[c].prog = "wget" =>
              IF out'[c] = 0 THEN file'.by = c /\ file'.got = Size
                             ELSE Kept(c) \/ CutShort(c)]_vars

\* A command whose requests have a limit, or that has a deadline, lets go of the
\* runtime, though servers stall, its retries are many and the flag that should
\* stop them is cleared by the next call.
RuntimeFreed ==
    \A c \in Call :
        holder = c /\ pc[c] # "begin" /\ (cmd[c].own \/ budget[c] # Nil) ~> holder # c
=============================================================================
