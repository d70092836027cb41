# Verification of fastshell

fastshell is a sandboxed shell linked into a host application as a Rust library
or through a C ABI. The host hands it command lines; it runs them in process, on
its own virtual file system, with built-in commands and an embedded Python. This
directory holds TLA+ models of its concurrent and stateful parts, of the
interpreter and of the commands with the most state, the TLC configurations that
check them on small instances, and proofs checked by TLAPS. Paths below are relative
to the crate (`src/src/` in `PROJECT.json`) unless they start with `docs/` or `tests/`.

Contents: 1 inventory, 2 what is modelled where, 3 the runs, 4 the proofs,
5 disagreements between code and documents, 6 what is not modelled, 7 plan.

## 1. Inventory

| part | source | state it keeps | operations | what makes it correct |
|---|---|---|---|---|
| SDK façade | `sdk/mod.rs` | runtime handle, cancel flag, deadline slot, permissions, plugin slot | `init`, `execute*`, `execute_in*`, `execute_python*`, `cancel_execution`, `cancel_handle`, `submit_task`, `start_agent_server`, `shutdown`, file API, permissions, `ui_call` | one command at a time per runtime; an answer is final; a timeout or a cancellation hits its own call |
| C ABI | `sdk/ffi.rs` | `SDK_INSTANCE`, the global SDK lock | one entry point per façade operation | commands run without the lock; a cancellation that waits for it comes through |
| Executor | `bridge/executor.rs` | functions, loop and recursion counters, traps, job table, exit signal, last exit | `execute_top`, `execute`, `execute_with_cwd`, compound commands, `execute_pipeline`, redirects, substitution | order of stages, joining, exit codes, counters that return to their value |
| Shell | `shell/mod.rs` | cwd, variables, options, permission tables | builtin dispatch, permission checks, HTTP | nothing runs without its permission; waits are bounded |
| `timeout`, `sleep` | `shell/commands/paste_timeout.rs`, `sleep.rs` | the saved cancel flag, a watchdog thread | `cmd_timeout`, `cmd_sleep` | the borrowed flag is given back; the command ends |
| Device bridge | `sdk/device_callback.rs`, `shell/commands/devices.rs` | the two callbacks, request ids, the registry of pending requests | registration, `call`, `host_send_result` | an answer reaches its own request; no entry leaks; nobody hangs |
| Interpreter | `bridge/executor.rs` | loop and return signals, depth counters, saved locals, traps, jobs | lists with `;`, `&&`, `\|\|`, `!`, `if`, loops, `case`, functions, subshells, substitution, `set -e`, traps | a construct ends where its signal says and leaves counters as it found them; a cancellation shows |
| Virtual file system | `vfs/mod.rs` | the root | path resolution, file operations | links mean paths of the virtual root; only the operands change |
| File commands, redirects | `shell/commands/{cp,mv,rm,ln,...}.rs`, `bridge/executor.rs` | cwd, previous cwd, directory stack | `cp`, `mv`, `rm`, `ln`, `mkdir`, `rmdir`, `cd`, `pushd`, `popd`, `tee`, `touch`, `>`, `>>`, `2>`, `&>` | exit code 0 means done; nothing is lost unasked |
| Git | `shell/commands/git.rs` | commits, branches, HEAD, index, working tree, stash, MERGE_HEAD, remote | `add`, `commit`, `checkout`, `reset`, `stash`, `merge`, `pull`, `push`, ... | work and commits survive unless the user says otherwise |
| Network builtins | `shell/commands/{curl,wget,pip_install}.rs`, `shell/mod.rs` | the deadline of the command, requests on their own threads, the wheel cache | `curl`, `wget`, `pip install` | bounded waits; a whole file or an error |
| Stream editor | `shell/commands/sed.rs` | pattern and hold space, open ranges, position in the input | two interpreters of one language | they agree; no line is skipped or repeated; scripts end |
| Python, JavaScript | `python/*`, `js/mod.rs` | engine, agent server | run code, call back into the shell | re-entrance does not deadlock |
| Mobile Use | `mobile.rs`, `sdk/plugin.rs` | - | backend choice, gesture limits | pure functions with bounds |
| Permissions | `sdk/mod.rs`, `shell/mod.rs` | instance table, process table | set, clear, check | no use without a grant |
| Other builtins | `shell/commands/*` (`awk`, `jq`, `find`, `sort`, ...) | - | text processing | sequential filters |
| Dialect, console I/O | `shell/dialect.rs`, `bridge/fs.rs`, `bridge/io.rs` | - | rewriting, pass-through | - |

How they interact. A host thread takes handles (runtime, cancel flag, deadline
slot) under `SDK_INSTANCE` and lets go of it; a worker thread polls the mutex of
the runtime and runs the command while the host thread waits on a channel with a
timeout. Every call of an instance shares **one** cancel flag and **one** deadline
slot. The flag is written by the host (`cancel_execution`, or a kept
`cancel_handle` with no lock), by a call that starts (clears it), by a call that
times out (sets it, for its own worker) and by `timeout` (clears, sets through a
watchdog, restores). It is read by the worker before it starts, between the
segments of a list, by loops, by every builtin that waits, by every stage of a
pipeline and by the loop that joins the stages. A device command holds the plugin
mutex while the host answers, from any thread. A network command leaves its
request on a thread of its own when the deadline it took from the slot passes.
The interpreter calls itself through one `Runtime`, whose fields carry `break`,
`return` and `exit` outwards; commands reach the disk through `vfs` and git
through libgit2.

What is hard: the orders in which these writers and readers meet; workers that
outlive their call; panics that skip the code that restores state; answers that
come late, twice or never; signals that end the wrong construct; long sessions of
commands that are each right (links, directory stacks, merges, stashes, edit
scripts) in a state nobody tried them in. `PROJECT.json` lists each such hazard at
its line with the properties that cover it.

## 2. Modules

| module | models | state and actions |
|---|---|---|
| `HostContract` | what the SDK promises a host about commands | a command waits, runs, is over or is refused; one answer per call |
| `SdkExec` | `sdk/mod.rs`, `sdk/ffi.rs`, the outline of `execute_top` and `execute_with_cwd` | `host[c]`: where the calling thread is between `sdk_handles` and its return; `worker[c]`: where the thread that runs the command is; the two never share a step |
| `Pipeline` | `Runtime::execute`, `execute_pipeline`, `Shell::execute`, `cmd_timeout`, the polling of `cmd_sleep` | `main`: the runtime's thread; `pc[s]`: the thread of stage `s`; `dog[t]`: the watchdog of a timeout |
| `DeviceBridge` | `device_callback.rs`, `plugin()` of `devices.rs`, the registration calls of `ffi.rs`, the plugin part of `init` | `pc[c]`: a device command; `hand[h]`: a host thread that answers; `hpc[g]`: a registration or `init` |
| `Interp` | `Runtime::execute` and the methods it calls itself through | `stack`: the activations; `ret`: what the one that ended returned; the fields they share (`sig`, `fnDepth`, `substDepth`, `scopes`, ...). One action per step of a method; a cancellation may come between any two |
| `InterpRef` | what a script means: a recursive definition over constructs | operators; the reference for `Interp` |
| `Vfs` | every call of `vfs/mod.rs` that changes the disk, over POSIX | a disk is a map from paths to files, directories and links, and from inodes to contents |
| `Files` | the commands and redirects that use `Vfs` | `disk`, `cwd`, `prev`, `stack`; one action per command |
| `Git` | the subcommands that change a repository, over libgit2 | `objs`, `refs`, `head`, `index`, `wt`, `stash`, `merging`, `origin`, `tracking`; one action per subcommand, and edits and pushes of others |
| `Net` | `cmd_curl`, `cmd_wget`, `cmd_pip_install`, `http_request[_ex]`, over `execute_with_runtime` | `pc[c]`: the worker of a call; `req[c]`: its requests under way, each a thread |
| `Sed` | `parse_sed_program`, `apply_sed_script` (actions), `apply_sed_commands` (the operator `Fast`) | `prog`, `pc`, `cyc` (the cycle), `hold`, `active` |
| `MC*` | values and bounds for TLC; `MCInterp` also joins `Interp` and `InterpRef` | - |
| `SdkExecProofs`, `DeviceBridgeProofs`, `PipelineProofs`, `NetProofs`, `GitProofs`, `InterpProofs`, `SedProofs`, `FilesProofs` | theorems about the module they are named after | see 4 |

`SdkExec` composes with `HostContract` by refinement (`HC == INSTANCE HostContract
WITH ...`, property `Contract`): the phase of a command and the answer of a call
are read off the program counters. `Pipeline` looks inside what is one command
(`worker[c] = "body"`) in `SdkExec`: one runtime, calls one after the other, with
the flag that `SdkExec` treats as a whole cleared at the start of each call.
`DeviceBridge` looks inside a device command, and at the part of `init` that
`SdkExec` leaves out. `Net` looks inside a network command, with the lock, flag
and slot of `SdkExec` for calls one after the other whose workers overlap.
`Interp` looks inside one command line, with one thread and the cancel flag.
`Files` composes with `Vfs` by EXTENDS. `MCInterp` compares `Interp` with an
instance of `InterpRef` call by call (`Agrees`).

What a step is. An action is the code between two points at which another thread
could tell the difference: a lock, an atomic load or store, a send, a receive, a
spawn. Accesses to the atomic flags are `SeqCst`, so a step sees the latest
store. Code between those points that touches only a thread's own data belongs to
the action before it.

Abstractions, per module:

- `SdkExec`: a command is one of four bodies - ends by itself, loops until it
  sees the flag, waits on a socket bounded by the deadline it captured, runs deaf
  code. A directory is the call that goes there. Wall clock time is the set of
  calls whose timeout has elapsed. Panics may strike any executing command if
  `MayPanic`.
- `Pipeline`: output is one chunk per stage, whole (`data`) or cut short by a
  cancellation (`cut`). A command ends well, fails, waits for the flag, runs deaf to it,
  panics or is empty, under any number of `timeout` prefixes. Connectors other than `;`,
  `set -e` and traps are in `Interp`, redirects in `Files`.
- `DeviceBridge`: an answer is identified with the call it answers; arguments and
  JSON are left out. Request ids are never reused; `MaxId` bounds them
  (the code's counter has 64 bits).
- `Interp`: a script is a table of blocks; words are not expanded, a leaf command
  writes a mark, fails, assigns, tests, changes directory, sends a signal or
  panics. Depth counters wrap as the code's unsigned ones do (`Wrap`).
- `Vfs`, `Files`: operands are normalized paths, sequences of names (numbers); times,
  modes, reading and listing are left out. Following links is a step of the host taken
  `MaxLinks` times (`Times`), a command with several operands a loop that ends at the
  first error (`Loop`). Paths outside `Path` stand for a host without room: the
  operation fails, which a real disk may do at any path. Directories are read in the
  order of names. A command is one step: two writers of one file are not modelled.
- `Git`: trees are files without renames and modes; the lock of the repository
  (`repo_lock`) makes a subcommand one step. libgit2 is external. Every call of it
  that `merge` and `pull` make may fail from the first one that changes something
  (`Repository::merge`) on: files are left on their way (`HalfWay`), and the code
  goes on or not as it does (`fault` in the answer marks such a command). A failure
  that is reported before anything has moved is a refusal, and failures in the other
  subcommands are left out; so is the `stash_drop` of a `pop`, whose failure the code
  ignores (`git.rs:1209`): the pop is then an apply. A pull without a branch while HEAD
  is detached is left out.
- `Net`: headers, cookies, `-w`, `-v` and permissions are left out, a body is
  `Size` pieces, and whether what is on disk is byte for byte what was sent is a
  flag (`exact`). A write may fail before or after it has emptied the file. The
  files of a wheel are installed under paths of their own: wheels with several
  modules at the top, which `extract_single_file_wheel` writes to one path, are left
  out. The server may refuse, answer with an error or not, break off or
  stall. `Delivered` speaks of calls one after the other, as the host makes them,
  whose orphans run on.
- `Sed`: a line is a sequence of letters, a regular expression a letter, a script
  a sequence of statements. `r`, `-i`, `-z` and several files are left out.

A definition whose comment begins `Mutant of` is a deliberately wrong variant of
the definition it names; no specification uses it. It documents which slip of the
code the property listed with it in `PROJECT.json` excludes.

## 3. Runs

All runs use `CHECK_DEADLOCK FALSE`: every model stops when its threads are done,
or when the bound on its commands is reached.

| run | question | instance | result |
|---|---|---|---|
| `concurrent` | mutual exclusion, finality, contract with the host | 2 overlapping calls that block (timeout 0, Python) or not, panics, `init`, `shutdown`, `submit_task`, a kept cancel handle | holds |
| `sequential` | who is hit by a cancellation, where the cwd ends up | 3 calls one at a time (`execute_in`, timeout override), 2 hosts that cancel | holds |
| `liveness` | calls return, orphans end, a cancellation is carried out | 2 overlapping calls that loop or wait; beside them `init`, one `cancel_execution`, one `submit_task` | holds |
| `ghost_run` | is a command reported as timed out ever started later? | 2 calls one at a time | violated |
| `device` | answers, registry, plugin, return of all calls | 2 device commands, 2 answering threads, 2 host threads with all registrations and `init` | holds |
| `pipeline` | stages, joining, exit code, the borrowed flag, ends | 11 sessions of lists and pipelines, up to 2 calls, 2 segments, 3 stages, 2 nested timeouts, 1 cancellation, pipefail on and off | holds |
| `interp` | does the interpreter mean what the shell language means? | every script of two nested constructs around a leaf, alone or with a second command; two calls on one shell; a panic and then a clean call; a cancellation at any step; ERR, INT, EXIT traps and `set -e` | holds |
| `net` | requests, downloads, the runtime after deadlines and retries | 2 calls of curl (3 attempts and a deadline, or 2 without), wget, pip (a wheel of 2 files, one under `.data/`), 1 cancellation, writes that fail | holds |
| `git` | is work lost, are histories joined? | sessions of 4 commands on 4 repositories (fresh, cloned, diverged, clashing), 2 files, 2 contents, 2 branches, calls of libgit2 that fail | holds |
| `files` | what commands touch, and whether success means done | 2 commands on 5 disks of 5 paths: a tree, links to files, links to directories and to themselves, two directories with a hard link, a link that hangs and has the name of its directory | holds |
| `sources` | is what was copied or moved still there? | the same disks | violated |
| `sed` | do the interpreters agree, is every line printed once, do scripts end? | every script of up to 3 of 27 statements, 2 inputs, `-n` or not | holds |

The properties, in words:

- `RuntimeExclusive`: whoever executes holds the mutex of its runtime; nobody else
  does - orphans, blocking callers, panics and a replaced runtime included.
- `AnswerIsFinal`: an answer other than 124 is the code of a command that is over,
  or 143 for one that never started.
- `Contract`: every behaviour is one `HostContract` allows.
- `OneVictimPerCancel`: with one call at a time, a call is cancelled only on
  request, and one request ends one call; the flag a timed-out predecessor left
  is gone before it can be read.
- `CwdNotPolluted`: a runtime nobody uses is not in a directory that only
  `execute_in` went to (for commands that do not panic).
- `TimedCallsReturn`, `OrphanEnds`: liveness of a timed call and of its worker.
  `CancelComesThrough`: `cancel_execution` waits while `submit_task` or
  `start_agent_server` waits for the runtime with `SDK_INSTANCE` in its hands (the
  documents say it never does, see 5), but not for ever: the command they wait for
  ends, at the latest when its call times out and sets the flag - unless that
  command was revived by a call that cleared the flag under it (`Revived`).
- `OwnAnswer`, `NoLeak`: an answer reaches the request it answers, and the registry
  holds only requests somebody waits for. `PluginCurrent`: when registrations and
  `init` are over, the SDK has the plugin the callbacks call for. `CallsReturn`:
  every device command, registration and `init` comes back although the host
  never answers.
- `StageOrder`: although every stage has a thread, a stage's command starts after
  its producer ended and on all it sent, cancellations included.
- `Joined`: a pipeline with a result other than 143 has no live thread.
- `PipelineCode`: that result is the last stage's, or with pipefail the last
  failing stage's, or 1 after a panic. (For pipelines without an empty stage, see 5.)
- `FlagRestored`, `OwnTimeout`: outside pipes, a set flag or a command cut short
  is due to the host, to a timeout of its own, or to one of two named causes
  (`Spoilt`): a watchdog that found the command running and fired after its end,
  or a panic under `timeout`. The code has these two gaps; the properties say
  that there is no third.
- `TimeoutBounds`, `CancelEndsCall`: a timed command ends; without `timeout`, a
  cancelled call ends although stages of its pipelines do not listen: the joining
  loop then leaves them (`executor.rs:4334`). Outside a pipeline the runtime's own
  thread runs the command, so that one must look at the flag (`Hearing`).
- `Agrees`: exit code, output, the commands that took effect and the shell a call
  leaves are those of the recursive reference, also after a panic in the call
  before. The scripts leave out the places of section 5 where the code means
  something else (`MayStand` in `MCInterp`).
- `DepthsExact`: the depth counters count the open calls and substitutions,
  however these end. `CancelShows`: a cancelled call answers 143 or had done
  everything. `CallsEnd`: every call ends, with the process alive, by the
  limits on loops and depths, if no ERR handler fires inside itself
  (`ErrTrapOnce`); where one does, the process dies (see 5).
- `WorkKept`: an edited file is not overwritten except by the subcommands that
  are asked to, or that are listed as doing it unasked (`Unasked`, section 5).
  `CommitsKept`: what a local branch reaches stays reachable. `MergeJoins`: a
  `git merge` that reports success has joined the histories, whatever failed in it,
  and a `git pull` has in which nothing failed. `CleanStays`: HEAD, index and files
  move together where nothing failed. Where something does fail, neither holds of
  the code (see 5). `StashKept`: a stash entry goes when its contents are back.
- `OnlyOperands`: a command changes nothing but its operands and the directories
  it makes for them; `rm` does not reach through a link. `MovesWhole`: a move
  moves all of a tree, to where its destination leads. `SuccessMeansDone`: exit code 0 means that the file has
  the text, the operands are gone, the directory is there, the cwd exists. Here
  `TypeOK` also says that the disk stays a tree and the directory stack holds paths.
- `OneRequest`: a command has one request in flight at most, retries and
  deadlines included, and leaves it behind only past its deadline. `Delivered`:
  0 means all of the body, from this command, on disk (byte for byte with curl), or
  every file of the wheel but those that pip skips (`pip_install.rs:639`); 22 means that
  `-f` has emptied the output; any other code that the output is as it was or, after
  a write that failed (curl says so with 23), cut short.
  `RuntimeFreed`: a network command with a limit or a deadline lets go of the
  runtime, however servers stall and flags are cleared.
- `PathsAgree`: for the scripts that need no control flow (`Simple`), both
  interpreters of sed print the same. `LinesKept`: a script that only walks
  prints the input. `ScriptsEnd`: without a branch backwards a script ends.

Bounds, and why they are enough for what they show. Two calls are needed for every
interaction between calls, and a third shows that a flag does not survive into the
next but one (`sequential`). In `liveness` three other threads make one call each
(`OneEach`), so that a cancellation can meet a `submit_task` that waits for a command.
`MaxInit` of 1 or 2 gives a runtime replaced under a
running call. Two commands and two responders give late, double and crossed
answers; ids beyond the number of commands are never drawn. Three stages give a
first, a middle and a last one; two nested timeouts an inner that fires first or
last; two segments and two calls let a late watchdog reach the next command and
the next call. Symmetry is used only in runs without liveness. The proofs of 4
remove the bounds for the safety properties they cover.

`Interp`: two nested constructs and a leaf give every pair of a signal's origin
and its destination with one construct to cross; `MaxFn` 3 and `MaxSubst` 1 (50 and
8 in the code) are reached by a function that calls itself, `MaxIter` 2 (100000)
by a loop whose condition holds; `Wrap` 8 is more than either, so that a counter
that went below zero shows; `MaxStack` 20 is more than any script but a recursing
trap handler needs. `Git`: `MaxCommits` 4 allows a branch, a divergence and
a merge from each of the repositories; 4 commands allow edit, stash, checkout,
pop, or merge, edit, add, commit. `Files`: 5 paths give two directories, a directory in
the way of a file, and a link to each; `MaxLinks` 6 (40 in the code) is longer
than any chain that does not repeat; `MaxData` 2 allows one append; the first
command makes what the second meets, from disks that already hold chains, cycles
and hard links. The last command is left out of the fingerprint (`VIEW`), as it decides
nothing but how many may follow. `Net`: a second call is what clears the flag and
moves the slot under an orphan; three attempts let a deadline pass before, in
and after a retry; two files of a wheel let the second fail. `Sed`: three statements
on three lines let a jump, a block or a range span lines; `MaxSpace` 64,
`MaxQueue` 6 and `MaxOut` 64 are larger than a script without a loop needs (the
longest, `G;H;H`, holds 53 lines), and cut off those that loop.

Fairness. `SdkExec`: threads that can run do run (`WF` of each thread's own
steps), clocks advance (`Expire`), a lock that stays free is taken by a waiting
admin. Nothing is assumed of the host, of network peers or of deaf code.
`Pipeline`: the same for the runtime's thread, each stage and each watchdog; a
`long` body need not end by itself and the host need not cancel. `DeviceBridge`:
threads and timeouts only; the host's device code need not answer. Rust's mutexes
are not fair, but in the models that use weak fairness on a lock the lock is
contended finitely often. The code justifies these assumptions: every wait is a
timed poll (`recv_timeout`, `try_lock` and sleep, `sleep(25 ms)`). `Interp` and `Sed`:
the one thread runs on; the host need not cancel. `Net`: workers, the checks and
limits of requests, and deadlines; nothing of servers, the host or cancellations, so
`RuntimeFreed` asks for a limit or a deadline. `Git` and `Files` state no liveness.

## 4. Proofs

A theorem says `Spec => []P` for an invariant and `Spec => P` for an action
property, for every value of the constants under the one named `ASSUME` of the
module, which only says what a constant is (bounds are naturals, a marker is not a
member of a set, a script is a sequence of sequences of commands, a disk to start from
is a tree). Three theorems
speak of particular hosts and carry that as a hypothesis on the constants; the
column "host" names it, and below is why the code needs it.

| module | theorem | host | argument |
|---|---|---|---|
| `SdkExecProofs` | `TypeCorrect` | | one step per action |
| | `MutualExclusion` | | `LockExact` (the holder is exactly the thread between lock and unlock) is inductive |
| | `FinalAnswer` | | `Protocol`: how far a worker is decides what it has computed and sent; how far the caller is decides whether it has an answer. `AnswerIsFinal` alone is not inductive: it says nothing about the channel |
| | `CwdRestored` | no panics | `CwdInv`: while a command runs, the runtime is where it went or where it must return to, and the worker has saved the latter |
| | `CancelEndsOne` | one call with a timeout after the other | `Lonely`, `Paid`, below |
| | `ContractImplemented` | | every step moves the phase of one call as `HostContract` allows, or changes nothing the host sees; rests on the invariants above |
| `DeviceBridgeProofs` | `TypeCorrect`, `RegistryDoesNotLeak`, `AnswersAreOwn` | | `UniqueIds` and `OneSender`: an id belongs to one call, and the sender of a request is in one place - the registry, a responder's hands, or spent |
| | `PluginFollowsCallbacks` | registrations do not overlap | `OneRegistration`: who is between computing the plugin and installing it holds the value the callbacks call for, and is alone |
| `PipelineProofs` | `TypeCorrect`, `StagesInOrder`, `ThreadsJoined` | | `IInv`, below |
| | `ExitCodeOfPipeline` | | `Combining`, `Coding`, below |
| | `FlagComesBack`, `CutShortByOwn` | | `Flags`, below |
| `NetProofs` | `RequestsBounded`, `ExitCodesHonest` | | `IInv`, below |
| `GitProofs` | `UncommittedWorkKept`, `HistoryKept`, `MergesJoin`, `CleanStaysClean`, `StashIsKept` | | `Typed`, below |
| `InterpProofs` | `DepthCountersExact` | | `IInv`, below |
| `SedProofs` | `TypesHold` | | one step per action, and the types of what the parser makes |
| | `EveryLineKept` | | `Walked`: what is out, with the pattern space, is the input as far as it is read |
| | `InterpretersAgree` | | `Together`, below |
| `FilesProofs` | `TypesHold` | | one lemma per operation of the host, of `vfs` and of a command, below |
| | `RemovalExact` | | `Shrunk`, `Alike` and `Removed`, below |
| | `MoveIsWhole` | | `Built`, `Off` and `Canonical`, below |
| | `CdArrives` | | `SourceIs` and `Canonical`, below |

Hosts (`SdkExecProofs`, `DeviceBridgeProofs`). A panic skips the restore of the cwd
(`executor.rs:323`), so `CwdRestored` is for commands that do not panic; `MayPanic`
is a constant of the model, and everything else is proved with panics.
Two registrations compute
and install the plugin in two steps (`ffi.rs:489`): `~Overlap`. In `CancelEndsOne`
the flag that all calls share must be cleared by the next call before anybody
reads it: only a call with a timeout clears it, and calls at the same time would be
ended by one flag (`docs/integration.md:298`). `Lonely` says that at most one call is
in flight, `Doomed(c)` that `c` will answer 143 when it looks, and `Paid` that the
victims, with the doomed one added, are no more than the cancellations asked for.
Each step is `Quiet`, `Asks`, or `Strikes`; the cardinalities need no more. The runs
`concurrent` and `sequential` have both sorts of hosts, and the properties that
need a hypothesis are in the run whose constants meet it.

`PipelineProofs`. `Joined` is about results already written, so it
needs to know what is alive when one is written: `Joining` (while launching, every
thread started is in the vector; while joining, every live one is in its rest),
`Fresh` (what the runtime's thread has not come to has no thread and has done
nothing), `Written` (results are written in order, so a launch never touches a
pipeline that has one). `StageOrder` needs `Wired`: a pipe holds its chunk from the
moment its writer ended, and a reader leaves its receive loop with that chunk.
`InRange` and `Framed` (a stage is within its timeouts) keep indices in range;
typing depends on them. Steps of stages enter through one lemma, `LocalStep` (a
step of a stage disturbs no other stage), steps of watchdogs and of the host
through `AsideStep`, launches through `Launches`.

Results of pipelines (`PipelineProofs`). `PipelineCode` speaks of a result, `Combining` of what it is made
from: the threads joined so far have ended, `panicked` says whether one of them
died, and `final` is the code of the last of them that failed (`Comes`). `Coding` keeps
a written result right, because a stage that has ended keeps its code. `FlagRestored` and
`OwnTimeout` are about sessions without pipes, up to `Spoilt`, which once true
stays true. `Alone`: one stage runs at a time, on the runtime's thread. `Honest`: a watchdog that
may still set the flag belongs to a timeout around the running command (`Armed`);
a flag that is set, and every flag `cmd_timeout` has saved, is due to the host or
to a timeout further out than the one that saved it (`Reasons`); and so is a code of
124 or 143 (`Blamed`). The part about saved flags is what makes it inductive: a
restore puts back a value that was read several steps and levels before.

`NetProofs`. `OneRequest` needs `Asked`: outside `wait` a request that is left means that
the deadline of the command has passed, and a command asks only before its deadline,
so that there is never a second. `Delivered` needs `Written`: the output is by a
command that is over, and of the files of a wheel all that are not skipped are there,
from the first to the one that is being unpacked; `Made` and `Held` make one command write at a time. These
are about safety: that a request whose deadline passed is left behind is
`RuntimeFreed`, which is liveness.

`GitProofs`. `Typed` says that the repository is well-formed: a commit's ancestors are
older than it and the set of them is closed. That is preserved because every new
commit is appended with the closed histories of its parents (`Grown`, `Committed`); with it
`CommitsKept` and `MergeJoins` come down to unions of such sets, also where the checkout
after the commit fails. `WorkKept` rests on what a
safe checkout and a merge in the index leave alone (`WorkedSame` and its
neighbours), `CleanStays` on index, tree and branch being set from one commit
when no call fails, `StashKept` on what `stash pop` tests before it drops.

`InterpProofs`. The depth counters are changed in one method and changed back in
another, after anything may have happened between. `Stacked` gives the frames
their shape (who waits for a substitution is in phase `inner`, who is in a call is in
`body`), `Depths` equates each counter with the number of such frames, computed
modulo `Wrap` as the code does and within its limit, unless an ERR handler ran
(`drift`, section 5). Every step pushes a frame, closes one, or moves one without leaving the
phases that count (`PushKeeps`, `CloseKeeps`, `MovesKeep`). Of `scopes` only a lower
bound is kept: a panic leaves scopes behind.

`SedProofs`. The second interpreter of sed, the parser and the output are folds over
sequences, and the theorems hold for scripts and inputs of every length. The library's
induction principles take an operator as a parameter, which the provers cannot
instantiate, so the induction is done over sets: `<` on the naturals is
well-founded, therefore a set that holds 0 and the successor of each of its members
holds all of them (`NatSet`). A fold is a recursive function that a `CHOOSE` picks out;
`Folding` shows that it is there and `FoldResults` what its values are, for any
combining function, and the lemmas after it say so for each of the four folds of
`Sed`. `Progress` is what the fast path has made of a line after the first k statements,
`Upto` what it has printed after the first k lines. `Together` puts the script path
beside them: between two commands its cycle is the fast path's state after as many
statements (`Seen`), and its output what the fast path has printed of the lines
before. Ranges make that inductive: the script path keeps a flag for each, the fast
path compares numbers, and the flag says whether the range goes on after the last
line that has met it (`Open`). That is why `Simple` leaves out ranges that end before they
start or start at line 0, and scripts in which `d` or `q` keeps a line from a range
(section 5). `EveryLineKept` needs neither fold nor `Simple`.

`FilesProofs`. `TypesHold` says that the disk stays a tree, for every set of paths, every disk
and every list of operands: no command leaves a node without its directory, although it
reaches the disk through links that may dangle, turn in circles or lead out of the
root. `Times` and `Loop` are recursive functions; that they keep what one step keeps
(`TimesIn`, `LoopIn`) is again `NatSet`. Then come, bottom up: a path the host resolves
to is no path or lies in a directory (`WalkLands`), so that what is put there has its
directory (`PutAtIn`); a disk with room for a name has room for an inode, because two
names of `Path` cannot share all of them (`FreeInode`, by cardinalities); a directory is
removed only when nothing is below it, and a tree whole (`FsRmDirIn`, `FsRmTreeIn`); a
rename puts under the new name what was under the old one, and where a node comes from
(`Origin`), its directory comes from the directory of that (`OriginFront`, `RenameAtIn`).
A loop over operands may stop anywhere, so every lemma is about the disk that an
operation leaves whether it succeeds or not. `cd` enters only what `canonicalize`
returns for a directory, which is the root or a path of the tree (`EnterIn`); links that
`vfs` follows by hand (`vfs/mod.rs:183`) may end in a name above the root (`Name`), which
no directory has.

`RemovalExact` says what `rm` does on every disk, with every option: it takes away
nothing but what is at or below its operands, which it does not follow; files that
stay keep their contents; and when it answers 0 without `-f`, no operand is left.
The difficulty is that `rm` resolves each operand on the disk that the operands before
it have left, while the claim is about the disk at the start and the one at the end. Two
paths are followed side by side (`TimesPair`, `Beside`): a name in a directory resolves as the directory's path
does (`EntryDir`, `EntryAt`, `EntryReal`), so that `vfs`, which looks at the directory
first, and the host agree. On a disk of which something was taken (`Shrunk`) a path
leads where it led or nowhere (`Alike`, `WalkShrinks`), because below what is gone a
tree has nothing (`NothingBelow`). Hence an operand that is still there is what it was
(`OperandStays`), and one that is gone is not back under another name when the rest
are removed (`GoneStays`). `Removed` carries both through the loop over the operands.

`MoveIsWhole` says that a move of one operand that answers 0 has moved all of it: on the new
disk the destination leads to a tree that is, node by node and file by file, the one
that was moved, and nothing is left where it was. `mv` makes the directories above its
destination first, which may be above or beside the source, and the destination is a
path that may go through links inside what is moved. What `vfs` resolves an operand to
is a path without links (`SourceIs`, `Canonical`), unless the host has followed all the
links it would and is still at one: `MovesWhole` leaves that out, and there the link
moves. More directories change no way (`GrownLeads`, `GrownWalk`), and every directory that
is made is one that the destination, once it is resolved, lies in (`Built`, along the loop
of `create_dir_all`); so none of them is in the source, or the destination would be too and
the host would refuse. On the disk with the tree at its new place the destination
leads where it led before (`SameWalk`): a link is followed to a path that is no shorter and
keeps whatever directory without links it was in (`FollowKeeps`), so a way that once came
into the source, or below its end, could never have come to the destination (`Off`).
`OriginBack` is what makes the two trees one: the node at the new place is the one whose
new place it is.

`CdArrives` says that `cd`, `pushd` and `popd` that answer 0 leave the shell at a path
that is its own canonical form, also when the way there was a link with an absolute
target, which only `vfs` can follow. Again `SourceIs` and `Canonical` say so of whatever
`vfs` resolves to, and the one exception is a link at which the host gave up.

Proofs and model. To be reasoned about, some operators of `Git`, `Interp` and
`Vfs` whose `CASE` had overlapping arms (`Worked`, `GitRestore`, `Consumed`,
`RenameAt`) became `IF`s in the order of the code: TLC takes the first arm that holds, the
language promises only that it is one of them. `Fast` and its parts in `Sed` became operators of a
script and an input alone, and what a statement is became a set (`Statement`). The
recursive operators of `Vfs` became `Times` and `Loop`, and its paths sequences of numbers.

Only model-checked:

- Every liveness property (`TimedCallsReturn`, `OrphanEnds`, `CancelComesThrough`, `CallsReturn`,
  `TimeoutBounds`, `CancelEndsCall`, `CallsEnd`, `RuntimeFreed`, `ScriptsEnd`):
  fairness and `ENABLED` are out of the prover's reach.
- `Agrees` and `CancelShows`: `InterpRef` declares `RECURSIVE` operators, and what a
  recursive definition computes for every script needs an induction over nested
  scripts, which `NatSet` does not give.
- `OnlyOperands` beyond its part about `rm`, `SuccessMeansDone` beyond its parts about `rm`
  and `cd`, and moves of several operands: on a disk where one command takes nodes away and puts others, each
  operand is resolved on what the one before it left, and neither `Alike` nor `Off` holds
  for a path that leads into what has changed.
- The runs that expect a violation; they are counterexamples.

## 5. Where code and documents disagree

Two have a run with a counterexample; see `findings`.

| run | code | document |
|---|---|---|
| `ghost_run` | `sdk/mod.rs:369`: the start of a call clears the flag a timed-out predecessor left for its waiting worker, which then starts a command its host was told had timed out | `docs/integration.md:289`, `tests/session_fixes.rs:998` |
| `sources` | `vfs/mod.rs:424`: copying a file onto itself, or onto a link to it, empties it; `mv a b c` onto a name loses `a` | `cp.rs:8`, `mv.rs:8` |

Seen while modelling, without a run:

SDK, pipelines, devices.
- `sdk/ffi.rs:642`, 666: `start_agent_server` and `submit_task` hold `SDK_INSTANCE`
  while they wait for the runtime a command has (`sdk/mod.rs:690`, 713), and
  `cancel_execution` waits for it with them; `sdk/mod.rs:52` and `sdk/ffi.rs:14` say that a
  long-running command can never block it. As a rule the wait ends with the command.
  It does not if the command timed out and a later call cleared the flag before it was
  read: then the orphan keeps the runtime, `submit_task` keeps the lock, and the
  cancellation that would end the orphan waits for the lock. TLC finds this when the first
  disjunct of `CancelComesThrough`'s conclusion is dropped.
- `sdk/mod.rs:122`: a timeout sets the flag all calls share, so that it cancels a
  call of another host thread (`docs/integration.md:298`).
- `init` and registrations wait for the plugin mutex, and `shutdown`, `get_info` and the
  file API of the façade for the runtime, with `SDK_INSTANCE` or the façade in their
  hands (`sdk/mod.rs:293`, `sdk/ffi.rs:490`, `sdk/mod.rs:493`, 681). Of these, `SdkExec` has
  `shutdown`, and `DeviceBridge` the first two.
- `bridge/executor.rs:323`: a panic skips the restore of the cwd (`sdk/ffi.rs:611`).
- `sdk/ffi.rs:489`: the plugin is computed before the lock under which it is
  installed, so overlapping registrations may leave the less preferred one
  (`sdk/ffi.rs:516`).
- `paste_timeout.rs:190`, `executor.rs:4334`: the watchdog of one stage cancels the
  whole pipeline (`paste_timeout.rs:169`, `docs/api.md:121`).
- With `command_timeout_ms = 0` the flag is never cleared: after one cancellation
  every later call ends with 143 (`sdk/mod.rs:74`).
- A cancellation between the start of a call and the line that clears the flag
  (`sdk/mod.rs:369`) is lost; `shutdown()` (`sdk/mod.rs:692`) removes the root while
  an orphan may still run in it. No document says what is promised there.
- An orphan in a loop misses its cancellation when the next call clears the flag
  first, and keeps the runtime (`OrphanEnds` states what is left).
- A registration during a device command waits for it with `SDK_INSTANCE` held,
  and with it `cancel_execution`, up to the device timeout.
- A cancelled pipeline returns without joining its threads, while
  `docs/security.md:59` says that no threads are leaked (it speaks of panics).
- With an empty stage (`| x`), the index of a thread is compared with that of a
  stage (`executor.rs:4362`), and the last stage's code and output are lost.
- A cancellation, or an outer timeout, between the load and the store of
  `paste_timeout.rs:176` is overwritten.

Interpreter (`bridge/executor.rs`).
- `executor.rs:334`: an ERR handler whose own command fails (`trap false ERR; false`)
  fires it again, until the native stack is used up and the process of the host dies,
  which no `catch_unwind` stops; `executor.rs:173` says "run once". TLC finds it as a
  violation of `ErrTrapOnce`.
- `executor.rs:338`: an ERR handler also runs once per nesting level, and in a function it
  resets depth counters that its caller then decrements. Every builtin fails once the
  call is cancelled, the handler's too.
- `executor.rs:1774`: `local x=1; local x=2` leaves `x` at 1 after the function.
- `return` does not stop the rest of the list it is in (`executor.rs:296`); `exit` or
  `break` in the condition of an `if` still runs the first segment of a branch;
  the output of conditions of `if` and `while` is dropped.
- `break` and `exit` in `PRODUCER | while read` are ignored and leave
  `break_levels` set; `break N` beyond the open loops does too.
- `exit` in `$(...)` ends the whole script; variables assigned in `$(...)`, and by
  `local` in a subshell of a function, stay; subshells do not isolate positional
  parameters and traps.
- `! { exit 4; }` loses the code; `if` and `!` turn 143 into another code; `set -e`
  does not except tests of `&&` and `||` and does not leave loops at once.
- The INT trap runs with the flag still set, so its builtins answer 143
  (`docs/capability-matrix.md:25`).
- Arithmetic has no `&&` and `||`, `(( a == 5 ))` assigns, and `i64::MIN / -1` panics.

Git (`shell/commands/git.rs`).
- `git.rs:613`, 616, 638-645, 656: `git pull` drops the errors of `set_head`, `checkout_head`,
  `write_tree`, `find_tree`, `head` and `commit` and answers 0 with "Merged" or "Updated"
  (617, 660); `git merge` reports the same failures (1406-1432).
- `git.rs:1386`, 1429: `git merge` drops the error of `checkout_head`: the branch has moved,
  the files have not or in part, and the answer is 0 (`tests/git_robustness_test.rs:283`
  asserts that a merge updates the working tree).
- `git.rs:441`: `commit` does not look at MERGE_HEAD: the commit that ends a merge with
  conflicts, as `git.rs:1399` asks for, has one parent, and merging the same branch again
  conflicts again.
- merge and pull check out with force (`git.rs:616`, 656, 1386, 1429): uncommitted
  edits are lost. `git mv a b` overwrites `b`.
- `git push` reports success without looking at the rejection (`git.rs:504`).
- `git pull origin other` moves the local branch `other` and switches HEAD to it;
  while HEAD is detached it makes a branch `HEAD`; merge on a detached or unborn HEAD
  reports a fast-forward it did not do.
- `git reset --hard FILE` resets everything; `clean` takes any argument with an `f`
  or a `d` for that flag; `branch -d` deletes unmerged branches; commits may be empty.

Files.
- `ln a existing` falls back to a copy that overwrites, `ln -f a a` deletes `a`,
  `cp a a` and `ln a a` empty it. `mv link x` moves what the link points to,
  and `mv d d` moves `d` to where an absolute link in `d` with its name points, when
  nothing is there (`vfs/mod.rs:183`, `mv.rs:101`).
- `mv -f` and `cp -f` hide errors behind exit code 0. `mv` and redirects make
  missing parent directories, even when the command then fails.
- `>>` onto a file that is not UTF-8 loses what it held. With `> a > b`, `a` is
  never made; binary output is written before the redirect of stderr is looked at.
- `pushd` and `popd` that fail have dropped the entry. `rmdir -p` goes on above
  the root. A link to a directory with an absolute target works only as the
  last component of a path.
- `rm a missing b` stops at `missing`.

Network builtins.
- `wget.rs:45`, `shell/mod.rs:1035`: what wget downloads is decoded as text and saved as that,
  with exit code 0; `curl.rs:396` avoids this because it "corrupts binary downloads".
- With `--retry`, curl does not return at the deadline, as `curl.rs:213` says
  commands do: an error after the deadline is retried like any other, with sleeps
  nothing interrupts, until the attempts are used up; the flag that would stop it
  is cleared by the next timed call.
- The slot is read when the command begins, so the curl of an orphan may run on the
  budget of the next call. wget looks at the cancel flag only when it starts; pip
  neither at the flag nor at the deadline, for up to 3 times 60 s per request.
- pip keeps whatever the server sent in its cache, an error page too, and then
  every later install of that wheel fails; extraction has no rollback. Entries under
  `.data/` are skipped without a word (`pip_install.rs:639`).
- A body that cannot be written leaves the output cut short (`vfs/mod.rs:339`).
- `curl -C -` writes the remainder over the file, `-D FILE -o OUT` writes the headers
  to both, `-f -o` leaves an empty file, `-m 0` without a timeout waits for ever.

sed.
- A script that loops (`:a; ba`) looks neither at the cancel flag nor at the
  deadline (`sed.rs:1074`).
- `b` and `t` lose their address (`sed.rs:926`); `$!cmd` is dropped; `N` does not move
  the line number, so `$` does not match after it.
- A line that `d` or `q` gives up loses its queued text in the script path and keeps
  it in the fast path; ranges that end before they start differ; `p` prints the
  pattern space as it is at the end of the cycle.
- `0,3p` prints lines 1 to 3 in the fast path (`sed.rs:233`) and nothing in a script with
  control flow (`sed.rs:247`): line 0 is never met. The proof of `PathsAgree` found it.

## 6. Not modelled

The remaining pass-through entry points of façade and C ABI (string conversion,
JNI and iOS duplicates); permissions; Python and JavaScript interpreters (third
party, one step of `SdkExec`); text filters (`awk`, `jq`, `find`, `sort`, ...:
sequential functions of their input, most of whose lines parse and format);
word expansion, globbing, arithmetic and parsing; here-documents and process
substitution; `eval`, `source`, `select`; two writers of one file; `git clone`,
`init`, `config`, `remote` and what only prints; console I/O, dialect rewriting;
vendored code. Much of the repository is such text processing, of which
a model of state and order says nothing.

## 7. Plan

Done: all modules of section 2, and proofs of the safety properties of `SdkExec`,
`DeviceBridge`, `Pipeline`, `Net`, `Git`, `Interp` and `Sed`, and of the tree, of `rm`, `mv` and
`cd` in `Files`. In this order from here:

1. The rest of `OnlyOperands` and `SuccessMeansDone`: what `GrownWalk` says of a disk with more
   directories, for one with a new file or link, and a loop over operands that do both.
2. `Permissions` - instance and process tables, grants and clears of several
   instances and threads, prompts.
3. `Redirect` - files written by stages, orphans and later calls at once
   (`executor.rs:3885`), temporary files of process substitution.
4. `Reentrant` - shell to Python to shell on one thread; agent server.
5. Text filters with a language of their own (`find`, `awk`), as `Sed`.
