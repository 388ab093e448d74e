# Formal model of rvs

TLA+ modules, TLC configurations and TLAPS proofs for `rvs`, the binary-analysis
engine of this repository: a Rust command line (`src/src`), a Python agent harness
and MCP server (`src/rvs_agent_harness.py`) and a Python orchestration layer
(`src/neutral_orchestrator`). Paths below are relative to `src/`.

`PROJECT.json` is the machine-readable side of this file: components, runs,
mutants, the source lines of every definition, findings, hazards and theorems.

## 1. Inventory

An agent calls a method of `RvsHarness` or an MCP tool. The harness starts one
`rvs` process per command in a session of its own and kills it at a time limit.
`rvs` starts one radare2 (or r2frida) process per query, again in a process group
of its own with a time limit of its own, and prints one JSON envelope; the harness
prunes it. For APK and DEX files, and for all files through the orchestrator,
`target_ingestion.py` first unpacks the target into a temporary directory, and
`neutral_representation.py` replaces raw names in the answers by neutral tokens.

| Component (source) | State it keeps | Operations | What is hard | What makes it correct |
|---|---|---|---|---|
| Ephemeral directory watchdog (`neutral_orchestrator/target_ingestion.py` 205-442, 719-977) | registry of directories, its lock, once-only flags, per target a flag, a lock and a finalizer; the file system | ingest, cleanup, finalizer, exit callback, signal handler, TTL sweep | threads; handlers and collector runs on top of critical sections; exceptions at any instruction; crashes; other processes | no directory without somebody who will remove it; no directory taken from a live target; the lock stays with its holder; handlers and shutdown end |
| Codebook (`neutral_orchestrator/neutral_representation.py` 35-597) | two dictionaries, counters, two cached regexes | register token and alias, sanitize, neutralize, restore, export, import | calls of two threads between the two registrations of one name; merged books; stale regexes; tokens that look like others | tokens are unique, stable and restore to their name |
| Binary patching (`src/patch`, `src/agent/patch_plan.rs`) | the binary, its `.bak` | patch bytes / instruction / string, patch plan live and dry | step k of n fails; radare2 hangs, writes nothing, or outlives rvs | what is reported is on disk; the backup undoes the rest |
| Harness command runner (`rvs_agent_harness.py` 218-318, 2919-3010) | arch/bits cache per path | run, watchdog, clear_session | two equal time limits race; exit status 5 has two meanings; stale cache | one answer per command; no process left |
| radare2 driver (`src/r2/driver.rs`) | none between commands | cmd, cmd_write, resolve_address, time limit | reader threads joined without limit; group of its own | a command ends; its radare2 ends with it |
| Debug sessions and workflows (`rvs_agent_harness.py` 3571-3760, 4128-4908) | set of sessions, the most recent one | spawn, attach, kill, list; triage_crash, bypass_decision_gate, dump_decrypted_buffer, detect_anti_debug | spawn or kill times out after it took effect; default session dies | every session a workflow starts is killed; a default is alive |
| Orchestrator sessions (`neutral_orchestrator/orchestrator.py`) | closed flag, target, mapper, harness | query, close | close during a query; targets and harnesses owned by the caller | the component asked for answers; the session's files are gone afterwards |
| Tool dispatch, MCP server (`rvs_agent_harness.py` 1313-2830, 4921-6214) | orchestration flag | execute_tool, serve_mcp | exceptions at every stage; a flag that all threads of a process share; three tables that must agree | one answer per request, flag restored, every advertised argument honoured |
| Neutral control flow (`neutral_representation.py` 600-1795) | none | instructions to blocks, blocks to state machine | fall-through, missing targets, loops | every path of the input is one of the output |
| Target ingestion formats (`target_ingestion.py` 1-204, 443-718) | none | classify, choose ABI, unzip | malformed files | parsing |
| Response shaping (`rvs_agent_harness.py` 325-1313, `src/compact.rs`, `src/response.rs`, `src/error.rs`) | none | prune, paginate, map errors | limits and offsets at the boundary | pages partition the list |
| Rust command line (`src/main.rs`, `src/cli.rs`), static analysis (`src/analysis`, `src/agent`), Frida (`src/frida`), installer (`install.sh`) | none | parse, query, format | parsing of tool output | - |

The debug daemon that `dynamic debug` talks to (`src/debug/` in the crate) is not
in the repository.

How they meet: `serve_mcp` calls `execute_tool`, which calls the harness's methods or
opens an orchestrator over a package; the orchestrator extracts into directories that
the watchdog owns, calls the same harness back, and passes answers through the codebook.
The debug workflows call the harness's own debug methods.

## 2. Plan

Order of importance, not of size. Done: 1-7.

1. `EphemeralLifecycle` - the only component with real concurrency and with promises
   ("six tiers", "deadlock-free", "zero leaks") no test can settle.
2. `Codebook`, refining the abstract `TokenBook` - shared mutable state behind every
   orchestrated answer.
3. `Patching` - the only operations that change the user's files; composes the Rust
   commands, radare2 and the harness's watchdog.
4. `DebugSessions` - sessions, defaults, composite workflows over an external daemon.
5. `ToolCatalog`, `Orchestration` - the three tables of the tools; execute_tool, query
   routing and the orchestration flag of a harness shared by threads.
6. `McpServer` - composes the loop of the server with `Orchestration`.
7. `Paging`, `ControlFlow`, composed by `AnalysisPipeline` - the algorithms between rvs's
   output and the agent.

Next, in this order:

8. An orchestrator that several threads of a caller share: close during a query, and the
   cleanup of a target that the caller handed in.
9. `Watchdog` - both time limits, both process groups and the reader threads of the
   radare2 driver; Patching's `Kill` and `WriteTimeout` become its abstraction.
10. Proofs of what 8 and 9 add; every invariant and every safety property of the present
    modules has its theorem (section 9).

## 3. EphemeralLifecycle

The unit of execution is an *activity*: the body of a thread, one invocation of
`_signal_cleanup_all`, or one collector run of `_finalizer_cleanup`. Python runs the
last two on top of whatever a thread executes, so each names the activity it
interrupted (`under`) and only the topmost one of a thread takes steps. `pc[a]` is
the place in the code, `dir[a]` and `todo[a]` are its local variables. One action is
what no other thread can observe in parts: taking a lock, the body of a `with`, one
`rmtree`, one `mkdtemp`. Signals arrive between any two of them.

| State | Code | Action groups | Code |
|---|---|---|---|
| `active`, `registryLock` | `_ACTIVE_EPHEMERAL_DIRS`, `_REGISTRY_LOCK` | `SweepCheck` .. `Extract` | `ingest_target`, `create_ephemeral_dir` |
| `atexitSet`, `trapped`, `sweepDone` | the three once-only flags | `TargetLock` .. `RmtreeAndReturn` | `UnifiedTarget.cleanup`, `cleanup_ephemeral_dir` |
| `target`, `armed` | a `UnifiedTarget`, its `weakref.finalize` | `Drop`, `Collect`, `ExitFinalizers` | the collector and `weakref`'s own exit callback |
| `fs`, `stale`, `owner` | `rvs_target_*` directories, older than the TTL, who made them | `ExitSnapshot` .. `ExitDone` | `_atexit_cleanup_all` |
| `status` | the process | `Signal` .. `HRaise`, `UntrappedSignal` | `_signal_cleanup_all` and the previous handler |

CPython is external: threads are joined before exit callbacks, callbacks run last in
first out, an exception at exit is reported and the next callback runs, handlers run
on the main thread. What the previous handler does (raise, end the process, return)
is the constant `Dispositions`.

| Run | Instance | Shows |
|---|---|---|
| `lifecycle_threads` | two threads, two directories (one that rmtree cannot remove), one collector run, kills and restarts, no signal | types, nothing lost, live targets keep their directory, clean exit, cleanup means gone |
| `lifecycle_signals` | the same threads and collector run, one signal, all dispositions | lock discipline, a directory is lost only in the two registration windows |
| `lifecycle_liveness` | main thread, two nested handlers, fairness | handlers end; shutdown completes unless a handler ended with the lock |
| `lifecycle_hang` | the same, handlers that raise | *refutes* "Deadlock-Free Signal Handlers" for two signals: shutdown waits for ever |
| `lifecycle_leak` | one thread, one signal that raises | *refutes* "zero ephemeral directory leaks upon exit" |

Bounds. Two threads are enough for two cleanups of one target and for a holder and a
waiter of each lock; two directories for one that is being removed beside one that is
not; one signal beside a worker thread meets every instruction of both, and two
handlers without one meet every instruction of a handler. Two collector runs at once
cannot meet new states of the registry: the second waits where the first does.
Without a bound on signals the main thread can be interrupted for ever, so
`MaxSignals` bounds the behaviours, not only the states. The runs have one process;
several are covered by the theorems, which hold for any number of them (section 9).

Fairness is weak fairness of every started activity: the interpreter schedules its
threads and runs what is on top to its end. Nothing is assumed of the program
(starting and ending calls), of signals, of the collector or of time. In
`lifecycle_liveness` the hard case is the thread that holds the registry lock
interrupted by a handler that needs it; a worker that holds it instead can always go
on, and is left out of that run to keep it small.

The handler acquires the lock, enters its `try` and lists the registry in three actions
(`HAcquire`, `HTry`, `HList`; lines 323, 325, 326), because an exception between the
first two passes the `finally` by. A second signal is needed for that: its handler runs
on top of the first and raises. The lock is then `Orphan`, held by nobody that runs, and
`_atexit_cleanup_all` (line 301) waits for it. `LockDiscipline` says that this needs two
signals, `ExitCompletes` that nothing else keeps the shutdown from its end, and
`lifecycle_hang` that it happens. Once the `try` is entered the `finally` is taken to
reach its `release()`: that clause, like the entry and the exit of a `with`, is not
interrupted in the model.

Two limits outside the runs. A collector run of the finalizer takes the registry lock
without a time limit (`:295`), and waits for ever when the thread it interrupted holds
it; `lifecycle_liveness` has no collector run. And a directory becomes stale by its
modification time alone, so a process that keeps a target longer than the TTL (a day) loses it to the
sweep of another process. `LiveTargetKeepsDir` is therefore stated of the process's
own sweep and checked with one process; for any number of processes
`LiveTargetIsSpared` is proved instead: the sweep of the target's own process never has
its directory on the list.

## 4. TokenBook and Codebook

`TokenBook` is the class comment's promise ("1-to-1 bijective mapping") as a
specification of its own: a name that has a token keeps it and no two names share
one. `Codebook` models `BijectiveCodebook` and `NeutralTokenMapper`. Every method of
the codebook runs under its lock and is one action; `sanitize_symbol` and
`sanitize_string` call two and hold nothing in between, so they are two actions
(`SanitizeSymbol` or `SanitizeString`, then `RegisterAlias`), with `pending[t]` the
local variables that survive from one to the other.

A string is its radare2 decorations (`sym.`, `str.`) and a core; cores are values,
and `Underscored` is the code's `replace(' ', '_')`. The number that
`import_codebook` reads in a token is the number it has, and in a content-hash token
whatever digits its hash starts with (`Digits`). `Substitute` is the compiled regex:
exact key first, then the leftmost and longest key. The regex cache is state,
because a stale one would be a bug: `TypeOK` says that a compiled regex holds
exactly the keys of its map.

| Run | Instance | Shows |
|---|---|---|
| `codebook_session` | one session, two threads, function and string names that share a core, both hash modes, import of an own export with any map missing | types, counters ahead of tokens, maps inverse, tokens honoured, round trip, stability, the promise of `TokenBook` |

What the class comment promises (`:217`) holds of names that do not contend for a
spelling, which `Unambiguous` says and the instance assumes: no two strings differ only
in a space and an underscore, which would give them one alias (`:519`), no core is an
alias or the spelling of one, and so on. The session imports only its own exports: the
book of another session overwrites tokens that were already told (`:381`, against `:307`
and `:368`). With both, bijection, round trip, stability and the refinement of
`TokenBook` are proved for any set of names (section 9).

Bounds: two threads because a name is registered in two steps and only two calls
can interleave in one session; one export because a second one of the same session
only repeats its lines with larger counters; three cores because a collision needs
two names and a third that is not involved.

## 5. Patching

`file` is the binary as a function from patch sites to what radare2 reads there, `bak`
its `.bak`, `Blank` while missing or half written. A command is validated, resolved, backed up,
prepared, written by a `radare2 -w` process and verified; `pc`, `step` and `writer`
say where it is and what its radare2 has yet to write. What may be wrong with an
edit (`Flaw`) is data; *when* it is noticed is control, and differs between the
single commands, a live plan and a dry run (`Malformed`, `RefusedEarly`,
`RefusedLate`, `Simulate`). radare2 reports success for a write to an unmapped
address; only `verify_write` notices, and only if the edit asks for something else than
the `ff` that radare2 reads there (`Filler`; `src/patch/verify.rs:28`): such an edit is
reported as applied although there is nowhere to write it. `WriteTimeout` is rvs's own time limit, which
kills radare2 and waits for it; `Kill` is the harness's, which kills rvs alone because
radare2 has a process group of its own.

Commands run one after the other, as one harness issues them. A radare2 that rvs left
behind may write at any time during later commands.

| Run | Instance | Shows |
|---|---|---|
| `patching_commands` | two commands, all single edits, two-step plans and dry runs over three sites (one unmapped), every flaw | types, backup restores, reports are faithful, refused plans touch nothing, nobody writes late, commands end |
| `patching_atomic` | one command | *refutes* "atomically apply multi-step patch plan" |

An orphan is possible: the harness's limit kills rvs's process group, and radare2 is in
another (`src/r2/driver.rs:332`, `rvs_agent_harness.py:251`), although `README.md:27` says
that orphans are prevented.

Bounds: two commands so that the second meets the backup and the orphan of the first;
two steps so that one fails after another was written; three sites so that edits
overlap, do not overlap and have no effect, also when that goes unnoticed. The properties that an orphan of an earlier
command would break are stated for commands that no killed one precedes
(`Undisturbed`). Fairness: weak fairness of rvs's own steps. radare2 gets none; that
commands end although it may hang is what the time limit is for.

## 6. DebugSessions

An agent is one harness process and makes one call at a time: a debug method on its own,
or a workflow, which is a chain of them. `pc[a]` is the answer it waits for, `request[a]`
and `reply[a]` what is under way, `flow[a]` the workflow (`dump_triage` is triage_crash
inside dump_decrypted_buffer). The daemon is external and unreliable: it may refuse, do a
thing and answer unreadably, too late or with an error, or lose a session; a request
whose rvs was killed at its time limit may be served afterwards (`late`).

| State | Code |
|---|---|
| `active`, `recent` | `_active_debug_sessions`, `_most_recent_session_id` |
| `sess`, `gate`, `verdict` | `sess_id`, the gate found by flow, `crashed`/`bypassed`/`extracted` |
| `debuggee` | the daemon's session: who made it, its last event, ZF now and at the gate |
| `lost`, `disturbed`, `answered`, `before` | history: ids nobody was told, sessions driven by others, whether the verdict rests on an answer, the state at the workflow's start |

| Action | Code |
|---|---|
| `Call`, `CallReturns`, `NoteSpawn`, `NoteKill`, `Resolved` | `debug_spawn` .. `debug_kill`, `_resolve_debug_session` |
| `Start`, `Check*`, `SpawnFails`, `Spawned` | the workflows up to their session |
| `TriageContinued`; `BypassContinued`, `RegistersRead`, `Flipped`, `Stepped`; `DumpContinued`, `MemoryRead` | triage_crash; bypass_decision_gate; dump_decrypted_buffer |
| `Killed`, `Conclude` | their finally blocks and returns |
| `Serve*`, `Refuse`, `SessionEnds`, `TimeOut`, `Crash` | the daemon, the time limit of run, the end of the agent's process |

`debug_workflows` runs an agent with two sessions, one late request and one end of its
process (whose sessions then play another agent's): sessions stay accounted for, the
default is the agent's own, verdicts are true, workflows restore, every call returns. Two
sessions because a kill must be able to choose another default and a triage inside a dump
may leave one behind; one late request because a second would only do the same to another
session. Fairness: weak fairness of the harness's steps and of its time limit, none of
the daemon.

What the code does and the properties except: a continue that is refused is reported as
no crash (`VerdictFaithful` asks for an answered one); only ZF is flipped, so a `jl` is
reported bypassed although it goes where it went (`BypassInverts` asks for a branch that
ZF decides); a spawn that times out may leave a session that no agent can name (`lost`); and a session
that ended by itself stays its agent's, maybe its default (`DefaultIsOwn` says whose it is,
not that it lives).

## 7. ToolCatalog, Orchestration, McpServer

`ToolCatalog` holds the three tables that the code writes apart, one row per tool:
`Schema` (`CANONICAL_TOOLS`), what `execute_tool` demands and reads on its direct and on
its orchestrated way, and what the method behind the tool puts into its command.
Arguments are names; one is in a call's set when the client gives it a value other than
the default and other than zero, because a zero is read as no value in several places (`or 30`
and the like, `rvs_agent_harness.py:5651`, 5663, 5931, 5947, 5966). `Orchestration` is a call from the checks of `execute_tool`, or from
the routing of a query method, to its answer:

| State | Code |
|---|---|
| `flag`, `ctx` | `_in_orchestration` of the shared harness, its thread-local twin |
| `saved`, `dir`, `reply` | `prev_in_orch`/`prev_ctx`, the session's extracted files, the envelope |
| `disturbed`, `crossed` | history: sessions overlapped or a caller adopted the harness; calls routed under another's session |

`Begin`, `Route`, `Check`, `Run`, then `Save`, `Enter`, `Ingest`, `Query`, `Close`,
`Restore` follow the code line by line where another thread can see the difference.
`Resolve` is the choice of the component in `query` and `get_component`. `McpServer` adds
the loop of `serve_mcp` in one of the threads: `ReadLine`, `Respond`, `CallTool`,
`CallDone` (both of which write and may find the client gone), `InputEnds`. A line over
which `json.loads` raises something other than `JSONDecodeError` (nested too deep, a number of
too many digits) ends the loop unanswered (`:6046`, past the handler at `:6213`): `raised`.

`tool_calls`: a client of two lines and an agent of the same process that makes one call,
out of every tool with its needed and with all its arguments (that no choice in between is
worse is proved: section 9), query methods over seven
kinds of file (packages with components of several ABIs, with bytecode only, empty,
malformed, a binary of an unknown machine), and malformed calls. Two threads are enough:
a session can only be overlapped by another. Two lines are enough for order; more lines
repeat.

`FlagRestored` and `AnswersAsked` are stated for sessions that do not overlap, since the
code does not keep them otherwise: the flag is one per harness, so a second thread's
query on a package runs rvs on the raw file while a session is open (`crossed`), two
sessions restore in the wrong order, and an orchestrator that a caller opens marks the
harness for good (`orchestrator.py:260`). `SchemaHonoured` excepts
`rvs_patch_instruction`, whose schema does not say that `assembly` or `nop_bytes` is
needed (`rvs_agent_harness.py:1721` against 3340-3364), and `compact` where the answer has
one form only: the four workflow tools advertise it (`:2549` to 2617) and `execute_tool`
drops it (`:5932`, 5948, 5967, 5985), and the DEX reader ignores it (`Formless`, `Owed`). `rvs_agent_triage` settles for
any component, so it is not among the queries of `AnswersAsked`. There is no fairness:
a tool that never returns is stopped by the time limit of `run`, which is the subject of
sections 5 and 6.

## 8. Paging, ControlFlow, AnalysisPipeline

`Paging` is the slicing of the `prune_*` functions with their hints, what each tool
passes to them, and the slicing that rvs does itself for a live process. `ControlFlow` is
`from_raw_flow` on its two routes, `from_cfg`, the detector's natural loops, rvs's agent
flow and the stand-in blocks of the orchestrator. `AnalysisPipeline` composes them: an
agent pages through a list, or takes one function's blocks from one of four sources and
has the graph, the machine and the loops made of it.

| Run | Instance | Shows |
|---|---|---|
| `analysis_pipeline` | lists of up to five entries with every limit (0 to 3, and none) and offset; functions of up to three blocks with every choice of branches, self loops, entries that are not the lowest address and targets outside | pages partition the list; the machine moves as the program does; no loop escapes |
| `paging_frida` | the same | *refutes* that an agent with no hint left and as many entries as the answer counts has the whole list: of the modules, symbols and classes of a live process rvs prints a slice (`src/frida/modules.rs:139`), and in compact form the harness slices the slice and counts it |

An answer in full is what rvs printed (`Uncut`): for a live process a slice beside the
true total (`src/frida/modules.rs:167`), without a hint. In compact form rvs leaves the
total out and `prune_modules` counts what it was given, so the divergence is of that form
alone, which `OtherListsAreWhole` proves.

What `FunctionAssumption` takes for granted of a listing is what a disassembler gives:
no two blocks share an instruction, so no address at which one starts or branches is one
of another; a block that ends in a return has no successors; and a branch that is not
taken goes on behind itself. `LoopsCaught` needs the last: the detector leaves out
not-taken edges into a head, which is sound because none goes back. `Picked` (the entries of
a sequence at some of its places) stands for the list comprehensions, and `Firsts` for
the test `not in nodes`; they are written as flattened families of sequences because
those can be reasoned about block by block.

Bounds: a list of five with pages of two or three has a first, a middle and a short last
page, and offsets on, before and beyond each boundary. Three blocks are the least with a
loop of two and a way in and out; the not-taken edge always goes to the next address,
as on every processor.

What the code does and the properties except: a limit of 0 repeats its own hint;
strings, xrefs and disasm take no offset, so their hints cannot be followed (`FollowHint`
is for the tools that can); an indirect jump or a `hlt` runs on into the next listed
block (`RunsOn`, `neutral_representation.py:1354`); blocks listed without disassembly do
the same after a return. The gate route is not covered by `FsmFollowsProgram`: its nodes
are the addresses of branch instructions, which an edge reaches only when the branch is
all of its block, and the not-taken predicate is negated twice (`:1434`, `:1538`), against `:1491`'s "deterministic". Nor is
the orchestrator's cfg, whose edges lose their type on the way
(`orchestrator.py:695`, read as `type` by the graph). A loop body holds the code before
the loop as well (`_find_natural_loop_nodes` starts from every edge into the head);
`LoopsCaught` says what remains true of it.

## 9. Proofs

All theorems hold for every value of the constants under the named assumptions of the
modules, which TLC evaluates on every run:

- that constants have their types and that kinds of values do not overlap:
  `ActivitiesDistinct`, `MainAssumption`, `EnvironmentAssumption`, `NameAssumption`,
  `HashAssumption`, `BoundAssumption` (of `Codebook` and of `AnalysisPipeline`),
  `UsualLimitAssumption`, `PatchAssumption`, `SessionAssumption`,
  `OrchestrationAssumption`, `McpAssumption`;
- `FillerAssumption` of `Patching`: what radare2 reads where nothing is mapped (section 5;
  no theorem needs it);
- `FunctionAssumption` of `AnalysisPipeline`: what a listing of blocks is (section 8);
- `Unambiguous`, a hypothesis of the theorems about bijection and not of `Codebook`
  (section 4), which `MCCodebook` assumes of the instance.

| Module | Theorem | Argument |
|---|---|---|
| `EphemeralLifecycleProofs` | `TypeCorrect` | `Types /\ Frames` is inductive. `Frames` is needed: which code an activity may be in depends on what it interrupted, and an exception moves several frames at once (`Unwind`) |
| | `LockCorrect` | `LockKept`: with `TypeOK`, the lock's holder is in a critical section; the step that needs an argument is an exception through nested handlers. `SignalDepth`: a handler on top of another has taken a signal of its own, so one that is unwound between `acquire()` and `try` is beneath a second signal |
| | `NothingLostBeforeSignals`, `QuietNothingLost`, `QuietCleanExit` | `ShutdownInv`: while `signals = 0` no handler exists, every directory is registered, armed or in a frame, and at exit the last two are emptied in that order |
| `EphemeralTargetProofs` | `QuietLiveTargetKeepsDir`, `LiveTargetIsSpared`, `QuietCleanupMeansGone` | `Base` holds with signals too: one activity works on a directory, the finalizers alive are those of uncleaned targets, no directory is both registered and being removed. `Calm`, until the first signal: what is needed is registered and on the disk, no sweep of the same process lists it, and what is cleaned is gone or in the hands of the one that removes it. The steps are first sorted by what they do to directories (`StepKinds`), so each part is carried through two dozen kinds and not through every action |
| | `SignalLossOnlyInWindow` | `Windows`, for at most one signal: there is one handler, the directory of the frame it interrupted is in the registry, then on its list, then gone, and what was registered behind its back has another account |
| `CodebookProofs` | `TypeCorrect` | strengthened by the types of waiting calls and exported books |
| | `TokensAreCounted` | needs that exported books are themselves counted, and that an import takes the largest of three numbers |
| | `BooksAreBijective`, `TokensAreHonoured`, `NamesSurvive`, `NeutralTextIsStable` (with `Unambiguous`) | `BookInv`: what is in a book is a bare name with a token of its number or its hash, or the alias of one under its decoration (`Shaped`), so a new token and a new alias collide with nothing; between the two registrations of a name the alias that waits is already determined (`Waiting`) |
| | `CodebookKeepsPromise` (with `Unambiguous`) | the refinement of `TokenBook`: each step of `Codebook` adds nothing, or an entry whose name and token are both new, or the missing part of an own export, which is an extension that keeps the maps inverse |
| `PatchingProofs` | `TypeCorrect` | with `SingleStep`: a single edit stays at its one step |
| | `NoneWritesLate` | `Writers`: a radare2 yet to write belongs to a waiting or a killed command |
| | `RefusedUntouched` | `Refused` and `Serial`: one command runs at a time, a refused plan only in validation or simulation |
| | `BackupRestores` | `BackupInv`: before the backup is complete the binary is as it was, afterwards the backup is |
| | `ReportsApplied` | `ProgressInv`: on disk are the edits before the current one, and maybe the current one; the verification tells which. Lemma `AppliedStep`: one more edit replaces one more site, for plans of any length |
| `DebugSessionsProofs` | `TypesHold`, `SessionsAreAccounted`, `DefaultsAreOwn` | `Protocol`: an agent has sent or received only what its place in the code waits for. `Made`: the session an answer names is new, was made for this agent and is in nobody's set; a confirmed kill is of a session that is gone. Without `Made` a kill could take a live session out of the set, or a spawn name a stranger's |
| | `WorkflowsRestore` | `Restoring`: in a workflow the agent knows what it knew, what was not killed and the one session at hand, which is the default. Then the step that ends a workflow removes exactly that one; two workflows in a row need the unconfirmed kills of the first carried along |
| `DebugVerdictProofs` | `VerdictsAreFaithful`, `BypassesInvert` | `Evidence`: what an agent has heard of a session that nobody else drove is still so, label by label from the continue over the registers and the flip to the kill. A late request, another agent or the end of the session is what `disturbed` and `Live` take out |
| `McpServerProofs` | `AdvertisedIsComplete`, `DirectCallCarriesAll`, `QueryCarriesAll` | the three tables row by row, in groups small enough for the prover, for every set of arguments but the `compact` that a workflow drops (`Lost`) |
| | `CallsRestoreFlag`, `ServerRestoresFlag` | `SharedMark`: undisturbed, at most one thread is in a session and the mark it saved was off, so what it restores is off; `OwnMark` is the same for the thread's own mark |
| | `ServerTypes`, `ServerHonoursSchema`, `ServerAnswersAsked` | `JInv`: a call keeps to the way that its arguments choose (`OnItsWay`), and an envelope says of its own call what the tables, or the first matching component, say (`Heard`). `RightWay`: the way is chosen by a mark that only another's session could have set, so an uncrossed query that runs rvs itself has no package |
| | `ServerRepliesInOrder` | `Waits`: the line in hand is the last that is due an answer, and once the client is gone or the parser has given up none is read |
| `AnalysisPipelineProofs` | `PagesArePartition`, `OtherListsAreWhole` | `Walk`: the hint of the last answer points to the end of what was seen, and is given exactly when something remains; a page of at least one entry makes progress. An answer in full has the true total (`Whole`), so what is as long as that is the list |
| | `TypeCorrect`, `MachineFollowsProgram` | `Made`: the view is one of the function chosen, the graph of the view, the machine of the graph. Then facts about the pure functions: a flattened family of sequences lies piece after piece in the whole (`FlattenLaid`), the edges of a graph are those of its blocks in order (`EdgesOfBlock`, `OutOfBlock`), and two taken edges never have the same count (`TakenCountsDiffer`), so the two edges of one gate exclude each other and no third has their predicate |
| | `LoopsAreCaught` | the walk over the stack ends with the least set closed against the edges: the function that `Grow` takes it for exists (`WalkedExists`), every turn keeps the sets that suit the walk (`TurnSuits`) and finds a node or shortens the stack (`WalkedIsLeast`). Of the nodes on a cycle the one at the lowest address is a head (`CyclesHaveHeads`), for an edge of the cycle comes into it from no lower address; and if its body missed the node, nothing the node reaches outside the body could lead to the head |

Only model-checked is what is stated under fairness (`HandlerReturns`, `ExitCompletes`,
`CommandEnds`, `CallEnds`): liveness and ENABLED are beyond the prover.

Checked and proved alike for no signal, or for one: `LiveTargetKeepsDir`,
`CleanupMeansGone`, `NothingLost` and `CleanExit` are statements about a process that no
signal has reached (a handler takes every directory it finds, and `lifecycle_leak` shows
what it misses), `LossOnlyInWindow` about one signal.

Each property of a passing run has a mutant in `PROJECT.json`: a variant of one
definition (named after it, defined just before it) under which TLC finds the
property violated.

## 10. Not modelled

- Text and file formats: zip, ELF, PE and DEX headers, assembler and disassembler output,
  JSON envelopes, wording and logging; the patterns by which the detectors recognise
  loops and ciphers, and the checks of `verify_invariants` (`neutral_representation.py`
  655-1133), which compare texts.
- The Rust command line, the static analyses other than blocks and flow, Frida scripts
  and the installer: no state between calls.
- The debug daemon, radare2 and CPython are external; their behaviour is what the code
  provides for.
- Of the hazards without a module: two names whose SHA-256 agree in 32 bits get one token
  (`neutral_representation.py:263`); `.bak` has one name and is overwritten by the next
  command (`src/patch/verify.rs:9`); close() during a query (`orchestrator.py:296`); the
  arch and word size that the harness caches by path when the file is replaced
  (`rvs_agent_harness.py:2945`); exit status 5, which says a timeout of rvs and of the
  harness alike (`:2963`); the reader threads of the radare2 driver, joined without a limit
  (`src/r2/driver.rs:395`); a dry run that accepts what the live run refuses
  (`src/agent/patch_plan.rs:158`); the filter of strings, applied after the page was cut
  (`rvs_agent_harness.py:3280`).

## 11. Running

    tlc -workers 2 -config lifecycle_threads.cfg MCEphemeralLifecycle.tla
    tlapm PatchingProofs.tla

Every run ends within five minutes on two cores; the largest are `tool_calls` (670 000
states), `lifecycle_signals` (530 000), `debug_workflows` (510 000) and
`patching_commands` (500 000).
