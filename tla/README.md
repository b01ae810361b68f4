# A verification of the agentic coding stack

TLA+ models of the parts of this repository that are hard to test, the TLC runs
that check them on small instances, and TLAPS proofs of the main properties for
every size. Paths are relative to the repository; `gpt_mcp/` stands for
`src/gpt-as-subagent/src/gpt_mcp/`, `adapters/codex/` for
`src/gpt-as-subagent/adapters/codex/` and `conductor/` for `src/apps/conductor/`.
`PROJECT.json` lists components, runs, fault operators, hazards, findings and
theorems, and maps every definition to the lines it models.

## 1. The system

The repository holds two systems.

**gpt-as-subagent** is an MCP server. A parent agent (the *host*) delegates work
to it; the server runs an agent loop against a model provider and lets that
agent read and change the files of a workspace. Several server processes may
serve one workspace. `glm-as-subagent` is a near-identical copy for another
provider. What is said of the one holds for the other; where both work in one
workspace at once they are modelled together (`TwoCommits`).

**The conductor stack** is a FastAPI service over SQLite that turns a task into
candidate changes, selects one, runs it through a *worker* service in a
worktree, and packages what succeeded into memory and pull requests.

### 1.1 gpt-as-subagent

| Component | State it keeps | Operations | What makes it correct | Module |
|---|---|---|---|---|
| Job manager (`job_manager.py`) | table of jobs, one execution slot, a mailbox and a cancel event per job, usage claims | start, run_sync, send_message, cancel, result_with_usage_claim, finish_usage_record, the worker thread | one agent at a time; no acknowledged message is lost; an accepted cancellation wins; changed files are disclosed; a result is kept while anyone needs it; jobs end | `JobManager` |
| MCP server (`server.py`) | tasks of requests, the usage log | tool handlers, cancellation of a synchronous run | a cancelled run's changes are told; its thread keeps others out until it ends | `SyncDelegation` |
| Agent loop (`agent_loop.py`, `resource_budget.py`) | history, turn, counters of tokens, tools and bytes | poll, request, run tools, finalize or steer | the conversation is well formed; no tool runs that the parent overruled; budgets hold together | `AgentLoop` |
| Provider and retry (`provider_process.py`, `provider_retry.py`, `hard_deadline.py`) | a subprocess, attempts, deadlines on three clocks | request, back off, stop | no time past the deadline, no child left, only what is transient is repeated | `ProviderCall` |
| Tool process and child (`tool_process.py`, `tool_child.py`, `parent_liveness.py`) | a subprocess, its pipe, the signal under way | launch, receive, stop, clean up, classify | no change goes unreported; no half answer is believed; everything ends | `MutationCalls`, `ChildPipe` |
| Workspace lease (`execution_lock.py`, `lease_inheritance.py`, `workspace_guard.py`) | a file lock on an open file, inherited by tool subprocesses; the directory it is for | acquire, inherit, close, bind | one delegation on a directory, crashes and moved paths included | `MutationCalls`, `LeaseFile` |
| Journal and recovery (`transaction_journal.py`, `transaction_recovery.py`) | one file per unreviewed mutation | record, list, acknowledge, gate the next delegation | written before the change, kept until reviewed, whole over kills and losses of power | `MutationCalls`, `JournalStore`, `WindowsJournal` |
| Bash tool (`bash_tool.py`) | a shell in a session or a job of its own | start, wait, end what is left | nothing survives the tool that could be ended | `BashCall` |
| Editing tools (`tools.py`, `file_io.py`) | what was read, until it is replaced | Write, Edit, NotebookEdit | an edit is made of the version it replaces, and of one cell | `AgentEdits` |
| POSIX commit (`posix_atomic_commit.py`, `file_identity.py`) | target, temporary and recovery names | exchange, park, audit, restore, discard | nobody's data is lost; the report is true | `PosixCommit`, `TwoCommits` |
| Windows files (`windows_*.py`) | the same, without an exchange; handles of directories | ReplaceFileW, read back, restore, delete by handle; open relative to a handle | the same; a file is opened where it was checked | `WindowsCommit`, `WindowsPaths` |
| Walk, glob, grep (`workspace_walk.py`) | a stack of open directories | list, descend, match | what is reported is there; what may be missing is said; all is closed | `WorkspaceWalk` |
| Private log (`private_logging.py`) | a log shared by processes | append, rotate | a confirmed line is whole and in the file readers find | `PrivateLog` |
| Codex configuration (`adapters/codex/*.py`) | the file, its backup, a manifest | begin, undo, roll back; what becomes of an entry | newer edits are not overwritten; a failure is undone; the user's tools stay | `CodexConfig`, `WindowsConfig`, `CodexPolicy` |
| Installers (`install.sh`, `scripts/`, `adapters/codex/*.sh`) | a lock directory, generations of the runtime, the host's registration | install, uninstall, their EXIT traps | the host is never told to start what is not there | `HostInstaller` |
| Configuration, profiles, schemas, command policy | none across calls | parse, match | pure, or read once | - |

The host calls the server's handlers. A synchronous delegation runs an agent in
a thread (`SyncDelegation` over the manager's `run_sync`), a background one in a
worker of the job manager. The agent loop asks the provider in a subprocess and
runs a tool call in another, which inherits the lease the manager took, writes
the journal, and commits through the file code. The journal gates the next
delegation of any server. The host sees jobs, messages and pending mutations.

What is hard here: callers and worker threads share the job table and the
mailbox; `cancel` sets an event before it takes away the mailbox and
`_finish_job` frees the lease before it commits the status; servers and their
children die independently, and a child that is killed may still complete the
system call it is in; editors and the other provider's agent write the same
files; deadlines, SIGTERM, SIGKILL and a watchdog race with a tool that is about
to commit; directories move while they are walked, bound or opened; the machine
sleeps, its clock is set, and it loses power.

### 1.2 The conductor stack

| Component | State it keeps | Operations | What makes it correct | Module |
|---|---|---|---|---|
| Execution routes (`conductor/main.py`, `services/governance.py`, `control_plane.py`, `escalation.py`) | execution_idempotency, job_control, operator_action_ledger, job_escalation | execute, retry-execute, resume-execute, cancel | a key runs once and its response is replayed; a cancellation stands; effects are in the ledger; escalation agrees with its streak | `ExecuteRoute` |
| Execution stages (`services/execution.py`, `src/apps/worker/main.py`) | execution_state, the files of the task | prepare, write, verify, review, repair once, reset | saved state and response agree; what was approved is what stands; after a failed repair a reset is asked for | `ExecutionStages` |
| Packaging, memory, telemetry, report (`memory_writer.py`, `package_semantics.py`, `reliability.py`, `invariants.py`) | package keys, memory rows, telemetry events | package, retry-package, report | a completed package has all its memory; events and report agree with the rows | `PackageRoute` |
| Decision (`candidate_generation.py`, `feasibility.py`, `frontier.py`, `arbiter.py`) | none across a request | build, gate, prune, choose | nothing is pruned without one as good left; the choice is feasible and not dominated | `DecisionPipeline` |
| Overlays and retrieval (`overlay_state.py`, `retrieval.py`) | overlay rows, memory rows, a full-text index | upsert, refresh, resolve | builders are guided by what was stored last; the index agrees | `MemoryIndex` |
| Clients, settings, schemas | none | HTTP, validation | I/O | - |

Route handlers run in a thread pool and every repository statement is committed
in its own session, so overlapping requests of one job interleave at every
statement and a request may end half way. There is no unique constraint behind
an idempotency key or an overlay's name, and nothing takes a failed or lost
run's row back.

`PROJECT.json` lists every hazard at its line with the properties that cover it.

## 2. The modules

A component's module states its variables, actions and properties; a module
`...Proofs` the theorems about it, or about all that one `MC` module composes. An `MC` module instantiates components for TLC, and
puts those that share no state *side by side*: a variable `part`, chosen in the
initial state and then constant, says which of them moves, and the others keep
their initial values. The states add up and do not multiply, and each behaviour
is one of one component. The named properties of a run are conjunctions of the
components' named properties; a cfg's `Parts` selects components.

| Group | Modules | Checked by |
|---|---|---|
| Delegations and jobs | `SteerableJobs` (abstract), `JobManager`, `JobManagerProofs` | `MCJobManager`, `JobManager` itself |
| Mutation path | `ReviewedWorkspace` (abstract), `MutationCalls`, `LeaseDomain`, `LeaseFile`, `BashCall`, `MutationCallsProofs` | `MCMutationCalls` |
| One delegation | `SyncDelegation`, `AgentLoop`, `ProviderCall`, `ChildPipe`, `DelegationProofs` | `MCDelegation` |
| That everything ends | `MutationCalls`, `SyncDelegation`, `ProviderCall` under fairness | `MCEnds` |
| Files of the workspace | `PosixCommit`, `WorkspaceFilesProofs`, `WindowsCommit`, `TwoCommits`, `AgentEdits`, `WindowsPaths`, `WorkspaceWalk` | `MCWorkspaceFiles` |
| Files of the home directory | `JournalStore`, `WindowsJournal`, `PrivateLog`, `CodexConfig`, `WindowsConfig`, `CodexPolicy`, `HostInstaller`, `PrivateFilesProofs` | `MCPrivateFiles` |
| Execution routes | `ExecuteRoute`, `ExecuteRouteProofs` | `MCExecuteRoute` |
| The rest of the conductor | `PackageRoute`, `ExecutionStages`, `DecisionPipeline`, `DecisionPipelineProofs`, `MemoryIndex`, `ConductorProofs` | `MCConductor` |

Operators named `X_Something` beside an operator `X` are *fault operators*: X
with a plausible bug, used by no specification. Each shows that a property fails
when the code goes wrong in that way (`mutants` in `PROJECT.json`).

### 2.1 Jobs and delegations

**JobManager.** A method runs under the manager's lock and is one action, except
where a thread that does not take that lock can see the middle: `Cancel` /
`CancelCloses` and `FinishReleases` / `FinishCommits`, during which `LockFree`
keeps other methods out. A worker thread is a program counter over the control
points of `run_agent`: `turn` (the turn limit and the first cancellation check),
`poll`, `request`, `answer` (`_finalize_or_steer`), `plan` (the poll before each
tool), `tool`, `stopped`, `commit`. The worker reads its mailbox under the
mailbox's own lock, and its event under none. A steering message is a size,
because all that the code decides on is count and bytes (`queue_message`); the
mailbox's two counters are kept apart, as in the code. What counts of the messages
that were accepted is those not yet shown (`unread`), so that a parent may send
without end. A result and an error are reduced to what they list: the result
has the records of the run's mutations or none (`Returned`), an exception was
turned into one that lists them and is marked to be kept, or was not (`Raised`),
and `_apply_cancelled_outcome` builds the error anew, keeps it or replaces it
(`CancelledError`). `finished_at` is the number of commits so far:
the code compares these times only to find the oldest (two equal times, or a
clock that is set back, would reorder victims; that is not modelled). Other
servers are the steps that take and free the lease and acknowledge mutations.

**SyncDelegation.** A request of `delegate_to_gpt` is a task on the event loop
and a thread. The task waits shielded, is cancelled at any await, any number of
times, and reads what the thread left; the thread starts late, changes files,
finishes, fails or finds its event set.

**AgentLoop.** One `run_agent`: the history is a sequence of entries (task,
answer, tool call, tool result, steering), which is what the provider is sent
and what the budgets measure. An entry costs one unit, whether it counts in
bytes or in tokens, as the code counts a byte for a token. The parent sends and
cancels, and the deadline passes, at any point.

**ProviderCall.** The thread's `call_with_retry`, the child of each attempt with
its watchdog, and the three clocks of a deadline: the monotonic one, which a
suspended machine does not advance, the wall clock, which may be set, and one
that counts suspension. Attempts fail in a transient
way or not, never answer, or answer late.

**ChildPipe.** One child (of the provider, of a reading tool, of a changing tool)
writes lines, and its server reads them when it has ended. A write may be cut
and followed on the same line by the next; the child gets SIGTERM more than
once, SIGKILL between any two steps, and its server may be gone. What the server
makes of the lines (`_receive_tool_result` and its counterparts) is an operator
over the whole output.

### 2.2 The mutation path

**MutationCalls.** The lease is the set of processes that hold the locked open
file (`holders`), since closing the server's descriptor frees nothing while a
child has inherited it. A transaction is a tool call and its child, whose
program counter goes `born`, `intended` (the record is in the journal), `ready`
(`mutation_ready` printed), `committing` (SIGTERM blocked), `committed`,
`replied`, `dead`. A kill ends a child in any of these, and in `committing` the
commit may land although the child was killed. The server's side follows
`_receive_tool_result`, `_stop_process`, `_cleanup_tool_process` and
`_complete_tool_call`. The whole commit is one step here, and so is the
publication of a record; `PosixCommit` and `JournalStore` take them apart. The
file is one, named by who wrote it last, since calls on different files share
nothing but journal and lease.

**LeaseFile** takes the lease apart: directories are objects, paths lead to them
and are moved at any time; a lock file belongs to a directory object; a lock to
an open file description (POSIX) or to an exclusive open (Windows), of which
children hold copies. `workspace_guard.py` compares the directory that a tool
finds with the one its lease is for.

**BashCall** is a shell with background processes, in a session of its own on
POSIX, in a job on Windows. It shares the variable `system` with `LeaseFile`, and
the run takes both systems. Commands are not journaled, which the repository
declares. The module shows exactly what may survive the tool (section 7).

### 2.3 Files of the workspace

**PosixCommit.** `dir` maps the target, the temporary and the recovery name to a
file, `data` a file to the version in it; a `FileIdentity` is the pair. Each
system call of `_write_posix`, `commit`, `_publish_missing`, `_park_displaced`,
`_restore_conflict`, `_restore_after_audit_failure`, `discard` and
`_remove_owned_recovery` is a step that works, or is refused because of the
directory, or fails (at most `MaxFailures` times). Other processes rename files
over the target, write it in place through an open descriptor, and remove any of
the names. A file number is used again once it is unlinked. The tool may be
killed anywhere, or stopped by SIGTERM outside the commit. Abstracted:
half-written temporaries (never published before the write is complete);
ownership and permission checks (a mismatch is a failed call); NFS.

**WindowsCommit** keeps the same state for `windows_workspace_write.py`.
ReplaceFileW is not atomic: it may move the target away and do nothing more.
`_checked_read` refuses a version that is too large.

**TwoCommits** runs the same protocol by two agents over one file with a third
process beside them; a version is a file with its data, and checking a hidden
name and removing it are one step, as nobody else touches hidden names here.

**AgentEdits** is the way from a read to the conditional commit: a file is a
sequence of cells, found again by identifier or by index.

**WorkspaceWalk** walks a tree of directory objects whose entries are moved and
replaced under it, by descriptors on POSIX, by paths that are checked again on
Windows. Matching one name against one glob segment is membership in a set. Two
kinds of names are passed over without a word: on Windows those that `safe_part`
refuses (`Unsafe`), and everywhere protected ones (`Control`: `.git`, `.claude`,
`AGENTS.md` and the like). `is_protected_host_path` resolves the path again, so
where a link has come to stand on it meanwhile its verdict is open (`Verdicts`).
What a walk leaves out is therefore stated as the code has it: an answer that does
not say it is incomplete has all that nobody touched *but for these names*.

**WindowsPaths** opens a chain of directories and a file by handles relative to
the parent (agents' files, private files, the adapter's files). It relies on
NTFS: a directory in which a handle is open without delete sharing is not moved.

### 2.4 Files of the home directory

**JournalStore** publishes, lists, updates and removes records by temporary and
rename under a lock that dies with its holder. `names` is the directory as
processes see it, and a loss of power takes back what was not synchronized.
**WindowsJournal** has the same state; there, the lock is an exclusive open, so
that an overlapping operation fails, and power is not lost, as the code never
flushes the directory.

**PrivateLog** instantiated twice: `usage.log` rotates, `server.log` does not.

**CodexConfig** has a transaction of `configure.py` with its own undo and a later
rollback, beside an editor that knows no lock. `WindowsConfig` replaces its write
and delete steps. `CodexPolicy` says which entry is the adapter's, and what an
installation makes of its fields; parsing of TOML is abstracted to fields.

**HostInstaller** runs the shell scripts of both hosts as steps of commands that
fail with or without effect; a signal runs the EXIT trap. The registration of
Codex is one step, since `CodexConfig` is about it.

### 2.5 The conductor

**ExecuteRoute.** A request is a thread that takes one committed statement per
step: lookup of the key, INSERT of the in_progress row, the run, UPDATE to
completed, the two statements of `observe_execution_outcome`, the upsert of
job_control. `Abort` is an exception nobody catches, or the end of the process,
between any two. `row` is the latest row of a key: the code reads no other.
`late` and `after` are history variables: whether the key had been used, or a
cancellation answered, when a request arrived.

**ExecutionStages** is what `ExecuteRoute` calls a run: every call of the worker
and of a model and both statements of `_save_state` are steps, and any may
raise. `shows` says whose worker it is. That of the repository writes files and
answers every `git_diff` with nothing (`src/apps/worker/main.py:75`, `112`), so
that each repair ends without a diff; that of the tests shows what was written.
Neither takes a write back at `POST /repo/reset` (`main.py:61`). So the model
claims of a failed repair what `execution.py` itself sees to: `owed`, the runs
that wrote since the last request to reset the task, has none whose repair is
reported as failed.

**PackageRoute** has both package routes with their separate commits of memory,
key and telemetry, the approval of a retry, and the report's checks on packages.

**DecisionPipeline** is sequential: its inputs, the builders' answers, are open.
Objectives are levels, features points whose distance stands for the cosine.

**MemoryIndex**: an upsert reads and writes in two steps; a refresh of the index
is one SQLite transaction. `index` counts the rows of each entry, since the table
has no key that would keep one from being inserted twice.

## 3. What TLC checks

| Run | Instance | What it shows |
|---|---|---|
| `jobs_safety` | 2 jobs, 2 synchronous callers, 2 messages of 1 or 2 bytes, mailbox of 2 messages and 3 bytes, 2 turns of up to 2 tools, table of 1, any number of messages one after another; beside it 4 jobs over a table of 2 | `LeaseKept`, `SteeringKept`, `CancellationWins`, `MutationsDisclosed`, `UsageRecordedOnce`, `TableRight` |
| `jobs_liveness` | 2 jobs, 1 caller, 3 turns; messages without end, 2 at a time | every job ends, a cancellation takes effect, refinement of `SteerableJobs` |
| `mutation_safety` | 2 servers, 2 transactions, journal of 1; 2 owners and 2 tools over 2 paths and 2 directories; a command with 3 background processes | `OneDelegation`, `JournalFirst`, `Disclosed`, `RecordsFit`, `LeaseExact` (which is `LeaseFile` and `BashCall`), refinement of `ReviewedWorkspace` |
| `ends` | 2 servers and 1 tool call; 2 requests; 1 provider call of 2 attempts | every child gives the lease back, every call returns, a cancelled request frees the slot, a provider call ends though nobody answers |
| `delegation` | 3 requests cancelled up to 3 times; 3 turns of up to 2 tools with small budgets; 3 attempts in 4 units of time, 2 of them slept through; a child that gets up to 3 SIGTERMs | `CancelIsSafe`, `ConversationRight`, `BudgetsHold`, `AttemptsRight` |
| `commit_safety` | 2 foreign files, 4 foreign versions, 2 failing calls, on POSIX and Windows; 2 agents; 2 calls of an agent and 2 changes by its user; a walk over 3 directories with a protected and an unsafe name and 1 change under it; an opening with 2 | `DataKept`, `ReportsAreTrue`, `WalkRight`, `OpeningRight`, `ReplacementRight` |
| `private_files` | 2 processes, 2 records, 1 of which fits; 2 servers, 3 lines, logs of 3 chunks; 4 edits and 2 failing calls; entries of 2 generations; 3 runs of installers, 2 faults | `JournalKept`, `LinesWhole`, `ConfigurationKept`, `StepsRight` |
| `execute_safety` | 3 requests, 2 keys, an operator or a guest | `NoRerun`, `ReplayIsFaithful`, `CancelStands`, `EscalationAgrees`, `LedgerFirst` |
| `conductor` | 2 package requests, 2 keys, administrator or guest; 2 runs over 2 files, with either worker; 3 builders; 3 upserts of 2 overlays | `PackageWhole`, `FailedRepairReset`, `CheckpointsKept`, `RowIsTrue`, `DecisionsRight` |
| `windows_restore`, `execute_once`, `codex_edits` | see section 6 | three statements of the repository that the code does not keep |

What the conjunctions say is in the comment on each of them, with the lines.
Some worth knowing:

- **A stopped child is read right** (`ChildPipe`, in `AttemptsRight`): wherever
  its lines are cut, no half answer is believed and every change that may land is
  reported as possible or is in the journal.
- **Two agents on one file** (`TwoCommits`, in `DataKept` and `ReportsAreTrue`):
  of two edits made from one version at most one is reported as done, and what
  was reported can be found; what a third process wrote is not lost.
- **An edit is of the version it replaces** (`AgentEdits`, in
  `ReplacementRight`), though it was made from a read long before.
- **A file opened on Windows is the one that was checked** (`WindowsPaths`).
- **The telemetry and the report say what happened** (`PackageRoute`,
  in `PackageWhole`), although every event has a commit of its own.
- **Pruning loses no kind of candidate** (`DecisionPipeline`): for all that was
  offered there is one on the frontier that dominates it, or a near-duplicate.

**Why the bounds are enough.** Two jobs make one that holds the slot and one that
wants it or is finished; retention needs more finished jobs than the table keeps
and one to start, hence four over two. Two messages of two sizes reach the count
limit and the byte limit separately. Two turns of two tools contain every poll
(the first, between tools, after tools, at the answer); the agent loop alone has
three, so that steering can arrive after a turn with tools and be answered before
the last. In the liveness run a job has three turns and its parent may send a
message whenever the mailbox has room, for ever: more messages than turns come, and
a final answer is superseded in every turn. Only the turn limit ends such a job.
Two servers and two transactions contain a child that outlives its
server beside a new delegation of another; a journal of one is full after one
call. Two paths and two directories are a path that is moved away from a locked
directory while the other path still reaches it. An acknowledgement of several records at once is left to the theorem
(`JournalStaysKept`). Two failing calls are a step
and its recovery; the foreign versions are the baseline, one before and one after
the exchange, and one that is refused for its size. Three requests are two that
overlap and one that comes after both; the package routes need only a pair, as
a later request differs from an overlapping one by where the first stands. A
request that was cancelled three times was cancelled at its first await, in its
clean-up and once more. Three runs of an installer are a success, its successor
and one for the other host. A walk has directories side by side and one in the
other, and one move puts an entry where the walk was or will be.

`CHECK_DEADLOCK FALSE` is set where a behaviour is one commit, one call, one
decision or a fixed set of requests, and stops when these are over. Deadlock is
checked for the job manager and the mutation path, whose servers go on for ever.
Symmetry is used in safety runs only.

**Fairness.** Every other liveness property needs, and gets, only this:

- `JobManager!FairSpec`: worker threads are scheduled and a `cancel` that holds
  the lock lets go of it (`Worker`, `CancelCloses`, weakly fair). Threads are
  preemptive and every agent step is bounded: provider and tools run under
  deadlines whose expiry is `AgentFails`. Nobody is obliged to call anything, to
  end a synchronous run, or to free another server's lease.
- `MCEnds!ToolFairness`: signals arrive and the timers of watchdog and server run
  out, and a server that is in a call goes on with it. No fairness is assumed of
  the tool, which may hang in any step, nor of acknowledgements, which a human
  gives. A process blocked in the kernel for ever is thereby excluded.
- `MCEnds!SyncFairness`: the event loop resumes a task that is ready, and a
  thread starts and reaches its checks of the event. Nothing makes an agent
  finish by itself.
- `MCEnds!ProviderFairness`: time passes, the calling thread and the child's
  watchdog are scheduled. Nothing makes a provider answer.

## 4. What is proved

The theorems hold for every value of the constants that satisfies the named
assumptions, which TLC evaluates on the runs: the sets of ids are disjoint and
`None` is in none of them (`IdAssumption`, `ProcessAssumption`,
`NothingAssumption`, `RequestAssumption`, `RunsAssumption`, `StoreAssumption` and
their like), limits and times are natural numbers (`LoopAssumption`,
`CallAssumption`, `LogAssumption`), what a command leaves is not its shell
(`CommandAssumption`), a field that is absent has none of its values
(`PolicyAssumption`), identifiers of cells and files are no numbers and an
agent's versions are named for it (`PartsAssumption`), no snapshot of a
configuration is `None` (`CodexAssumption`), the host that is not of an
installer is none of the names it gives out (`InstallAssumption`), a candidate
has a level in each of finitely many objectives, and there is at least one
builder and one medoid (`DecisionAssumption`), nobody's upsert is `"none"`
(`AdviceAssumption`); the sets of jobs, transactions, requests and generations
are finite.
Where a module of proofs is about what an `MC` module puts side by side, it
proves the invariant of each part by itself, and a lemma `StepsApart` or its
like says that a step of the composition is a step of one part that leaves the
variables of the others; the theorem on the composition follows. So the
statements are about `PartsSpec` and name the properties of the run, for any
numbers of everything.

**JobManagerProofs.** The properties of `jobs_safety`, and that the manager
implements `SteerableJobs`. None of the invariants is inductive
alone. `IInv` adds what a reader of the code keeps in mind: the status follows
the worker's position (`StatusFollowsWorker`); the slot is the unfinished job or
the synchronous run (`SlotInv`); holding the lease and being between acquisition
and release are the same (`LeaseInv`); until a cancellation, what was accepted
and not shown is in the mailbox, and a completed run or a finished cancel has
closed an empty one (`SteeringInv`); what a stopped worker reports lists records
exactly when it changed files, in its result if it completed and else in an error
that is marked to be kept (`ReportInv`), from which each branch of the commit
follows. The steering guarantee rests on the last:
`drain_messages` closes an empty mailbox in the step that decides to return the
answer, so nothing can be accepted between that step and the commit.
`TableIsRight` needs an induction over the finished jobs. No two of them end at
the same time, so that they are in a strict order; of the jobs to keep, the
later half is unique (`Newest`), and how many come after a job falls along the
order. The induction is written as a minimal counterexample: the numbers of later
jobs that refute the claim are a set, and a set of numbers has a least member.

**MutationCallsProofs.** All properties of `mutation_safety`.
- The mutation path, with the action property `AckIsFinal` and the refinement of
  `ReviewedWorkspace`: the holders of the lease file are exactly the processes at
  work (`Held`); a child at work beside a server's delegation is one of that
  delegation's own calls (`OwnCalls`); and where a child stands decides whether
  its record exists (`Journaled`): none before `intended`, in the journal from
  there until the child is dead, and acknowledged only then. An acknowledgement
  needs the lease, hence no child is alive, hence no acknowledged transaction
  can still change the file. `RecordsFit` uses the cardinality of finite sets.
  `PartsAreCalls` carries these theorems to the composition.
- `LeaseExact`, the lease that the mutation path assumes: a lock is of an open
  file description, a description is of one directory's lock file for good
  (`Kept`), at most one description of a lock file is locked (`OneLock`), whoever
  is past the comparison holds a copy of it (`Served`), a server shares it with
  its own children only (`Alone`, `Inherits`).
- `LeaseExact` on the shell: what is ended when depends on how far the tool has
  come (`Reached`, `Ended`); on Windows, everything of the command that has not
  left is in the job as long as that is open (`Bound`).

**DelegationProofs.** All properties of `delegation`.
- `CancelIsSafe`: a request that is answered after at most one cancellation has
  waited for its thread (`Waiting`); how a thread ended tells whether it changed
  files (`Telling`); and only the thread itself gives the slot back (`Holding`).
- `ConversationRight` and `BudgetsHold`: the history is well formed up to the tool
  calls still open, and these are the rest of the plan (`Talk`), whichever way
  the loop closes them (answered, refused, or skipped when the parent steers);
  what is metered, charged and written agrees with where the loop stands
  (`Spending`); a message that the parent sent is in the mailbox or in the history
  until the run is sealed (`Mail`); after a cancellation the loop begins one more
  step at most (`Stopping`). The prefix of a history keeps its form when entries
  are added (`Prefix`), which the lemmas on plans and steering use.
- `AttemptsRight`: deadlines of a request are the earliest of those on the three
  clocks and never later than the run's (`SmallestOfThree`, `LimitedIs`); a child
  exists only while its attempt is awaited or stopped (`Children`). For the
  child's channel, what the lines say so far follows the child's place (`Order`),
  what the server believes follows the lines (`Known`), wherever a write is cut.

**DecisionPipelineProofs.** `DecisionsRight`: the whole of `DecisionPipeline` and
of `MemoryIndex`.
- The selection, for any candidates, thresholds and numbers of builders and
  medoids. The lists are finite, so whatever could fail fails first for a smallest
  one (`Smallest`). A candidate that is dominated is dominated by one that is not:
  the one with the fewest above it (`Undominated`). The choice that dedupe makes
  from left to right exists and is the code's (`KeepsExist`, `DedupeIs`); together
  they give what pruning keeps (`PruningKeeps`). A score is a sum over a set,
  defined by picking one member after another: it exists, is the same for every
  set it is a part of and grows with each summand (`SumsExist`, `SumsAgree`,
  `SumsGrow`). `select_medoids` tries only choices of one size; any smaller one
  extends to one that was tried and covers no less (`Extends`, `MedoidsBest`).
  The invariant says how many builders have answered (`Counted`), how far the
  lists have come (`Listed`) and what they were made of (`Pruned`).
- The overlays, for any keys, repositories, upserts and memory. While upserts of a
  key have not overlapped, it has at most one row, and that is of the last of them
  (`KeyRight`); a row is of the key of the upsert that wrote it (`RowsRight`); the
  entries of a fresh repository are what its tables say, each once
  (`IndexRight`).

**ExecuteRouteProofs.** Types and all safety invariants of `execute_safety`, for
any number of requests and keys. `IInv` says where a request stands: one that
arrived late, or after a cancellation, never reaches the INSERT (`KeyInv`,
`CancelInv`); a completed row is that of an ended run of its key (`RowInv`); a
control request past its authorization is in the ledger (`EntryInv`).
`EscalationAgrees` needs more, since two observers may read one streak and both
write it: every streak anybody has read is covered by failed runs that are
already observed (`StreakInv`), and an observer's own run is not among them until
it writes.

**ConductorProofs.** The other properties of `conductor`.
- `PackageWhole`, for any number of requests, keys, roles and statuses. Where a
  request stands tells what it has written (`SoFar`), a completed row names a
  request that has written everything (`RowInv`, `Finished`), and a request that
  arrived late finds a row for ever (`KeyInv`). The row of a key may fall back
  from completed to in progress, when an overlapping request inserts its own: the
  proof needs only that some request that has not said it succeeded is then under
  way or was lost.
- `CheckpointsKept`, `RowIsTrue` and the repair, for any number of runs, files and
  targets. Where a run stands tells its verdict, its repair and its response
  (`RunRight`); the row is that of a run under way, lost, or ended as the row says
  (`RowRight`); while no run has begun beside another, at most one is under way,
  what it read of the saved state is still there, and what it was shown is what
  `git_diff` still answers (`OneByOne`, `Shown`), so that a completed row stands for the
  files (`Stands`). A repair is given up only in the step that asks for a reset, and
  its run writes no more (`ResetStep`); this needs nothing of the worker.

**WorkspaceFilesProofs.** `DataKept`, `ReportsAreTrue`, `WalkRight` and the action
property `ReplacementRight`, for any files, versions, agents, cells, workspaces,
patterns, limits and numbers of failing calls and of changes: the properties of
`commit_safety` but the openings'.
- `PosixCommit` and `WindowsCommit`: the place in the commit says which names are
  free (`FreeNames`), where the tool's own file is not (`OwnFile`), and what it
  reports (`Reporting`); no version is written twice (`Numbered`), so that
  what a comparison has found stays true although files are written after it
  (`Compared`). `WindowsInv` is made of the same parts over three hidden names.
- `TwoCommits`, for any number of agents (`AgentsInv`): no version has two names
  (`Apart`); each version that was displaced or published is under a name until
  it was overwritten or an edit made from it took its place (`AllFound`), and does
  not come back then (`Taken`); and until somebody outside removes what an agent
  wrote, at most one agent hides a version of another process (`OneHides`).
- `AgentEdits`: where a call stands says what it has read and of which inode
  (`EditsPlaced`); before the conditional commit the new text is made of that
  copy, and its bytes are reserved (`EditsPaid`); identifiers of cells in a file
  are numbers that calls have used, each once (`EditsClean`).
- `WorkspaceWalk`: a link that came to stand on a path is remembered in what was
  there, so that without one each verdict on a protected name is right (`GuardStep`);
  the automaton is, after a path, in the gaps that some cut of the
  path leads to (`ReachEmpty`, `ReachAdvance`), so that a path matches exactly
  when the last gap is among them (`ReachMatches`), and every directory on the way
  to one that matches can be descended into (`ReachDescends`). A frame is of a directory that a chain of
  entries which were there led to (`FrameRight`), and what is yielded or found
  has such a chain of real directories (`WalkSound`). A matching path that nobody
  has touched is found, on its way to the tool, or ahead of the walk: still to be
  listed in an open directory, or below the entry that is being looked at
  (`WalkComplete`), unless the walk has said that it missed something. Nothing is
  ahead of a walk that is done.

`PartsInv` puts the five side by side.

**PrivateFilesProofs.** All properties of `private_files`: `JournalKept`,
`LinesWhole`, `ConfigurationKept` and the action property `StepsRight`.
- The journal, for any processes, ids, warnings and limit, on both systems. A loss
  of power replaces the names by those on disk, so the invariant says the same of
  both directories (`View(names)`, `View(Lasting)`): whole records, every warning
  that was acknowledged, everything confirmed that nobody has begun to remove,
  nothing that was reported as removed, no more than the limit. An operation that
  holds the lock has found something nobody else can change (`Doing`): a new
  intent has no record and there is room for it (`Recording`), the text about to
  replace a record has all of its warnings (`Warning`), what was unlinked is gone
  and must be synchronized before it is reported (`Acknowledging`). On Windows
  the two directories are one.
- The logs, for any servers, lines and limits, with and without rotation: what a
  server has appended of its line is the end of its file as long as it holds the
  lock (`Appending`), a line nobody has begun is nowhere (`Untouched`), a
  confirmed line is in one file in two chunks side by side (`InOnePiece`), and
  the descriptor of a server past its refresh is the file under the name unless
  that is removed (`InPlace`).
- The entry of Codex: every entry that an installation accepts is settled by it,
  by cases over the fields (`Settles`), and `ChoicesKept` of every step.
- The transactions of the adapter, beside any number of edits and failing calls
  (`CodexInv`): what a manifest restores has no entry of the adapter, and its text
  is saved (`ManifestRight`); a restoration replaces what was installed or what it
  is forced to (`RestoreRight`); only what an installation wrote has the entry
  (`OursRight`), and an undone one has left it nowhere, unless two calls failed
  (`InstallUndone`, `UndoUndone`). On Windows, where the name can be free for a
  moment, the last text of the editor is then the one set aside (`NameInv`).
- The installers, for any number of runs, generations and faults (`InstallInv`):
  a running installer has the lock of its host, and the generation that it found
  registered is complete as long as it has not succeeded (`FoundRight`); while
  nobody else registers anything, what it found is what it goes back to
  (`AloneRight`); the place in the script says which of its flags are set
  (`FlagsRight`) and whether its own generation may be the registered one
  (`OwnRight`); the generation that a host starts is complete and its own
  (`HostsRight`).

**Only model-checked.**
- Liveness and the fairness it needs: the prover has no rule for ENABLED.
- `OpeningRight`: where an object is (`FinalPath`, `Below`) is a recursion over the
  tree that other processes change, and a recursive function can be unfolded only
  with a theorem that takes an operator. The run lets two entries be moved while
  a file is opened; with five moves, one kind of opening at a time, TLC finds no
  violation either.

Induction over data, where a theorem needs it, is the search of a least
counterexample in a concrete set (`WFMin` on the natural numbers or on the parts
of a finite set); what the
recursive definitions of the models compute is otherwise left to TLC.

## 5. What is not modelled

- Prompts, HTTP, schemas, settings, formatting of what is read, the fields of a
  provider's response, and the text of memory and pull requests.
- The command policy and the regular-expression guard: text matching without
  state. Which names are protected: four of them, of files, count at the end of a
  path only, and credentials by their place below the home directory; the walk has
  one set of names that count anywhere. Matching of a name against one glob
  segment, the parsing of TOML and the
  ranking of retrieval are abstracted to what they decide.
- Access control lists and ownership checks: a mismatch is a failed call.
- Writes through a descriptor that was opened before an exchange and arrive after
  the audit: the directory no longer names that file, and no check on names can
  see them.
- Windows journal over a loss of power: the code does not flush the directory
  there, and promises nothing.
- A usage log whose close fails after the line was written: `JobManager` takes a
  failed write as one that wrote nothing.
- Telemetry of the execution routes, which no handler reads; job creation and the
  endpoints that only read rows.
- The links to helper assets of the installers, and their permissions.
- The components with status `not_modelled` in `PROJECT.json`, each with its
  reason.

## 6. Findings that a run shows

- **A displaced version is not restored on Windows** (`windows_restore`). `commit`
  (`gpt_mcp/windows_atomic_commit.py:98`) promises to restore any non-baseline
  displacement, but catches `OSError` only, while reading back what was displaced
  raises `ValueError` when that is too large or changes under the read.
- **One key can run twice** (`execute_once`). Lookup and INSERT are two steps and
  no constraint makes the key unique (`conductor/main.py:181-238`,
  `conductor/db/models.py:117-126`), against the idempotency promised in
  `src/README.md:30`. Requests that arrive after the first run began never rerun
  it (`NoRerun`).
- **A newer edit is overwritten** (`codex_edits`). When the write of Codex's
  configuration fails after the exchange, the handler compares one snapshot and
  then restores with `force=True` whatever it finds (`adapters/codex/configure.py`,
  `_begin_locked`), against "refusing to overwrite newer edits".

## 7. What else the models showed

Behaviour that a maintainer should know of, and that the properties are stated
around. Each is reachable in the module named.

Files of the workspace:
- `PosixCommit`: the exchange comes before the comparison. A tool killed in
  between leaves its replacement over a version it was not made from; that
  version survives under a hidden name.
- `TwoCommits`: the leases of gpt and glm do not exclude each other. With a third
  process writing the same file, both agents may report an error while the
  target holds one agent's edit and the third's version has only a hidden name.
  Nothing is lost, but "error" does not mean "the target is not mine".
  Of foreign versions `NothingLost` there speaks of those that an agent displaced;
  `PosixCommit` covers the others.
- `WindowsCommit`: after a partial rollback the report names the recovery file,
  not the displaced one, while the target is missing; after a failed parent
  audit of the first replace the displaced file is neither compared nor named;
  `_win_final_path` failing before the rollback gives an error although the
  replacement stays (`windows_workspace_write.py:93`).
- `LeaseFile`: `workspace_guard.py:1` binds every operation to the workspace object,
  but Bash starts its shell in `config.workspace` by path (`bash_tool.py:244-246`).
- `BashCall`: a SIGTERM between `Popen` and the return of `_start_host_command`, a
  SIGKILL of the tool, a descendant that calls `setsid`, and on Windows one that
  is started before the assignment to the job, leave processes without a lease.
- `AgentEdits`: a notebook edit by `cell_index` changes whatever is at that index
  now; an insertion after an unknown `cell_id` appends.
- `WorkspaceWalk`: protected and unsafe names are left out without saying that the
  answer is incomplete; a link that is put on a path between stat and the check may
  let a protected name through, or keep another out. POSIX skips a directory that changed, Windows fails the walk;
  `_open_base` leaks its descriptor when the workspace is refused.

Delegations:
- `ChildPipe`: a SIGTERM inside the ready line leaves a cut line. The call is then
  a plain failure although its intent is in the journal: nothing was changed, and
  the next delegation must still acknowledge it. A child that cannot be stopped
  loses its output; what it may still change is in the journal only.

Home directory:
- `WindowsPaths`: a private file may be moved while it is open. A directory that
  takes the place of the checked one, gives the file, and goes back after the file
  was moved out of it, all between two looks at the checked directory, is not
  noticed. It takes five moves; `OpensTheChecked` leaves such a file out.
- `HostInstaller`: a signal in the EXIT trap of Claude's scripts leaves lock and
  generation; between the check of a registration and `claude mcp remove`
  somebody else's can appear; the "previous" generation that is kept is the
  newest other one, not always the one that was registered.
- `CodexPolicy`: an installation switches on an own entry that the user had
  switched off (`configure_policy.py:255`), which `ChoicesKept` does not cover. An entry that lost its marker comment is recognised only below
  the managed root. `WindowsConfig`: a partial ReplaceFileW leaves the
  replacement under a hidden name. `write_exclusive` can fail after the link.

Conductor:
- `ExecuteRoute`: a `retry_execute` is recorded as accepted and may be answered
  with a replay, against `src/README.md:40`.
- `ExecutionStages`: `/repo/reset` does nothing, so the writes of a failed repair
  stay and are part of what the next run is shown; a reset that raises ends the run
  without a report; a resume repeats stages that were done; overlapping
  runs lose each other's checkpoints (`CheckpointsKept` is about runs that follow
  one another).
- `PackageRoute`: overlapping requests of one key may both write memory; the report
  calls a package invalid that is merely under way.
- `MemoryIndex`: two overlapping upserts of a new name insert two rows, of which
  only the first is ever resolved and both are indexed; `/memory/query` passes no
  task, and canonical memory is not filtered by repository (`retrieval.py:253`).
- `DecisionPipeline`: a zero feature vector is not a near-duplicate of itself.

## 8. What is left

- A proof of `OpeningRight`.
- The refinement of the one-step journal of `MutationCalls` by `JournalStore`, of
  its one-step commit by `PosixCommit`, and of the run of `ExecuteRoute` by
  `ExecutionStages`, as refinement mappings. Today the match is by reading: what
  the abstract step promises is what the detailed module's invariants say.
- The telemetry of the execution routes, and job creation, whose ids
  (`task_id:len+1`) can repeat under overlapping requests.
