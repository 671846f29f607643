# DasLab orchestration engine: a TLA+ verification project

The repository is an "AI development company": tickets on a Markdown board are
planned into waves, each ticket of a wave is handed to an agent process in a git
worktree of its own, and what happened is recorded in hash-chained evidence that
later gates check. The Python under `scripts/` is the engine; the other
directories are agents' prompts, policies, front ends and data. This project
models the engine: the modules are translated from the code under `scripts/` and `tools/`,
checked with TLC on small instances and, for the properties that matter most,
proved with TLAPS for every value of the constants.

Contents

1. Inventory: parts of the system, state, operations, interactions
2. Modules and their correspondence to the code
3. Runs: bounds, what each shows, why the bounds are enough
4. Fairness
5. Proofs
6. What disagrees with the repository's own statements
7. Assumptions and limits; what is not modelled
8. Plan

## 1. Inventory

### 1.1 How the parts interact

```
 tickets/*.md --(read once)--> wave_planner --plan--> orchestrator --one thread per ticket--+
      ^                             ^                    |   ^                              |
      |                     --occupied-zone              |   | dispatch journal (jsonl)     v
      |                        (operator)                |   +-----------------------  claude_invoker
      |                                                  |                           (attempt thread)
 status edits by                                         v                                  |
 people and agents                                 wave_runner                              v
      ^                            evidence, receipt <run_id>.json, wave ledger       run_workspace
      |                                                  |                         (git worktree, agent)
 guardrail_dispatch, check_ledger <----------------------+
                                                         v
                          check_wave_reconciliation, check_attestation (gates)

 journal, ledger, ticket texts, quota windows: all through filelock (sidecar flock)
 loop_controller / flow_router: a heartbeat tick that reads board, event store, rails
 checkpoints, completions, events: written by wave_runner, read by resume_fork and the tick
 control plane, A2A intake: goals, run intents and approvals into inboxes and a ledger
```

The control plane is an HTTP server, and the A2A endpoint and its intake take calls from
outside. Everything else is a function of a short-lived Python process; parts share state
through files, and several processes may be at work at the same time: two orchestrators,
an orchestrator and a heartbeat, an orchestrator and the agents a killed predecessor left
behind. Inside an orchestrator there are threads: one per ticket in a bounded pool and,
below each, one per attempt.

### 1.2 Components

| Component | Code | State | Operations | What makes it correct |
|---|---|---|---|---|
| File locking and atomic files | `filelock.py` | sidecar `<file>.lock`, the file, temporary files | `exclusive_lock`, `locked_update_text`, `atomic_write_text`, `locked_append_text`, `locked_read_text` | one writer at a time; no update lost; a reported failure is a failure; never half a file |
| Wave planner | `wave_planner.py` | board snapshot, occupied zones, plan | `plan_wave` | no two agents in one zone or on one ticket; nothing ahead of its dependencies; priority respected; no ticket starved |
| Dispatch of a wave | `orchestrator.py` | dispatch journal, thread pool, attempt counters | `dispatch_units`, `_run_unit`, `_invoke_with_timeout`, `DispatchJournal` | a success is done once and never again; what is reported is what is journalled; a hanging agent holds nothing up |
| Agent invocation | `claude_invoker.py` | the agent process of an attempt | `invoke_with_config` | the answer counts only after a clean teardown |
| Run worktrees | `run_workspace.py` | a git worktree per ticket and run | `create_git_worktree`, `remove_git_worktree` | one agent per worktree; uncommitted work is not destroyed |
| Wave evidence | `wave_runner.py`, `snapshot_evidence.py` | evidence files, receipts, receipt chain, wave ledger | `run_wave`, `append_wave_ledger_entry`, `next_wave_number` | a chain that never forks, gap-free numbers, an entry, a receipt and evidence that agree |
| Evidence gates | `check_wave_reconciliation.py`, `check_attestation.py` | none | `chain_errors`, `verify_wave_ledger` | accept exactly the honest histories |
| Wave checkpoints and resume | `pulse_checkpoint.py`, `resume_fork.py`, `replay_qa.py` | a checkpoint per wave and run id, `completions.jsonl` | `write_wave_checkpoint`, `append_ticket_completion`, `fork_run` | what was recorded can be rebuilt, whatever died meanwhile |
| Event store | `dgox/events.py`, `dispatch_emitter.py` | `events.jsonl` | append, read, `emit_wave` | records in an order readers can rely on |
| Heartbeat and promotion | `loop_controller.py`, `flow_router.py`, `break_glass.py`, `metrics_history_feeder.py` | the files above, read | `tick`, `route_from_store`, `activate` | one wave in flight; an override stops the ticks that follow it |
| Output guardrails | `guardrail_dispatch.py` | attempts, feedback and status in the ticket | `guardrail_dispatch`: retry, halt, escalate | bounded retries, no entry lost, a halt respected |
| Stall loop and task ledger | `check_ledger.py`, `task_ledger.py`, `interrupt_roundtrip.py` | stall counter, replans, pause cards | `update_stall`, `step_inner_loop`, `detect_resumed_tickets` | a run that gets nowhere asks a person, and not before its plans are used up |
| A2A endpoint | `tools/a2a/quota.py` and its neighbours | one quota file of all principals | `reserve` | at most the quota in a window; no call refused without cause |
| Control plane, intake, approvals | `tools/control_plane/app.py`, `a2a_intake/intake.py`, `rbac.py` | goal inbox, run inbox, approval ledger, audit logs | `write_goal`, `write_run_intent`, `append_gate_approval` | what is answered for is there; what is audited was done |
| Graph state and board mirror | `dgox/state.py`, `dgox/board_adapter.py`, `dgox/langgraph_loop.py` | ticket states in memory | `apply_group`, reconcile | a shadow behind a flag that is off |
| The rest | see `PROJECT.json` | | fan-out, admission and cost, cache, SDK runner, drills, sandbox and browser, gateway, validators and generators, dashboard, evaluations | pure checks, wrappers, front ends or data |

`PROJECT.json` lists every component with its status and the reason where it is
not modelled, and the hazards of the code at their lines.

### 1.3 Behaviours that are hard

* A timeout in Python does not stop a thread. `_invoke_with_timeout` gives up
  on an attempt, which works on next to its own retry, in the same worktree.
* The orchestrator may be killed at any instruction; its agents are processes of
  their own and survive it. A re-run with the same run id resumes from the journal.
* `flock` is polled with a deadline; appends are not atomic against a kill or a
  full disk, replacements are; a checkpoint is written in place and is neither.
* A wave takes hours. The board, the wave number and the receipt chain's tip are
  read before it or during it, and used after it.
* Several run ids share one ledger, and one run id may be used many times.
* Read-then-write without a lock over both: free names in an inbox, card numbers,
  the moment of a call, the status of a ticket that people edit meanwhile.
* A decision that people and files take part in: a halt, an override, an answer may
  come at any point of the handler that looks for it.

## 2. Modules and their correspondence to the code

| Module | Models | Used by |
|---|---|---|
| `AtomicLog` | what callers expect of a shared file: each call's line appears at one instant and at most once, behind nothing but the bytes of appends that were cut short | abstract specification of `FileLock` |
| `ResumableWave` | what whoever re-runs a wave expects: a run owes an outcome for exactly the tickets without a recorded success, tries each a limited number of times, records at most one outcome for each, and reports what is recorded unless the record of one stumbled | abstract specification of `Dispatch` |
| `ChainedLedger` | what readers of the wave ledger expect: one entry per start, each added at one instant, chained, with a number that is new for its run id and leaves no gap | abstract specification of `WaveEvidence` |
| `AtomicPlanning` | what callers of the planner expect: a wave is dispatched at one instant, as if planned from the board of that instant | abstract specification of `WavePlanner` |
| `FileLock` | `filelock.py` | `MCFileLock`, `FileLock_proofs` |
| `Dispatch` | `orchestrator.py`, `claude_invoker.py`, `run_workspace.py` composed, with kills and agents | `Dispatch_proofs` |
| `WaveEvidence` | `run_wave` from the end of the dispatch on: evidence, receipt, ledger entry; the gates as properties | `WaveEvidence_proofs` |
| `WaveTrail` | `run_wave` seen from its readers: checkpoints, stamps, events, completions | extended by `Heartbeat` |
| `Heartbeat` | a tick of `loop_controller.py`, the break glass and the scheduler, composed with the waves of `WaveTrail` | `Heartbeat_proofs` |
| `WavePlanner` | `plan_wave` over the life of a board | `MCWavePlanner`, `WavePlanner_proofs` |
| `Guardrail` | `guardrail_dispatch.py` | `MCGuardrail`, `Guardrail_proofs` |
| `StallLoop` | `run_inner_loop`, the pause cards and their answers | `StallLoop_proofs` |
| `Quota` | `reserve` of `tools/a2a/quota.py` | `Endpoint_proofs` |
| `GoalInbox` | the requests that change something: goals, run intents, gate approvals | `MCGoalInbox`, `Endpoint_proofs` |

`Endpoint_proofs` extends both `Quota` and `GoalInbox`, the two ends of one call from outside
(`endpoint.py:416` charges the quota, `:478` hands the goal over); names that the two would
share begin with a `Q` in `Quota`.

Four modules are abstract specifications, and the modules of the code are shown to implement
them, by TLC on the run's instance and by TLAPS for every instance:

| Detailed | Abstract | What the mapping hides |
|---|---|---|
| `FileLock` | `AtomicLog` | the lock, the polling, the temporary file; a call's outcome is read off `pc` |
| `Dispatch` | `ResumableWave` | threads, worktrees, agents, late answers; `last` is the journal's last word on a ticket, `owed` the tickets a running process has not resumed or recorded, `tries` the attempt counters, `report` the verdicts of a finished wave |
| `WaveEvidence` | `ChainedLedger` | evidence, receipts, lock and cut lines; `broken` is a malformed line inside the ledger, `returned` the start whose `run_wave` has returned |
| `WavePlanner` | `AtomicPlanning` | snapshots, half-made plans, refusals and `--occupied-zone`; `held` are the marked and the container tickets, `working` the tickets of each dispatched wave |

`run_wave` is one function of several hundred lines with several kinds of readers;
`WaveEvidence` and `WaveTrail` are two projections of it. Each leaves out what the
other has, and no write of the one is read by the readers of the other but the
ledger, which both keep. The tickets' work inside a wave, one step in both, is
`Dispatch`; the guardrails of a ticket, another step, are `Guardrail`.

The `map` of `PROJECT.json` gives the lines of every definition. Definitions
whose comment begins with "mutant:" are not part of any specification: each is a
plausible bug in the action it stands before, used to show that a property can
fail.

### FileLock

One file, a fixed set of calls on it, each made by its own thread or process.
`pc` is where a call is: `idle` → `polling` (the `while True` of `exclusive_lock`)
→ `locked` → the body → `unlock` (the `finally` block) → what it returned. `holder`
is the kernel's flock. `lines` and `partial` are the file: complete lines, and bytes
after the last newline; a line is the set of calls whose bytes it holds, so a
line of two calls is two records glued together. `tmp` is the temporary file of
`atomic_write_text`. `Die` is a kill: the kernel drops the flock, the temporary file
stays. A write may raise before the line is there, inside it, or behind it (`os.fsync`,
close): `AppendTail` returns `ok` or `error`. "peek" is the journal's and the
ledger's readers, which take no lock.

### Dispatch

`unit[t]` is the pool thread of a ticket, `inv[t][a]` the thread of attempt `a`,
`tree[t]` the worktree (`absent`, `clean`, `dirty`), `built[t]` whether it has
ignored files. `StartWave` reads the journal and queues what has not succeeded;
`Timeout` is `_invoke_with_timeout` giving up: an attempt not yet begun is
cancelled, any other goes on. `Conclude` is the end of one turn of the loop in
`_run_unit`: another attempt, or the record. `RecordFails` leaves nothing, part or all of
the line in the journal, and the wave raises. `Check` → `Remove` → `ListIgnored`
→ `RemoveForced` are the separate git commands of `remove_git_worktree`, which
other threads and the agents (`Edit`, `Commit`, `Build`) interleave with. `Crash` kills
the orchestrator and lets any subset of its agents live on as `orphan`. `Exit` is the
interpreter joining its threads. The retry backoff, the prompt and token counting
are left out. `abandoned` and `lost` are history variables that properties read and no
guard does.

### WaveEvidence

The process of each run id goes `wave` → `evidence` → `tip` → `attested` →
`locked` → `recorded`, the order of the writes in `run_wave`; at each it may
die or fail. A start of the orchestrator is numbered, and the number stands for
`created_at` and for every hash that the start writes: two hashes are equal
exactly when the bytes were written by the same start. A ledger entry's `prev` is the
position of the entry it is chained to. `_chain_tip` reads the receipts without a lock
(`ReadTip`, then `Attest` as a later step); `append_wave_ledger_entry` reads
the tip and appends under the lock. `torn` tells that the ledger ends in a cut line,
or has one inside: the next entry is then glued to it and neither is readable.
The evidence of a wave, several files in the code, is one step here; a
failure inside it leaves evidence of no start.

### WaveTrail and Heartbeat

The process of each run id goes `open` (first checkpoint) → `stamp` → `work` → a loop
over the tickets for `run_start` and `run_end` → a loop for the completions → `close`
(second checkpoint) → `record`. `left` is what a loop has not come to. A checkpoint
holds the states that differ from what the earlier waves of its run id leave, `cp` by wave
number, which all run ids share; `Half` is what a kill inside `write_text` leaves, and
`CheckpointRaises` is a later wave of the run id that cannot parse it. An append is whole
or, with a kill inside, half: the next record is then glued to it and readers drop the
two (`cut`, `glued`). The ledger entry is such an append too: `run_wave` returns although
its entry is glued to the half line of a wave that was killed (`swallowed`). `WaveStep` and `Launch` of `Heartbeat` are those steps next to a
tick: `Ask` (is there work), `ReadRails` (override, quiet hours, budgets), `Route` (the runs
in flight, from the store as it is by then), one after the other, with everything else in
between. The budgets and the quiet hours hold or do not hold: a choice.

### Guardrail

A call goes `run` → `output` → `look` (reads the status without the lock) → `retry` or
`halt` (an append under the lock) → `run` again or `escalate` → `replace`, which
are the read and the write of one locked update. Agents and people set the status
without the lock at any point (`RunAgent`, `Edit`). Whether an output passes
is a choice. A look may fail to read the ticket, and then sees no halt (`LookMisses`).
`late`, `extra` and `blind` are history: an edit while a call was replacing the
text, the agent runs since the ticket was blocked, and the looks since then that
could not read it.

### StallLoop

A loop judges waves (`GoodWave`, `BadWave`, `Satisfied`), replans, announces, and at last
chooses a number for its card and writes it, in two steps. Cards are numbered in the
order of writing; `cards` is the directory by file number, so that a file that is
overwritten holds a later card. Half a card takes a number and is passed over
by who looks for a card (`halves`, `Readable`); half an event swallows the next one of the
store, which other processes write to as well (`cut`, `swallowed`, `OtherEmits`).
`NameBefore` compares the file names as `sorted` does,
digit by digit, in base `Base`: the code's base is ten, and the run uses three, so that
the change from one digit to two lies within the cards it has. `Answer` is the Founder's
`resume:` line; nothing removes one, so that the first may be an old one.

### Quota

`Call` takes the moment, `Lock` the lock and the text, `Grant` or `Refuse` replaces
the file of all principals. `GiveUp` is the lock's timeout. `Tick` is the clock, which cannot
pass a waiting caller's patience: the poll's deadline. A stamp carries a number
besides its moment, since two calls of one moment are two entries of the list.

### GoalInbox

A request probes a name, creates the file, fills it, writes its audit line and
answers; a gate approval is decided and appended instead. `Probe` and `Open` are two
steps: that is where two requests can choose one name, and `raced` records who did.
`Fill` may leave a rest of what another handler put in the same file. `Fail` is an error of
the file system at each of the writes, `Kill` the end of the control plane or of the intake
with all its handlers; an approval's line may then be half there, and the next one is glued to it
and found by no reader (`cut`, `glued`). Nobody but the caller is told of a request: a retry is another one.

### WavePlanner

Tickets are numbered in the order of `ordering_key`. The planner reads the
board (`Load`), takes or refuses one ticket after another (`Take`, `Refuse`, with
the refusal reasons in the order the code tests them), and dispatches. People and
agents change statuses meanwhile; other waves are at work. The `occupied` zones are
the operator's `--occupied-zone`, which `Load` sets to the zones at work.
The frontmatter's parsing is abstracted to the fields it yields; the model of a
role, the clarify gate and the predecessor gate are marks a ticket has or has not.

## 3. Runs

`tlc -config <cfg> <module>` in this directory repeats any of them. All runs check
safety or liveness over the whole state space of the instance; no state constraint
is used, the bounds are constants that the guards name. `heartbeat` and
`stall_loop` check invariants only and declare their run ids symmetric: no
definition tells one from another.

| Run | Instance | Distinct states (depth) | What it shows |
|---|---|---|---|
| `dispatch` | one ticket, one pool thread, 2 attempts, 3 runs of one run id | 254,480 (42) | the verdict is that of the attempt waited for; a worktree is exclusive and loses nothing unless an attempt was abandoned; what is reported is journalled; the runs of the wave implement `ResumableWave`, so that no success is dispatched again; a wave ends though everything hangs, and the process exits if the timeouts hold |
| `evidence_overlap` | 2 run ids, 4 starts, overlapping and repeated | 120,023 (25) | the ledger implements `ChainedLedger` and is gap-free, a wave that returns left evidence, receipt and entry of one start, and links outlive what overlaps them |
| `filelock` | an updater, a strict updater, an appender, a locked and an unlocked reader | 211,524 (25) | the file implements `AtomicLog`; a locked reader sees whole lines; no poller hangs |
| `planner` | 3 tickets, 2 waves at a time of at most 2 | 144,318 (29) | a wave planned from an old snapshot is one that could be planned at its dispatch (`AtomicPlanning`: dependencies, zones, marks); exclusive zones, priority, no starvation |
| `heartbeat` | one ticket, 2 run ids, 3 starts | 631,256 (41) | the trail of a wave is in order, a recorded wave can be rebuilt, an override holds the ticks that begin under it |
| `guardrail` | 2 calls, one retry, a chain of 3 roles | 845,004 (27) | feedback is kept, a halt costs one run at most, and one for each look that could not read the ticket, and is not overwritten, calls end |
| `stall_loop` | 2 loops on one anchor ticket, 5 waves, 3 cards, 2 deaths | 2,680,754 (66) | a stuck loop pauses and none pauses early; events agree with replans; cards are kept and the newest is found, unless two loops race for a number |
| `quota` | 2 callers, 2 principals, 2 calls in a window of 3 | 1,070,986 (25) | the quota holds in a window less the patience of a caller; no grant is lost, no call refused without cause |
| `goal_inbox` | a goal of the control plane, one of the intake, 2 gate approvals, one title, one second | 150,722 (21) | what was answered for is in the inbox, audit lines are honest but for an approval glued to half a line, requests end |
| `evidence_gap_per_run` | 2 run ids, 3 starts, one after the other | violated | section 6 |
| `heartbeat_one_wave` | one ticket, 2 run ids, 2 starts | violated | section 6 |
| `stall_parked` | one loop, no replans | violated | section 6 |

Why the bounds are enough:

* `dispatch`. A worktree, its attempts and its orphans belong to one ticket; tickets
  meet only in the pool and in the journal. What they share is proved for any number
  of tickets (section 5). Two attempts are needed for an abandoned attempt to meet
  its retry, and a third run for a run to meet what a killed re-run left.
* `evidence_overlap`. Two run ids are enough for a link from one to the other, and
  four starts for each of them to be repeated around a wave of the other. The
  properties are proved for any number.
* `filelock`. Each kind of call occurs, and for the kind that can lose an update
  there are two; the refinement is proved for any set of calls.
* `planner`. Three tickets are enough for two to share a zone, for two to wait for a third,
  and to exceed the size of a wave. The fields of each are one of three frontmatters
  (`MCFields`), so that a shared zone, a dependency, one that is missing, a container
  and a deferred ticket all occur. Two planners at the same time are excluded (section 7).
* `heartbeat`. The second ticket of a wave only repeats the loop of the first; the
  theorems cover any number. Two run ids, one of them used twice, is what it takes
  for a checkpoint to be overtaken by another run id's wave number.
* `guardrail`. Two calls contend for the ticket, and a third would wait behind them.
  A chain of three roles has an author below, in the middle and at the top.
* `stall_loop`. Two loops race for a card. Three cards in base three go from one digit to two,
  as the eleventh card does in the code's base ten. Threshold 1 and budget 1 reach each of stall,
  replan and pause inside five waves. Two deaths, of a loop or another writer of the store, are the
  least at which half an event swallows one and the store ends in half a line again.
* `quota`. A limit of two is where the order of two grants matters, a window of three and a
  patience of one are the smallest that differ from each other and from zero;
  five units of time let a window pass. Two principals share the file.
* `goal_inbox`. Two requests, of two processes, want one name, and the second probe of either must look
  further; two approvals are the least at which the half line of one swallows the other. More of
  either are beyond the time of a run that checks liveness; both invariants are proved for any number.

`CHECK_DEADLOCK FALSE` is in every configuration since each system may really stop: calls
return, handlers answer, and the starts, waves and times of an instance are used up.

## 4. Fairness

Only liveness needs it; `WaveEvidence`, `Heartbeat`, `StallLoop` and `Quota` have
none and claim none.

* `FileLock!FairSpec`: a poller is scheduled again (`WF(Poll)`). Nothing is assumed of the
  holder, which may die, hang or write for ever: the deadline of `exclusive_lock` is
  what ends the wait.
* `Dispatch!HungSpec`: the orchestrator's own threads run, `WF(FinishWave)` and
  `WF(Unit(t))`. Nothing is assumed of agents, of git or of attempts: `WaveEnds`
  holds although all of them hang. `ProcessExits` is conditional: it
  assumes, as part of the property, that each attempt comes to an end, which the
  timeouts of the agent, the verification and the git commands give
  (`claude_invoker.py:237`, `:318`), since the interpreter joins its threads.
* `WavePlanner!FairSpec`: each wave goes on (`WF`), people unblock what is blocked (`WF(Edit)`),
  and an agent that gets its ticket again and again completes it (`SF(Completes)`). Strong
  fairness is needed: a ticket is at work and not at work in turns. Without the last a ticket
  that always fails is never done, which is no fault of the planner.
* `Guardrail!FairSpec`: a call goes on (`WF(Work(c))`): an agent's answer is replayed, locks
  have deadlines.
* `GoalInbox!FairSpec`: a handler that has begun goes on (`WF(Work(r))`): it waits only for
  the ledger's flock, held for one line.

A kill is never assumed to happen or not to happen.

## 5. Proofs

Eight modules named `<Module>_proofs` hold the theorems, checked with `tlapm`; each
holds for every value of the constants that the module's assumptions admit. Every safety property
of a passing run, refinements included, is proved. The assumptions are on constants only (a
positive number of attempts, a finite set of run ids, an org model in which no role reports to itself, ...) and TLC evaluates them in the runs.

Every argument has one shape: a strengthening that is inductive, one lemma or step
per action, and the property as one of its conjuncts or a consequence.

* `FileLock_proofs`. `TypeInv`; `MutexInv`: the flock is held by the call in the critical
  section; `CommitInv`: where the bytes of a call are, by where the call is, which is needed because
  "the text read is still the file's" only helps if an append cut short is known to have put nothing
  else there. `FullInv` is their conjunction, and gives `Refinement`: `Spec` implements
  `AtomicLog!Spec` with `lines` and `partial` as they are and the outcome of a call read off `pc`.
* `Dispatch_proofs`. `JournalInv` says that tickets still being worked on have no success
  in the journal, without which neither `OkRecordedOnce` nor `NoRedispatch` (an action property that only
  the proofs state) can be shown. `OutcomeInv` ties a unit that is
  through to the journal's last word; a record that raised breaks the run (`broken` of `ResumableWave`), whether
  its line is there or not, and a broken run does not finish. `WorktreeInv` is about the tickets never abandoned: one live attempt
  at most, it is the one waited for, its worktree is there while its agent works and not
  dirty once the check found it clean. Hence the forced removal, two git commands after
  that check, destroys nothing unless an attempt was given up.
  `WaveIsResumable` is the refinement of `ResumableWave`. It rests on three of the invariants: `OutcomeInv`
  for `Finish` (the report is what is recorded), `VerdictJustified` for `Record` (a failure only after the
  last attempt), and `RunningInv` (tickets are worked on only while the process runs); and on what an append does to
  the last words (`AppendIsLast`, `OtherLastKept`, `OwnLast`). A record that raises
  is `Stumble`, kills and failed waves are `Stop`.
* `WaveEvidence_proofs`. `LedgerInv`: under the lock the tip read is the tip; the number of each
  active wave is at most one beyond the last recorded and beyond those its run id has recorded. It
  explains why a number chosen hours before it is recorded leaves no gap. `RecordInv` follows a
  wave from its evidence to its entry. `LinkInv`: a link names a start of another run id
  whose receipt is of that start or a later one, since receipts are overwritten only by later starts.
  `LedgerRefinement` shows that a line, however it gets there, is an entry of `ChainedLedger`
  (`LineIsEntry`), which needs `EntriesOfStarts`: no start has two entries, and an active one none.
* `WavePlanner_proofs`. `PlannerInv`: a planner regards as taken every zone at work
  and each it gave out, and what its snapshot saw done is still done.
  `PlanFollowsPriority` needs the order of the passes: what has been seen is a prefix. `PlanFree` (no plan
  holds a marked or a container ticket) is what `PlanningIsAtomic` needs besides: a dispatch of a plan
  made from an older board is a `Start` on the board of now, since zones are only given back
  and dependencies only get done in between.
* `Heartbeat_proofs`. `TrailInv` = types, `Order` (where each loop of `run_wave` is and what it
  has written), `StampedIsCovered`, `Recovery` (numbers are fresh, and a wave about to be recorded
  can be rebuilt already), and `HalfIsInterrupted`: half a line of the
  ledger was left by a wave that was interrupted, so that an entry is lost only behind one. It is an invariant of `WaveTrail!Spec`; `HeartbeatKeepsTrail`
  shows that `HSpec` implements `Spec`, tick, scheduler and break glass only taking steps a
  wave's trail allows, and carries each theorem over. `HeldInv` is for the override.
* `Guardrail_proofs`. `TextIsCurrent` (what a call has read under the lock is the
  ticket's text, its status apart if somebody edited without the lock), `RunsAreSeen` (a call
  about to run its agent has run it at the halted ticket at most as often as it looked there blindly; afterwards, once more), `ReadersAreSound`.
* `Endpoint_proofs`. `QuotaInv`: a holder took the lock within its patience; a grant is in
  the file, or a window had passed it when the lock was taken. The bound is a window less the patience: a
  caller that waited is stamped with an earlier moment than one that was granted meanwhile.
  `InboxInv`: those who share a name know no third, all of them are in
  `raced`, and everybody else's text is under their name from `Fill` on. For the approvals, `LedgerInv`: a half
  line is of a request that failed or was killed, and an approval that was written is found or behind one.
* `StallLoop_proofs`. `StallInv` accounts for the waves of a loop: its counter, with what the plans already given up
  have cost, lies between the waves without progress and their excess over those with it
  (`CountersMatch`). The upper bound makes no pause early (`PauseEarned`), the lower bound none missing
  (`LoopPauses`). For the cards it says which numbers are taken (`NumbersUsed`) and, unless two loops
  have raced, that one loop at a time has chosen a number and it is the next one (`NumberIsNext`); then
  the card last written whole has the greatest readable number (`LatestIsLast`). The greatest, which exists by well-founded induction on the naturals (`HasGreatest`), is
  the one found whatever the base. `StallInv` was checked on the run's instance as an invariant
  before it was proved.

Only model-checked: what needs fairness (`WaveEnds`, `ProcessExits`, `PollingEnds`, `EveryTicketIsDone`, `CallsEnd`,
`RequestsEnd`), which is out of the proof system's reach, as `ENABLED` is.

## 6. What disagrees with the repository's own statements

Three runs expect a violation; each states what the repository says.

* `evidence_gap_per_run`. `check_wave_reconciliation.py:139` wants the waves of each run id to be
  1..K. `next_wave_number` (`orchestrator.py:473`) takes the maximum over the whole
  ledger: the second run id begins at 2 and an honest history is refused. What the code does
  promise, 1..K over the ledger, is proved (`NoWaveIsSkipped`).
* `heartbeat_one_wave`. `flow_router.py:101` withholds a dispatch because a wave is in flight,
  at most one. `run_wave` writes `run_start` and `run_end` one behind the other after the
  tickets have been worked on, so that no wave is in flight while its agents work, and the
  next tick dispatches another.
* `stall_parked`. `tests/test_interrupt_roundtrip.py:236` says an unanswered gate is never
  dispatched. `parse_resume_marker` (`interrupt_roundtrip.py:38`) takes the first `resume:`
  line and nothing removes one: a ticket interrupted again is resumed with the old answer.

Met while reading, and not stated as runs:

* More than `max_parallel` agents work at once after timeouts, since a timeout frees
  the pool thread and not the agent (`orchestrator.py:366-374`; `tests/test_orchestrator.py:72-90`
  has no timeout in it).
* The forced removal can destroy work written after the check (`run_workspace.py:186-195`;
  `tests/test_run_workspace.py:374` says it is never discarded). `LossNeedsAbandonment` shows the only way there.
* A receipt is one file per run id (`wave_runner.py:744`): a second wave of a run id overwrites the
  first's, and the entry of the first has no receipt to match. A link to it dangles.
* `README.md:73` promises WIP = 1 per role; `plan_wave` looks at zones only (`wave_planner.py:303`).
  `README.md:75` has every attempt journalled; there is one entry per ticket and run.
* An escalation names the author as the reviewer at the top of the org
  (`guardrail_dispatch.py:56-59`), which `board_lint.py:232` refuses. Only `blocked` counts as
  halted (`guardrail_dispatch.py:113`), so that an interrupted ticket is overwritten. The note of a retry says
  "Re-dispatching" (`:80`), and `run_wave` replays the one output it has (`wave_runner.py:544`).
* The self-review rule of the graph state is asked only when an update names a reviewer
  (`dgox/state.py:361`). The metrics feeder appends a row per invocation, not per day
  (`metrics_history_feeder.py:131`). `replay_qa.py:33` orders by `created_at`, which
  two processes may take in one order and append in the other.
* `fanout.py:120` takes free ids by a scan without a lock. `tools/control_plane/app.py:419` looks for
  a free name before it writes: `raced` in `GoalInbox`. A browser command whose caller timed out
  (`playwright_backend.py:90`) stays in the queue and is executed later.

## 7. Assumptions and limits; what is not modelled

Assumptions the models make of their surroundings:

* Starts of the orchestrator have distinct `created_at`, and one process works on a run id at a time.
* The operator passes `--wave` when the ledger cannot be parsed, names the zones at
  work with `--occupied-zone`, and does not plan two waves at the same moment.
* Nobody takes a ticket back from `done`, and a board is read at one instant.
* A kill loses nothing that was written: no power loss, so that `fsync` makes no difference. The
  temporary file of a killed writer is touched by nobody. `flock` is the kernel's.
* The clock of `Quota` does not go back, and its lock timeout is 30 s in a
  window of 3600 s. A quota file that does not parse is read as empty by the code; nothing
  in the model corrupts it.
* A paused process does not take a lock after its deadline (`exclusive_lock` tries `flock` before
  it looks at the clock, and `quota.py:127` takes the moment before the deadline begins): `Tick` of `Quota` waits for it.
* No caller of `run_inner_loop` goes on with its `LoopState` after an exception: in the
  repository none catches one, and an exception is a death in `StallLoop`.
* The half lines that other writers leave in the event store are modelled where an event is counted
  (`StallLoop`), not in `WaveTrail`. A half line ends between two characters: one that ends inside
  one makes the readers of that file raise until it is repaired, and they report nothing.
* Budgets, quiet hours, the verdict on an output, the answer of an agent and the screening of a submission
  are choices: the properties hold whichever way they go.

Abstractions that matter: texts are the sets of calls that wrote them; hashes are the
number of the start that wrote the bytes; the several files of a wave's evidence are one.

Not modelled, and why (each has its entry under `components` in `PROJECT.json`): the
graph state and the board mirror are behind a flag that is off and no wave depends on them;
fan-out is one command run by hand; admission, cost, roles, permissions and the gateway are pure
functions or single calls; the result cache has no caller; the SDK runner is inert; sandbox, bridges,
telemetry and front ends are I/O; drills, generators, validators and evaluations read, decide and
print. The map of `PROJECT.json` covers about 6% of the 42,907 lines of the
implementation: most of the rest are those, and have no state whose steps could be
interleaved, crashed or retried. A larger share would be had by transcribing checks of
formats, which says nothing that their tests do not.

## 8. Plan

Done: file locking, dispatch with its worktrees, evidence and planner, each with an abstract specification it
is proved to implement; the trail of a wave and the heartbeat on top of it; guardrails; the
stall loop; the quota; the inboxes; proofs of every safety property the passing runs check.

Left, in the order of what it would add:

1. Abstract specifications for the parts that have none: a ticket whose calls halt and
   escalate at one instant (`Guardrail`), a stall counter that is a function of the waves alone (`StallLoop`), a sliding
   window of grants (`Quota`), with refinement proofs.
2. The ticket coverage of `check_wave_reconciliation.py`, as a property over
   `WaveEvidence` and `WaveTrail` together.
3. The streak of clean days behind a promotion, with the metrics feeder that writes it.
4. Graph state and board mirror, should their flag be turned on; fan-out, should it be called
   by the orchestrator; the command queue of the browser worker.
