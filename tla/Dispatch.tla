------------------------------- MODULE Dispatch -------------------------------
(***************************************************************************)
(* scripts/orchestrator.py dispatching one wave: the journal a re-run with *)
(* the same run id resumes from, the pool of unit threads, the retries and *)
(* the timeout that gives an attempt up without stopping it; and, inside   *)
(* an attempt, scripts/claude_invoker.py and scripts/run_workspace.py: the *)
(* agent at work in the ticket's git worktree and the worktree's teardown. *)
(*                                                                         *)
(* A worktree is "clean" when all of its work is committed. "built" says   *)
(* that it also holds ignored files. An orphan is an agent whose           *)
(* orchestrator process was killed.                                        *)
(***************************************************************************)
EXTENDS Naturals, Sequences, FiniteSets

CONSTANTS
  N,            \* the wave's tickets are 1 .. N, in plan order
  MaxParallel,  \* OrchestratorConfig.max_parallel
  MaxAttempts,  \* OrchestratorConfig.max_attempts
  MaxRuns       \* bound: dispatches of the wave under one run id

ASSUME DispatchAssumption ==
  /\ N \in Nat \ {0}
  /\ MaxParallel \in Nat \ {0}
  /\ MaxAttempts \in Nat \ {0}
  /\ MaxRuns \in Nat

Tickets  == 1 .. N
Attempts == 1 .. MaxAttempts

VARIABLES
  phase,      \* the orchestrator process: "idle", "running", "done" or "failed"
  runs,       \* how often it was started
  unit,       \* where the thread of each ticket is
  attempt,    \* its attempt counter
  verdict,    \* the status it will record
  inv,        \* where the invocation of each attempt is
  answer,     \* what the invocation returns or will return
  journal,    \* the dispatch journal
  torn,       \* whether a line of it was cut short
  tree,       \* each ticket's worktree
  built,      \* whether it holds ignored files
  orphan,     \* whether an orphan is at work in it
  abandoned,  \* history: the tickets with an attempt given up while it ran
  lost        \* history: the tickets whose uncommitted work was destroyed

process == <<phase, runs>>
units   == <<unit, attempt, verdict>>
calls   == <<inv, answer>>
log     == <<journal, torn>>
work    == <<tree, built, lost>>
vars == <<process, units, calls, log, work, orphan, abandoned>>

Statuses == {"ok", "failed", "timeout"}
Settled  == {"resumed", "recorded", "raised"}
UnitPCs  == {"none", "queued", "invoking", "recording"} \cup Settled
Live     == {"agent", "check", "remove", "listed", "force"}
Over     == {"none", "cancelled", "returned"}
InvPCs   == {"submitted"} \cup Live \cup Over
Entry    == [ticket : Tickets, status : Statuses]

(* succeeded(): the journal's last entry about the ticket is a success.      *)
LatestIs(t, s) ==
  \E i \in DOMAIN journal :
    /\ journal[i] = [ticket |-> t, status |-> s]
    /\ \A j \in DOMAIN journal : j > i => journal[j].ticket # t

NoInvocations == [t \in Tickets |-> [a \in Attempts |-> "none"]]

Init ==
  /\ phase = "idle" /\ runs = 0
  /\ unit = [t \in Tickets |-> "none"]
  /\ attempt = [t \in Tickets |-> 0]
  /\ verdict = [t \in Tickets |-> "failed"]
  /\ inv = NoInvocations /\ answer = NoInvocations
  /\ journal = << >> /\ torn = FALSE
  /\ tree = [t \in Tickets |-> "absent"]
  /\ built = [t \in Tickets |-> FALSE]
  /\ orphan = [t \in Tickets |-> FALSE]
  /\ abandoned = {} /\ lost = {}

-------------------------------------------------------------------------------
(* dispatch_units                                                            *)

StartAfresh ==   \* mutant: what the journal says is not looked at
  /\ phase = "idle" /\ runs < MaxRuns /\ ~torn
  /\ phase' = "running" /\ runs' = runs + 1
  /\ unit' = [t \in Tickets |-> "queued"]
  /\ verdict' = [t \in Tickets |-> "failed"]
  /\ attempt' = [t \in Tickets |-> 0]
  /\ UNCHANGED <<calls, log, work, orphan, abandoned>>

StartWave ==
  /\ phase = "idle" /\ runs < MaxRuns /\ ~torn
  /\ phase' = "running" /\ runs' = runs + 1
  /\ unit' = [t \in Tickets |-> IF LatestIs(t, "ok") THEN "resumed" ELSE "queued"]
  /\ verdict' = [t \in Tickets |-> IF LatestIs(t, "ok") THEN "ok" ELSE "failed"]
  /\ attempt' = [t \in Tickets |-> 0]
  /\ UNCHANGED <<calls, log, work, orphan, abandoned>>

(* entries() raises on a line that does not parse.                           *)
RefuseCorruptJournal ==
  /\ phase = "idle" /\ runs < MaxRuns /\ torn
  /\ phase' = "failed" /\ runs' = runs + 1
  /\ UNCHANGED <<units, calls, log, work, orphan, abandoned>>

(* The with block joins every unit; then a unit that raised fails the wave.  *)
FinishWave ==
  /\ phase = "running"
  /\ \A t \in Tickets : unit[t] \in Settled
  /\ phase' = IF \E t \in Tickets : unit[t] = "raised" THEN "failed" ELSE "done"
  /\ UNCHANGED <<runs, units, calls, log, work, orphan, abandoned>>

(* The interpreter joins the threads of the abandoned attempts on its way out. *)
Exit ==
  /\ phase \in {"done", "failed"}
  /\ \A t \in Tickets, a \in Attempts : inv[t][a] \in Over
  /\ phase' = "idle"
  /\ unit' = [t \in Tickets |-> "none"]
  /\ inv' = NoInvocations /\ answer' = NoInvocations
  /\ UNCHANGED <<runs, attempt, verdict, log, work, orphan, abandoned>>

(* The process is killed. An agent is a process of its own and may survive;
   a line of the journal that was being written may be cut short. (A line that
   is whole when the kill comes is a Record before it.)                      *)
AtWork(t) == \E a \in Attempts : inv[t][a] = "agent"

Crash ==
  /\ phase # "idle"
  /\ phase' = "idle"
  /\ unit' = [t \in Tickets |-> "none"]
  /\ inv' = NoInvocations /\ answer' = NoInvocations
  /\ \E survivors \in SUBSET {t \in Tickets : AtWork(t)} :
       /\ orphan' = [t \in Tickets |-> orphan[t] \/ t \in survivors]
       /\ abandoned' = abandoned \cup survivors
  /\ torn' \in {torn, torn \/ \E t \in Tickets : unit[t] = "recording"}
  /\ UNCHANGED <<runs, attempt, verdict, journal, work>>

-------------------------------------------------------------------------------
(* _run_unit: attempts until one succeeds, then one record in the journal.   *)

Submit(t) ==
  /\ attempt' = [attempt EXCEPT ![t] = @ + 1]
  /\ unit' = [unit EXCEPT ![t] = "invoking"]

Free == Cardinality({t \in Tickets : unit[t] \in {"invoking", "recording"}}) < MaxParallel

StartUnit(t) ==
  /\ unit[t] = "queued"
  /\ \A u \in Tickets : u < t => unit[u] # "queued"
  /\ Free
  /\ Submit(t)
  /\ inv' = [inv EXCEPT ![t][1] = "submitted"]
  /\ UNCHANGED <<process, verdict, answer, log, work, orphan, abandoned>>

(* The attempt ended with status s: again, or on to the journal.             *)
Conclude(t, s, calls_) ==
  /\ verdict' = [verdict EXCEPT ![t] = s]
  /\ IF s # "ok" /\ attempt[t] < MaxAttempts
     THEN /\ Submit(t)
          /\ inv' = [calls_ EXCEPT ![t][attempt[t] + 1] = "submitted"]
     ELSE /\ unit' = [unit EXCEPT ![t] = "recording"]
          /\ inv' = calls_
          /\ UNCHANGED attempt

CollectAny(t) ==   \* mutant: the late answer of an earlier attempt is taken
  /\ unit[t] = "invoking"
  /\ \E a \in Attempts :
       /\ inv[t][a] = "returned"
       /\ Conclude(t, IF answer[t][a] = "ok" THEN "ok" ELSE "failed", inv)
  /\ UNCHANGED <<process, answer, log, work, orphan, abandoned>>

CollectEarly(t) ==   \* mutant: the answer is taken before the teardown ends
  /\ unit[t] = "invoking"
  /\ inv[t][attempt[t]] \in {"check", "remove", "listed", "force", "returned"}
  /\ Conclude(t, IF answer[t][attempt[t]] = "ok" THEN "ok" ELSE "failed", inv)
  /\ UNCHANGED <<process, answer, log, work, orphan, abandoned>>

Collect(t) ==
  /\ unit[t] = "invoking"
  /\ inv[t][attempt[t]] = "returned"
  /\ Conclude(t, IF answer[t][attempt[t]] = "ok" THEN "ok" ELSE "failed", inv)
  /\ UNCHANGED <<process, answer, log, work, orphan, abandoned>>

(* future.cancel() stops an attempt whose thread has not begun and no other;
   the pool is shut down without waiting for it.                              *)
TimeoutUnbegun(t) ==   \* mutant: only an attempt that has not begun times out
  /\ unit[t] = "invoking"
  /\ inv[t][attempt[t]] = "submitted"
  /\ Conclude(t, "timeout", [inv EXCEPT ![t][attempt[t]] = "cancelled"])
  /\ UNCHANGED <<process, answer, log, work, orphan, abandoned>>

Timeout(t) ==
  /\ unit[t] = "invoking"
  /\ LET now == inv[t][attempt[t]]
     IN  /\ now # "returned"
         /\ Conclude(t, "timeout",
              IF now = "submitted" THEN [inv EXCEPT ![t][attempt[t]] = "cancelled"] ELSE inv)
         /\ abandoned' = IF now = "submitted" THEN abandoned ELSE abandoned \cup {t}
  /\ UNCHANGED <<process, answer, log, work, orphan>>

Record(t) ==
  /\ unit[t] = "recording"
  /\ journal' = Append(journal, [ticket |-> t, status |-> verdict[t]])
  /\ unit' = [unit EXCEPT ![t] = "recorded"]
  /\ UNCHANGED <<process, attempt, verdict, calls, torn, work, orphan, abandoned>>

(* The journal's lock times out, or the write fails, perhaps half way, or the
   whole line is there when flush, fsync or close fails.                      *)
RecordFailsSilently(t) ==   \* mutant: the error is swallowed
  /\ unit[t] = "recording"
  /\ unit' = [unit EXCEPT ![t] = "recorded"]
  /\ torn' \in {torn, TRUE}
  /\ UNCHANGED <<process, attempt, verdict, calls, journal, work, orphan, abandoned>>

RecordFails(t) ==
  /\ unit[t] = "recording"
  /\ unit' = [unit EXCEPT ![t] = "raised"]
  /\ \/ torn' \in {torn, TRUE} /\ UNCHANGED journal
     \/ journal' = Append(journal, [ticket |-> t, status |-> verdict[t]]) /\ UNCHANGED torn
  /\ UNCHANGED <<process, attempt, verdict, calls, work, orphan, abandoned>>

-------------------------------------------------------------------------------
(* invoke_with_config: attempt a of ticket t, in a thread of its own          *)

GoOn(t, a, there) == inv' = [inv EXCEPT ![t][a] = there]
Answer(t, a, r) == answer' = [answer EXCEPT ![t][a] = r]

(* create_git_worktree reuses the directory when it is there.                 *)
Acquire(t, a) ==
  /\ inv[t][a] = "submitted"
  /\ tree' = [tree EXCEPT ![t] = IF @ = "absent" THEN "clean" ELSE @]
  /\ GoOn(t, a, "agent")
  /\ UNCHANGED <<process, units, answer, log, built, lost, orphan, abandoned>>

(* Not isolated, or the invocation event could not be built: no teardown yet. *)
AcquireFails(t, a) ==
  /\ inv[t][a] = "submitted"
  /\ tree' \in {tree, [tree EXCEPT ![t] = IF @ = "absent" THEN "clean" ELSE @]}
  /\ GoOn(t, a, "returned")
  /\ Answer(t, a, "error")
  /\ UNCHANGED <<process, units, log, built, lost, orphan, abandoned>>

(* run_claude, run_verify and measured_outcome; then the finally block.       *)
AgentEnds(t, a) ==
  /\ inv[t][a] = "agent"
  /\ \E r \in {"ok", "error"} : Answer(t, a, r)
  /\ GoOn(t, a, "check")
  /\ UNCHANGED <<process, units, log, work, orphan, abandoned>>

(* remove_git_worktree: absent, or dirty and kept; else removed.              *)
CheckPresent(t, a) ==   \* mutant: a dirty worktree is removed like any other
  /\ inv[t][a] = "check"
  /\ GoOn(t, a, IF tree[t] # "absent" THEN "remove" ELSE "returned")
  /\ UNCHANGED <<process, units, answer, log, work, orphan, abandoned>>

Check(t, a) ==
  /\ inv[t][a] = "check"
  /\ GoOn(t, a, IF tree[t] = "clean" THEN "remove" ELSE "returned")
  /\ UNCHANGED <<process, units, answer, log, work, orphan, abandoned>>

Remove(t, a) ==
  /\ inv[t][a] = "remove"
  /\ tree[t] = "clean"
  /\ tree' = [tree EXCEPT ![t] = "absent"]
  /\ built' = [built EXCEPT ![t] = FALSE]
  /\ GoOn(t, a, "returned")
  /\ UNCHANGED <<process, units, answer, log, lost, orphan, abandoned>>

(* git refuses: the tree is dirty by now, gone, locked or has submodules.     *)
RemoveRefused(t, a) ==
  /\ inv[t][a] = "remove"
  /\ GoOn(t, a, "listed")
  /\ UNCHANGED <<process, units, answer, log, work, orphan, abandoned>>

ListIgnored(t, a) ==
  /\ inv[t][a] = "listed"
  /\ GoOn(t, a, IF built[t] THEN "force" ELSE "returned")
  /\ UNCHANGED <<process, units, answer, log, work, orphan, abandoned>>

RemoveForced(t, a) ==
  /\ inv[t][a] = "force"
  /\ tree[t] # "absent"
  /\ tree' = [tree EXCEPT ![t] = "absent"]
  /\ built' = [built EXCEPT ![t] = FALSE]
  /\ lost' = IF tree[t] = "dirty" THEN lost \cup {t} ELSE lost
  /\ GoOn(t, a, "returned")
  /\ UNCHANGED <<process, units, answer, log, orphan, abandoned>>

ForceRetried(t, a) ==   \* mutant: the removal is tried until it works
  /\ inv[t][a] = "force"
  /\ GoOn(t, a, "remove")
  /\ UNCHANGED <<process, units, answer, log, work, orphan, abandoned>>

ForceRefused(t, a) ==
  /\ inv[t][a] = "force"
  /\ GoOn(t, a, "returned")
  /\ UNCHANGED <<process, units, answer, log, work, orphan, abandoned>>

(* A git command that hangs raises, and replaces whatever the agent answered. *)
TeardownRaises(t, a) ==
  /\ inv[t][a] \in Live \ {"agent"}
  /\ GoOn(t, a, "returned")
  /\ Answer(t, a, "error")
  /\ UNCHANGED <<process, units, log, work, orphan, abandoned>>

-------------------------------------------------------------------------------
(* The agents: they edit, build and commit in the ticket's worktree.          *)

Edit(t) ==
  /\ AtWork(t) \/ orphan[t]
  /\ tree[t] = "clean"
  /\ tree' = [tree EXCEPT ![t] = "dirty"]
  /\ UNCHANGED <<process, units, calls, log, built, lost, orphan, abandoned>>

Commit(t) ==
  /\ AtWork(t) \/ orphan[t]
  /\ tree[t] = "dirty"
  /\ tree' = [tree EXCEPT ![t] = "clean"]
  /\ UNCHANGED <<process, units, calls, log, built, lost, orphan, abandoned>>

Build(t) ==
  /\ AtWork(t) \/ orphan[t]
  /\ tree[t] # "absent" /\ ~built[t]
  /\ built' = [built EXCEPT ![t] = TRUE]
  /\ UNCHANGED <<process, units, calls, log, tree, lost, orphan, abandoned>>

OrphanEnds(t) ==
  /\ orphan[t]
  /\ orphan' = [orphan EXCEPT ![t] = FALSE]
  /\ UNCHANGED <<process, units, calls, log, work, abandoned>>

-------------------------------------------------------------------------------
Teardown(t, a) ==
  \/ Check(t, a) \/ Remove(t, a) \/ RemoveRefused(t, a) \/ ListIgnored(t, a)
  \/ RemoveForced(t, a) \/ ForceRefused(t, a) \/ TeardownRaises(t, a)

Invocation(t, a) ==
  Acquire(t, a) \/ AcquireFails(t, a) \/ AgentEnds(t, a) \/ Teardown(t, a)

Unit(t) == StartUnit(t) \/ Collect(t) \/ Timeout(t) \/ Record(t) \/ RecordFails(t)

Agent(t) == Edit(t) \/ Commit(t) \/ Build(t) \/ OrphanEnds(t)

Next ==
  \/ StartWave \/ RefuseCorruptJournal \/ FinishWave \/ Exit \/ Crash
  \/ \E t \in Tickets :
       Unit(t) \/ Agent(t) \/ \E a \in Attempts : Invocation(t, a)

Spec == Init /\ [][Next]_vars

(* The orchestrator's own threads keep running. Nothing is assumed of the
   attempts: an agent, or git, may hang for ever.                             *)
FairUnits == WF_vars(FinishWave) /\ \A t \in Tickets : WF_vars(Unit(t))

HungSpec == Spec /\ FairUnits

(* run_claude, run_verify and every git command have a timeout of their own;
   the interpreter exits when its last thread does.                           *)
AttemptsEnd ==
  /\ WF_vars(Exit)
  /\ \A t \in Tickets, a \in Attempts : WF_vars(Invocation(t, a))
-------------------------------------------------------------------------------
TypeOK ==
  /\ phase \in {"idle", "running", "done", "failed"}
  /\ runs \in 0 .. MaxRuns
  /\ unit \in [Tickets -> UnitPCs]
  /\ attempt \in [Tickets -> 0 .. MaxAttempts]
  /\ verdict \in [Tickets -> Statuses]
  /\ inv \in [Tickets -> [Attempts -> InvPCs]]
  /\ answer \in [Tickets -> [Attempts -> {"none", "ok", "error"}]]
  /\ journal \in Seq(Entry)
  /\ torn \in BOOLEAN
  /\ tree \in [Tickets -> {"absent", "clean", "dirty"}]
  /\ built \in [Tickets -> BOOLEAN]
  /\ orphan \in [Tickets -> BOOLEAN]
  /\ abandoned \in SUBSET Tickets
  /\ lost \in SUBSET Tickets

(* A recorded success is final: whatever is killed and re-run, the journal
   says nothing about the ticket after it (succeeded, _run_unit).             *)
OkRecordedOnce ==
  \A i, j \in DOMAIN journal :
    i < j /\ journal[i].status = "ok" => journal[j].ticket # journal[i].ticket

(* No agent is sent out again for a ticket whose success is in the journal
   (dispatch_units skips it in every later run). ImplementsResumableWave
   says this and more.                                                        *)
NoRedispatch ==
  [][\A t \in Tickets : LatestIs(t, "ok") =>
       \A a \in Attempts : inv'[t][a] = "submitted" => inv[t][a] = "submitted"]_vars

(* What a finished wave reports of each ticket is what a later run will read:
   no outcome is reported that is not the journal's last word on the ticket,
   resumed tickets included (dispatch_units, _run_unit).                      *)
OutcomesMatchJournal ==
  phase = "done" => \A t \in Tickets : LatestIs(t, verdict[t])

(* A success is the answer of the attempt that was waited for, torn down and
   returned, never the late answer of one given up; a failure comes after the
   last attempt only (_run_unit).                                             *)
VerdictJustified ==
  \A t \in Tickets : unit[t] \in {"recording", "recorded"} =>
    /\ verdict[t] = "ok" => /\ inv[t][attempt[t]] = "returned"
                            /\ answer[t][attempt[t]] = "ok"
    /\ verdict[t] # "ok" => attempt[t] = MaxAttempts

Users(t) == {a \in Attempts : inv[t][a] \in Live}

(* Where no attempt was given up while it ran (by the timeout, or by a kill
   its agent survived), a worktree has one user at a time and stays where it
   is under a working agent, through failures, retries, kills and re-runs.    *)
IsolatedUnlessAbandoned ==
  \A t \in Tickets \ abandoned :
    /\ Cardinality(Users(t)) <= 1
    /\ AtWork(t) => tree[t] # "absent"

(* The teardown destroys uncommitted work only of such a ticket, although it
   forces the removal after a check made two git commands earlier.            *)
LossNeedsAbandonment == lost \subseteq abandoned

(* However often the wave is killed and run again, its runs behave like those
   of ResumableWave: each works off exactly the tickets without a recorded
   success and reports what is recorded, or nothing once a record has raised,
   which may have been made all the same (dispatch_units, _run_unit,
   succeeded). What a run owes shows only while it is on.                     *)
LastWord(t) ==
  IF \E s \in Statuses : LatestIs(t, s) THEN CHOOSE s \in Statuses : LatestIs(t, s)
  ELSE "none"

Resumable == INSTANCE ResumableWave WITH
  running <- phase = "running",
  last    <- [t \in Tickets |-> LastWord(t)],
  owed    <- {t \in Tickets : phase = "running" /\ unit[t] \notin Settled},
  broken  <- phase = "running" /\ \E t \in Tickets : unit[t] = "raised",
  tries   <- attempt,
  report  <- [t \in Tickets |-> IF phase = "done" THEN verdict[t] ELSE "none"]

ImplementsResumableWave == Resumable!Spec

(* A wave comes to an end even if every agent and every git command hangs
   (_invoke_with_timeout).                                                    *)
WaveEnds == phase = "running" ~> phase # "running"

(* If the agents' and git's own timeouts are in force, the process then exits
   too, late attempts included (ThreadPoolExecutor joins them at exit).       *)
ProcessExits == AttemptsEnd => (phase \in {"done", "failed"} ~> phase = "idle")

===============================================================================
