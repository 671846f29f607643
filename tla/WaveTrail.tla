------------------------------- MODULE WaveTrail -------------------------------
(***************************************************************************)
(* scripts/wave_runner.py run_wave, with scripts/pulse_checkpoint.py and   *)
(* scripts/dispatch_emitter.py: the trail a wave leaves for those who read *)
(* it later. resume_fork rebuilds ticket states from the checkpoints and   *)
(* skips completed tickets, flow_router counts the runs in flight in the   *)
(* event store, the reconciliation gate looks for the run id stamped on a  *)
(* ticket in the wave ledger. Receipts and evidence are in WaveEvidence.   *)
(***************************************************************************)
EXTENDS Naturals, FiniteSets, FiniteSetsExt

CONSTANTS
  N,          \* tickets on the board
  RunIds,     \* the run ids of waves, each used by one process at a time
  MaxStarts,  \* bound: how many times a wave is started
  NoFile, Half, NoStamp

Tickets == 1 .. N
Finals == {"done", "blocked"}
Status == {"todo"} \cup Finals

(* A checkpoint holds the states that changed; "same" is a ticket left out. *)
Delta == [Tickets -> Status \cup {"same"}]

ASSUME WaveTrailAssumption ==
  /\ N \in Nat /\ MaxStarts \in Nat
  /\ NoFile # Half
  /\ {NoFile, Half} \cap Delta = {}
  /\ NoStamp \notin RunIds
  /\ {"store", "ledger"} \cap RunIds = {}

VARIABLES
  pc,          \* where the process of each run id is
  plan,        \* the tickets of its wave
  wave,        \* the number of its wave
  final,       \* what the wave made of each ticket
  left,        \* the tickets a loop of run_wave has not come to
  cp,          \* its checkpoint files, by wave
  stamp,       \* the run id in the frontmatter of each ticket
  records,     \* what can be read in the event store and in completions.jsonl
  ledger,      \* what can be read in the wave ledger
  cut,         \* those of these files that end in half a line
  glued,       \* history: records lost behind half a line
  swallowed,   \* history: <<run id, ticket>> of ledger entries lost so
  starts,      \* how many waves were started
  interrupted  \* history: <<run id, ticket>> of waves that did not reach the end

logs == <<records, cut, glued>>
entries == <<ledger, swallowed>>
files == <<cp, stamp, entries, logs>>
vars == <<pc, plan, wave, final, left, files, starts, interrupted>>

PCs ==
  {"off", "open", "stamp", "work", "start", "end", "complete", "close", "record"}

Kinds == {"run_start", "run_end", "completion"}
Entry == [run : RunIds, wave : Nat, plan : SUBSET Tickets, states : [Tickets -> Status]]

Pristine == [t \in Tickets |-> "todo"]

Init ==
  /\ pc = [r \in RunIds |-> "off"]
  /\ plan = [r \in RunIds |-> {}]
  /\ wave = [r \in RunIds |-> 0]
  /\ final = [r \in RunIds |-> Pristine]
  /\ left = [r \in RunIds |-> {}]
  /\ cp = [r \in RunIds |-> [w \in 1 .. MaxStarts |-> NoFile]]
  /\ stamp = [t \in Tickets |-> NoStamp]
  /\ records = {}
  /\ ledger = {} /\ swallowed = {}
  /\ cut = {}
  /\ starts = 0
  /\ glued = {}
  /\ interrupted = {}

Goto(r, there) == pc' = [pc EXCEPT ![r] = there]

(* run_wave ends before its ledger entry, by an exception or a kill.        *)
Abort(r) ==
  /\ Goto(r, "off")
  /\ interrupted' = interrupted \cup ({r} \X plan[r])
  /\ plan' = [plan EXCEPT ![r] = {}]
  /\ left' = [left EXCEPT ![r] = {}]
  /\ final' = [final EXCEPT ![r] = Pristine]
  /\ wave' = [wave EXCEPT ![r] = 0]

-------------------------------------------------------------------------------
(* orchestrator.main: the plan of a new wave, or of one that died.          *)

NextWaveAgain == Max({e.wave : e \in ledger} \cup {1})   \* mutant: the last number
NextWaveCounted == starts + 1   \* mutant: numbered by attempts, not by the ledger
NextWave == Max({e.wave : e \in ledger} \cup {0}) + 1

Begin(r) ==
  /\ pc[r] = "off"
  /\ starts < MaxStarts
  /\ starts' = starts + 1
  /\ \E S \in (SUBSET Tickets) \ {{}} : plan' = [plan EXCEPT ![r] = S]
  /\ wave' = [wave EXCEPT ![r] = NextWave]
  /\ Goto(r, "open")
  /\ UNCHANGED <<final, left, files, interrupted>>

-------------------------------------------------------------------------------
(* write_wave_checkpoint: what the earlier waves of the run id left, what of *)
(* it changed, and the file, written in place.                              *)

Waves(w) == (1 .. w) \cap (1 .. MaxStarts)
Naming(r, w, t) ==
  {v \in Waves(w) : cp[r][v] \notin {NoFile, Half} /\ cp[r][v][t] # "same"}

(* _reconstruct_from_chain: the last of the waves 1 to w that names t.      *)
StateAt(r, w, t) ==
  IF Naming(r, w, t) = {} THEN "none" ELSE cp[r][Max(Naming(r, w, t))][t]

(* It parses every file that is there.                                      *)
Readable(r, w) == \A v \in Waves(w) : cp[r][v] # Half

DeltaOf(r, states) ==
  [t \in Tickets |-> IF t \in plan[r] /\ StateAt(r, wave[r] - 1, t) # states[t]
                     THEN states[t] ELSE "same"]

WriteCheckpoint(r, states) ==
  /\ Readable(r, wave[r] - 1)
  /\ cp' = [cp EXCEPT ![r][wave[r]] = DeltaOf(r, states)]

OpenCheckpoint(r) ==
  /\ pc[r] = "open"
  /\ WriteCheckpoint(r, Pristine)
  /\ Goto(r, "stamp")
  /\ UNCHANGED <<plan, wave, final, left, stamp, entries, logs, starts, interrupted>>

CheckpointRaises(r) ==
  /\ pc[r] \in {"open", "close"}
  /\ ~Readable(r, wave[r] - 1)
  /\ Abort(r)
  /\ UNCHANGED <<files, starts>>

(* _stamp_wave_run_ids: a ticket that cannot be stamped is passed over.      *)
Stamp(r) ==
  /\ pc[r] = "stamp"
  /\ \E S \in SUBSET plan[r] :
       stamp' = [t \in Tickets |-> IF t \in S THEN r ELSE stamp[t]]
  /\ Goto(r, "work")
  /\ UNCHANGED <<plan, wave, final, left, cp, entries, logs, starts, interrupted>>

(* _collect_results: Dispatch is the module of what happens here.            *)
Work(r) ==
  /\ pc[r] = "work"
  /\ \E f \in [plan[r] -> Finals] :
       final' = [final EXCEPT ![r] = [t \in Tickets |-> IF t \in plan[r] THEN f[t] ELSE "todo"]]
  /\ left' = [left EXCEPT ![r] = plan[r]]
  /\ Goto(r, "start")
  /\ UNCHANGED <<plan, wave, files, starts, interrupted>>

WorkFails(r) ==
  /\ pc[r] = "work"
  /\ Abort(r)
  /\ UNCHANGED <<files, starts>>

-------------------------------------------------------------------------------
(* EventStore.append and _durable_append_jsonl: a line is added whole, but a *)
(* kill inside the write leaves half of it. The next line is then glued to   *)
(* the half, and readers pass over the two.                                  *)

FileOf(kind, r) == IF kind = "completion" THEN r ELSE "store"

AppendRecord(kind, r, t) ==
  /\ IF FileOf(kind, r) \in cut
     THEN glued' = glued \cup {<<kind, r, t>>} /\ UNCHANGED records
     ELSE records' = records \cup {<<kind, r, t>>} /\ UNCHANGED glued
  /\ cut' = cut \ {FileOf(kind, r)}

(* The append each loop of run_wave is about to make, one ticket at a time.  *)
NextRecord(r) ==
  <<CASE pc[r] = "start" -> "run_start" [] pc[r] = "end" -> "run_end"
      [] pc[r] = "complete" -> "completion",
    r, Min(left[r])>>

AtAppend(r) == pc[r] \in {"start", "end", "complete"}

(* emit_wave: run_start, run_end and span of a ticket, then the next ticket. *)
(* The span, which no one counts, belongs to the step that follows it.       *)
EmitStart(r) ==
  /\ pc[r] = "start"
  /\ AppendRecord("run_start", r, Min(left[r]))
  /\ Goto(r, "end")
  /\ UNCHANGED <<plan, wave, final, left, cp, stamp, entries, starts, interrupted>>

(* A loop of run_wave is through with a ticket: the next one, or what follows *)
(* the loop. The guardrails, which follow emit_wave, are in Guardrail.       *)
NextTicket(r, again, after) ==
  LET rest == left[r] \ {Min(left[r])} IN
  /\ left' = [left EXCEPT ![r] = IF rest = {} /\ after = "complete" THEN plan[r] ELSE rest]
  /\ Goto(r, IF rest = {} THEN after ELSE again)

EmitEndIsLast(r) ==   \* mutant: no completions
  /\ pc[r] = "end"
  /\ AppendRecord("run_end", r, Min(left[r]))
  /\ NextTicket(r, "start", "close")
  /\ UNCHANGED <<plan, wave, final, cp, stamp, entries, starts, interrupted>>

EmitEndIfDone(r) ==   \* mutant: a blocked ticket gets no run_end
  /\ pc[r] = "end"
  /\ IF final[r][Min(left[r])] = "done"
     THEN AppendRecord("run_end", r, Min(left[r])) ELSE UNCHANGED logs
  /\ NextTicket(r, "start", "complete")
  /\ UNCHANGED <<plan, wave, final, cp, stamp, entries, starts, interrupted>>

EmitEnd(r) ==
  /\ pc[r] = "end"
  /\ AppendRecord("run_end", r, Min(left[r]))
  /\ NextTicket(r, "start", "complete")
  /\ UNCHANGED <<plan, wave, final, cp, stamp, entries, starts, interrupted>>

(* append_ticket_completion for every ticket, whatever became of it.         *)
Complete(r) ==
  /\ pc[r] = "complete"
  /\ AppendRecord("completion", r, Min(left[r]))
  /\ NextTicket(r, "complete", "close")
  /\ UNCHANGED <<plan, wave, final, cp, stamp, entries, starts, interrupted>>

(* The second checkpoint of the wave replaces the first.                     *)
CloseCheckpoint(r) ==
  /\ pc[r] = "close"
  /\ WriteCheckpoint(r, final[r])
  /\ Goto(r, "record")
  /\ UNCHANGED <<plan, wave, final, left, stamp, entries, logs, starts, interrupted>>

(* append_wave_ledger_entry, under the ledger's lock: recorded_waves finds a  *)
(* cut line and raises, and the operator is taken to pass the same number.   *)
EntryOf(r) == [run |-> r, wave |-> wave[r], plan |-> plan[r], states |-> final[r]]

AddEntryOfDone(r) ==   \* mutant: an entry for what was done only
  /\ IF "ledger" \in cut
     THEN swallowed' = swallowed \cup ({r} \X plan[r]) /\ UNCHANGED ledger
     ELSE /\ ledger' = ledger \cup
               {[EntryOf(r) EXCEPT !.plan = {t \in @ : final[r][t] = "done"}]}
          /\ UNCHANGED swallowed
  /\ cut' = cut \ {"ledger"}

AddEntry(r) ==
  /\ IF "ledger" \in cut
     THEN swallowed' = swallowed \cup ({r} \X plan[r]) /\ UNCHANGED ledger
     ELSE ledger' = ledger \cup {EntryOf(r)} /\ UNCHANGED swallowed
  /\ cut' = cut \ {"ledger"}

(* run_wave returns, whether its entry can be read or not.                   *)
Record(r) ==
  /\ pc[r] = "record"
  /\ AddEntry(r)
  /\ Goto(r, "off")
  /\ plan' = [plan EXCEPT ![r] = {}]
  /\ final' = [final EXCEPT ![r] = Pristine]
  /\ wave' = [wave EXCEPT ![r] = 0]
  /\ UNCHANGED <<left, cp, stamp, records, glued, starts, interrupted>>

-------------------------------------------------------------------------------
(* A kill, or a write that raises: between two writes, inside an append, or  *)
(* inside the write_text of a checkpoint, which truncates the file first.    *)
Killed(r) ==
  /\ pc[r] # "off"
  /\ UNCHANGED starts
  /\ Abort(r)

Die(r) == Killed(r) /\ UNCHANGED files

DieAppending(r) ==
  /\ AtAppend(r) /\ Killed(r)
  /\ cut' = cut \cup {FileOf(NextRecord(r)[1], r)}
  /\ UNCHANGED <<cp, stamp, entries, records, glued>>

(* None of the entry (Die), a part of it or all of it is in the ledger.      *)
DieRecording(r) ==
  /\ pc[r] = "record" /\ Killed(r)
  /\ \/ cut' = cut \cup {"ledger"} /\ UNCHANGED entries
     \/ AddEntry(r)
  /\ UNCHANGED <<cp, stamp, records, glued>>

DieInCheckpoint(r) ==
  /\ pc[r] \in {"open", "close"} /\ Readable(r, wave[r] - 1) /\ Killed(r)
  /\ cp' = [cp EXCEPT ![r][wave[r]] = Half]
  /\ UNCHANGED <<stamp, entries, logs>>

Step(r) ==
  \/ OpenCheckpoint(r) \/ CheckpointRaises(r) \/ Stamp(r) \/ Work(r) \/ WorkFails(r)
  \/ EmitStart(r) \/ EmitEnd(r) \/ Complete(r)
  \/ CloseCheckpoint(r) \/ Record(r)

Death(r) == Die(r) \/ DieAppending(r) \/ DieRecording(r) \/ DieInCheckpoint(r)

(* Another writer of the event store (break_glass, the gates) adds a line,    *)
(* which is whole, or is glued to the half line before it.                   *)
AppendOther ==
  /\ cut' = cut \ {"store"}
  /\ UNCHANGED <<pc, plan, wave, final, left, cp, stamp, entries, records, glued,
                 starts, interrupted>>

Next ==
  \/ AppendOther
  \/ \E r \in RunIds : Begin(r) \/ Step(r) \/ Death(r)

Spec == Init /\ [][Next]_vars

-------------------------------------------------------------------------------
TypeOK ==
  /\ pc \in [RunIds -> PCs]
  /\ plan \in [RunIds -> SUBSET Tickets]
  /\ wave \in [RunIds -> 0 .. MaxStarts]
  /\ final \in [RunIds -> [Tickets -> Status]]
  /\ left \in [RunIds -> SUBSET Tickets]
  /\ cp \in [RunIds -> [1 .. MaxStarts -> Delta \cup {NoFile, Half}]]
  /\ stamp \in [Tickets -> RunIds \cup {NoStamp}]
  /\ records \in SUBSET (Kinds \X RunIds \X Tickets)
  /\ ledger \in SUBSET Entry
  /\ cut \in SUBSET (RunIds \cup {"store", "ledger"})
  /\ glued \in SUBSET (Kinds \X RunIds \X Tickets)
  /\ swallowed \in SUBSET (RunIds \X Tickets)
  /\ starts \in 0 .. MaxStarts
  /\ interrupted \in SUBSET (RunIds \X Tickets)

(* Once a wave is in the ledger, fork_run rebuilds from the checkpoints of   *)
(* its run id exactly the states the wave ended with, whatever waves of any  *)
(* run id run, die half-way through a file or are numbered after it.         *)
RecordedStatesRecoverable ==
  \A e \in ledger :
    /\ Readable(e.run, e.wave)
    /\ \A t \in e.plan : StateAt(e.run, e.wave, t) = e.states[t]

Written(kind, r, t) == <<kind, r, t>> \in records \cup glued

(* Each record of a ticket implies the earlier ones, across kills and        *)
(* restarts: a final state in a checkpoint has its completion, a completion  *)
(* its run_end, a run_end its run_start, and none of them is missing but by  *)
(* having been glued to half a line.                                         *)
TrailInOrder ==
  \A r \in RunIds, t \in Tickets :
    /\ (\E w \in 1 .. MaxStarts : cp[r][w] \in Delta /\ cp[r][w][t] \in Finals)
         => Written("completion", r, t)
    /\ Written("completion", r, t) => Written("run_end", r, t)
    /\ Written("run_end", r, t) => Written("run_start", r, t)

(* Half a checkpoint is overwritten when its run id is started again, since  *)
(* the wave keeps its number; it stays, and stops every later wave of the    *)
(* run id, only if another run id has recorded that number meanwhile.        *)
HalfCheckpointOvertaken ==
  \A r \in RunIds, w \in 1 .. MaxStarts :
    cp[r][w] = Half /\ w < NextWave => \E e \in ledger : e.wave >= w /\ e.run # r

(* A ticket stamped with a run id is covered by a ledger entry of the run id *)
(* as the reconciliation gate wants, unless its wave is still at work, was   *)
(* interrupted, or returned with its entry glued to half a line; and half a  *)
(* line is what an interrupted wave left.                                    *)
StampedIsCovered ==
  /\ \A t \in Tickets : LET r == stamp[t] IN r # NoStamp =>
       \/ \E e \in ledger : e.run = r /\ t \in e.plan
       \/ pc[r] # "off" /\ t \in plan[r]
       \/ <<r, t>> \in interrupted \cup swallowed
  /\ swallowed # {} => interrupted # {}

(* What flow_router counts as in flight is a ticket whose events are being   *)
(* written, or one whose process stopped between the two or lost the second: *)
(* a wave whose tickets are at work is not among them.                       *)
InFlight ==
  {rt \in RunIds \X Tickets :
     <<"run_start", rt[1], rt[2]>> \in records /\ <<"run_end", rt[1], rt[2]>> \notin records}

InFlightIsHalfEmitted ==
  \A rt \in InFlight :
    \/ pc[rt[1]] = "end" /\ rt[2] = Min(left[rt[1]])
    \/ rt \in interrupted
    \/ <<"run_end", rt[1], rt[2]>> \in glued
===============================================================================
