----------------------------- MODULE WaveEvidence -----------------------------
(***************************************************************************)
(* scripts/wave_runner.py run_wave, with the wave number orchestrator.main *)
(* gives it: what a wave leaves behind for the two gates that read it,     *)
(* scripts/check_wave_reconciliation.py and scripts/check_attestation.py.  *)
(*                                                                         *)
(* A run id has one receipt file, <run_id>.json, one set of evidence files *)
(* and any number of lines in the wave ledger that every run id shares.    *)
(* A start of the orchestrator under a run id is numbered: the number is   *)
(* its created_at and stands for every hash of what it writes. Ticket      *)
(* work is a step of its own module, Dispatch; here it succeeds or raises. *)
(***************************************************************************)
EXTENDS Naturals, Sequences, FiniteSets, FiniteSetsExt

CONSTANTS
  RunIds,     \* the run ids the operator uses
  MaxStarts,  \* bound: how many times the orchestrator is started
  Overlap,    \* whether waves of different run ids run at the same time
  Restarts,   \* whether a run id is used again after its wave ended
  NoReceipt   \* no <run_id>.json

ASSUME WaveEvidenceAssumption ==
  /\ MaxStarts \in Nat
  /\ Overlap \in BOOLEAN
  /\ Restarts \in BOOLEAN
  /\ NoReceipt \notin [start : Nat, wave : Nat, prev : Nat]

VARIABLES
  pc,       \* where the process of each run id is
  starts,   \* how many times the orchestrator was started
  born,     \* the number of the last start of each run id
  wave,     \* the wave number it was given
  link,     \* the receipt its own will be chained to (0: genesis)
  ltip,     \* the ledger entry its own will be chained to (0: genesis)
  evidence, \* the start that wrote the evidence of each run id (0: none)
  receipts, \* the receipt of each run id
  ledger,   \* the readable entries of the wave ledger
  torn,     \* "tail": the ledger ends in a cut line; "inside": it has one inside
  holder,   \* the run ids holding the ledger's lock
  owner     \* history: the run id of each start

vars == <<pc, starts, born, wave, link, ltip, evidence, receipts, ledger, torn,
          holder, owner>>

Receipt == [start : Nat, wave : Nat, prev : Nat]
Entry == [run : RunIds, wave : Nat, start : Nat, prev : Nat]
Ended == {"idle", "recorded", "failed"}
PCs == Ended \cup {"wave", "evidence", "tip", "attested", "locked"}

Init ==
  /\ pc = [r \in RunIds |-> "idle"]
  /\ starts = 0
  /\ born = [r \in RunIds |-> 0]
  /\ wave = [r \in RunIds |-> 0]
  /\ link = [r \in RunIds |-> 0]
  /\ ltip = [r \in RunIds |-> 0]
  /\ evidence = [r \in RunIds |-> 0]
  /\ receipts = [r \in RunIds |-> NoReceipt]
  /\ ledger = << >>
  /\ torn = {}
  /\ holder = {}
  /\ owner = << >>

Goto(r, there) == pc' = [pc EXCEPT ![r] = there]

-------------------------------------------------------------------------------
(* orchestrator.main: the number of the wave, from the whole ledger.        *)

RecordedWaves == {ledger[i].wave : i \in DOMAIN ledger}

NextOfCount ==   \* mutant: the number of lines, plus one
  Len(ledger) + 1

NextWaveNumber == Max(RecordedWaves \cup {0}) + 1

(* recorded_waves raises on a line it cannot parse, so the default number   *)
(* is there only as long as the ledger is whole; after that the operator    *)
(* passes the number with --wave, and is taken to pass the same one.        *)
Plan(r) ==
  /\ pc[r] \in Ended
  /\ Restarts \/ pc[r] = "idle"
  /\ Overlap \/ \A s \in RunIds : pc[s] \in Ended
  /\ starts < MaxStarts
  /\ starts' = starts + 1
  /\ born' = [born EXCEPT ![r] = starts + 1]
  /\ owner' = Append(owner, r)
  /\ wave' = [wave EXCEPT ![r] = NextWaveNumber]
  /\ Goto(r, "wave")
  /\ UNCHANGED <<link, ltip, evidence, receipts, ledger, torn, holder>>

-------------------------------------------------------------------------------
(* run_wave, from the end of the dispatch on.                               *)

WriteEvidence(r) ==
  /\ pc[r] = "wave"
  /\ evidence' = [evidence EXCEPT ![r] = born[r]]
  /\ Goto(r, "evidence")
  /\ UNCHANGED <<starts, born, wave, link, ltip, receipts, ledger, torn, holder, owner>>

Receipts(runs) == {receipts[s].start : s \in {s \in runs : receipts[s] # NoReceipt}}

TipOfAll(r) ==   \* mutant: the run's own receipt is not left out
  Max(Receipts(RunIds) \cup {0})

(* _chain_tip: the latest receipt of another run id, read without a lock.   *)
ChainTip(r) == Max(Receipts(RunIds \ {r}) \cup {0})

ReadTip(r) ==
  /\ pc[r] = "evidence"
  /\ link' = [link EXCEPT ![r] = ChainTip(r)]
  /\ Goto(r, "tip")
  /\ UNCHANGED <<starts, born, wave, ltip, evidence, receipts, ledger, torn, holder, owner>>

(* atomic_write_text replaces the receipt an earlier start left.            *)
Attest(r) ==
  /\ pc[r] = "tip"
  /\ receipts' = [receipts EXCEPT
       ![r] = [start |-> born[r], wave |-> wave[r], prev |-> link[r]]]
  /\ Goto(r, "attested")
  /\ UNCHANGED <<starts, born, wave, link, ltip, evidence, ledger, torn, holder, owner>>

-------------------------------------------------------------------------------
(* append_wave_ledger_entry, under the ledger's lock.                       *)

LockLedgerUnlocked(r) ==   \* mutant: the tip is read outside the lock
  /\ pc[r] = "attested"
  /\ holder' = holder \cup {r}
  /\ ltip' = [ltip EXCEPT ![r] = Len(ledger)]
  /\ Goto(r, "locked")
  /\ UNCHANGED <<starts, born, wave, link, evidence, receipts, ledger, torn, owner>>

(* _ledger_chain_tip passes over the lines it cannot parse.                 *)
LockLedger(r) ==
  /\ pc[r] = "attested"
  /\ holder = {}
  /\ holder' = {r}
  /\ ltip' = [ltip EXCEPT ![r] = Len(ledger)]
  /\ Goto(r, "locked")
  /\ UNCHANGED <<starts, born, wave, link, evidence, receipts, ledger, torn, owner>>

EntryOf(r) == [run |-> r, wave |-> wave[r], start |-> born[r], prev |-> ltip[r]]

AddLineRepairing(r) ==   \* mutant: a cut line is dropped, and the entry with it
  /\ ledger' = IF "tail" \in torn THEN ledger ELSE Append(ledger, EntryOf(r))
  /\ torn' = torn \ {"tail"}

(* After a cut line the entry is glued to it, and neither is readable.      *)
AddLine(r) ==
  /\ ledger' = IF "tail" \in torn THEN ledger ELSE Append(ledger, EntryOf(r))
  /\ torn' = IF "tail" \in torn THEN {"inside"} ELSE torn

AppendEntry(r) ==
  /\ pc[r] = "locked"
  /\ AddLine(r)
  /\ holder' = holder \ {r}
  /\ Goto(r, "recorded")
  /\ UNCHANGED <<starts, born, wave, link, ltip, evidence, receipts, owner>>

(* The lock times out; or the process dies or the write fails under it, with *)
(* none of the line, a part of it or all of it in the file.                 *)
EntryFails(r) ==
  /\ pc[r] \in {"attested", "locked"}
  /\ \/ UNCHANGED <<ledger, torn>>
     \/ pc[r] = "locked" /\ torn' = torn \cup {"tail"} /\ UNCHANGED ledger
     \/ pc[r] = "locked" /\ AddLine(r)
  /\ holder' = holder \ {r}
  /\ Goto(r, "failed")
  /\ UNCHANGED <<starts, born, wave, link, ltip, evidence, receipts, owner>>

(* The process dies, the tickets raise, a result or an agent's file is       *)
(* missing, or a write fails; a half-written evidence file is of no start.  *)
WaveFails(r) ==
  /\ pc[r] \in {"wave", "evidence", "tip"}
  /\ \/ UNCHANGED evidence
     \/ pc[r] = "wave" /\ evidence' = [evidence EXCEPT ![r] = 0]
  /\ Goto(r, "failed")
  /\ UNCHANGED <<starts, born, wave, link, ltip, receipts, ledger, torn, holder, owner>>

Process(r) ==
  \/ Plan(r) \/ WriteEvidence(r) \/ ReadTip(r) \/ Attest(r) \/ LockLedger(r)
  \/ AppendEntry(r) \/ EntryFails(r) \/ WaveFails(r)

Next == \E r \in RunIds : Process(r)

Spec == Init /\ [][Next]_vars

-------------------------------------------------------------------------------
TypeOK ==
  /\ pc \in [RunIds -> PCs]
  /\ starts \in Nat
  /\ born \in [RunIds -> Nat]
  /\ wave \in [RunIds -> Nat]
  /\ link \in [RunIds -> Nat]
  /\ ltip \in [RunIds -> Nat]
  /\ evidence \in [RunIds -> Nat]
  /\ receipts \in [RunIds -> Receipt \cup {NoReceipt}]
  /\ ledger \in Seq(Entry)
  /\ torn \subseteq {"tail", "inside"}
  /\ holder \subseteq RunIds
  /\ owner \in Seq(RunIds)

(* Every entry of the ledger is chained to the entry before it, whatever    *)
(* waves overlap and whatever lines a kill has cut: verify_wave_ledger      *)
(* never takes an honest ledger for one with a dropped or reordered line.   *)
LedgerChained == \A i \in DOMAIN ledger : ledger[i].prev = i - 1

(* The wave numbers of the ledger are 1..K, although each is chosen before  *)
(* the wave from a ledger that other waves are appending to.                *)
WavesGapFree ==
  RecordedWaves = 1 .. Max(RecordedWaves \cup {0})

(* No run id ever records one wave twice, nor an earlier wave after a later *)
(* one: the duplicate key verify_wave_ledger looks for cannot arise.        *)
RunWavesIncrease ==
  \A i, j \in DOMAIN ledger :
    i < j /\ ledger[i].run = ledger[j].run => ledger[i].wave < ledger[j].wave

Matches(entry, r) ==
  /\ receipts[r] # NoReceipt
  /\ entry.run = r
  /\ entry.start = receipts[r].start
  /\ entry.wave = receipts[r].wave

(* When run_wave returns, its receipt has its ledger entry and its evidence,*)
(* even after earlier starts of the run id died half-way; a ledger that     *)
(* lacks the entry has a malformed line to show for it.                     *)
RecordedWaveReconciles ==
  \A r \in RunIds : pc[r] = "recorded" =>
    /\ evidence[r] = receipts[r].start
    /\ "inside" \in torn \/ \E i \in DOMAIN ledger : Matches(ledger[i], r)

(* A receipt is chained to a receipt of another run id, and the link stays  *)
(* good for as long as that run id is not used again.                       *)
LinksOutliveOverlap ==
  \A r \in RunIds : receipts[r] # NoReceipt /\ receipts[r].prev # 0 =>
    LET target == owner[receipts[r].prev]
    IN  /\ target # r
        /\ receipts[target] # NoReceipt
        /\ receipts[target].start >= receipts[r].prev

-------------------------------------------------------------------------------
(* What the gates demand of every history the orchestrator can leave.       *)

AtRest == torn = {} /\ \A r \in RunIds : pc[r] \in {"idle", "recorded"}

(* chain_errors of check_wave_reconciliation.py: the waves of each run id   *)
(* are 1..K.                                                                *)
WavesGapFreePerRun ==
  AtRest => \A r \in RunIds :
    LET waves == {ledger[i].wave : i \in {i \in DOMAIN ledger : ledger[i].run = r}}
    IN  waves = 1 .. Cardinality(waves)

-------------------------------------------------------------------------------
(* A number is chosen before a wave, a tip is read and a line is written    *)
(* after it, by processes that overlap and die: yet the ledger is one to    *)
(* which each start adds its entry at one instant and once, and none that   *)
(* returns is missing.                                                      *)
Chained == INSTANCE ChainedLedger WITH
  Starts <- 1 .. MaxStarts,
  broken <- "inside" \in torn,
  returned <- [r \in RunIds |-> IF pc[r] = "recorded" THEN born[r] ELSE 0]

ImplementsChainedLedger == Chained!Spec
===============================================================================
