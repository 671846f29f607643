---------------------------- MODULE Heartbeat_proofs ----------------------------
(***************************************************************************)
(* What WaveTrail promises the readers of a wave's trail, for any board,   *)
(* any run ids, any number of starts and a kill at any point; and that the *)
(* heartbeat and its break glass only do what WaveTrail allows, so that it *)
(* holds under them.                                                       *)
(***************************************************************************)
EXTENDS Heartbeat, WellFoundedInduction, TLAPS

(* Where the loops of run_wave are.                                         *)
LoopsInPlan ==
  \A r \in RunIds :
    /\ left[r] \subseteq plan[r]
    /\ pc[r] # "off" => plan[r] # {}
    /\ AtAppend(r) <=> left[r] # {}

(* What the loops have written when they are there.                         *)
LoopsWritten ==
  \A r \in RunIds :
    /\ pc[r] \in {"start", "end"} =>
         \A t \in plan[r] \ left[r] : Written("run_end", r, t)
    /\ pc[r] = "end" => Written("run_start", r, Min(left[r]))
    /\ pc[r] = "complete" =>
         /\ \A t \in plan[r] : Written("run_end", r, t)
         /\ \A t \in plan[r] \ left[r] : Written("completion", r, t)
    /\ pc[r] = "close" => \A t \in plan[r] : Written("completion", r, t)

(* A run_start without its run_end is where its loop is, or was interrupted. *)
HalfEmitted ==
  \A r \in RunIds, t \in Tickets :
    Written("run_start", r, t) /\ ~ Written("run_end", r, t) =>
      \/ pc[r] = "end" /\ t = Min(left[r])
      \/ <<r, t>> \in interrupted

(* The number of a wave is beyond those its run id has recorded.            *)
NumbersFresh ==
  /\ \A e \in ledger : e.wave \in 1 .. starts
  /\ \A r \in RunIds : pc[r] # "off" =>
       /\ wave[r] \in 1 .. starts
       /\ \A e \in ledger : e.run = r => e.wave < wave[r]

Recovered(r, w, S, states) ==
  Readable(r, w) /\ \A t \in S : StateAt(r, w, t) = states[t]

(* A wave about to be recorded can be rebuilt already.                      *)
RecordingRecoverable ==
  \A r \in RunIds : pc[r] = "record" => Recovered(r, wave[r], plan[r], final[r])

Order == LoopsInPlan /\ LoopsWritten /\ TrailInOrder /\ HalfEmitted
Recovery == NumbersFresh /\ RecordingRecoverable /\ RecordedStatesRecoverable

(* Half a line of the ledger is what an interrupted wave left.               *)
HalfIsInterrupted == "ledger" \in cut => interrupted # {}

TrailInv == TypeOK /\ Order /\ StampedIsCovered /\ HalfIsInterrupted /\ Recovery

-------------------------------------------------------------------------------
(* A set of numbers below a bound has a greatest element, and a least.      *)
LEMMA BoundedMax ==
  ASSUME NEW n \in Nat, NEW S \in SUBSET (0 .. n), S # {}
  PROVE  Max(S) \in S /\ \A y \in S : Max(S) >= y
<1> DEFINE Below == {n - x : x \in S}
<1>1. \A x \in S : x \in 0 .. n /\ n - x \in Nat
  OBVIOUS
<1>2. PICK x0 \in S : TRUE
  OBVIOUS
<1>3. Below \subseteq Nat /\ n - x0 \in Below
  BY <1>1, <1>2
<1>4. PICK m \in Below : \A k \in Below : <<k, m>> \notin OpToRel(<, Nat)
  BY <1>3, WFMin, NatLessThanWellFounded, Zenon
<1>5. \A k \in Below : ~ k < m
  BY <1>3, <1>4 DEF OpToRel
<1>6. PICK x \in S : m = n - x
  BY <1>4
<1>7. \A y \in S : x >= y
  <2> TAKE y \in S
  <2>1. ~ (n - y < n - x)
    BY <1>5, <1>6
  <2>2. x \in Int /\ y \in Int
    OBVIOUS
  <2> HIDE DEF Below
  <2> QED
    BY <2>1, <2>2
<1> QED
  BY <1>6, <1>7 DEF Max

LEMMA NatMin ==
  ASSUME NEW S \in SUBSET Nat, S # {}
  PROVE  Min(S) \in S
<1>1. PICK m \in S : \A k \in S : <<k, m>> \notin OpToRel(<, Nat)
  BY WFMin, NatLessThanWellFounded, Zenon
<1>2. \A k \in S : ~ k < m
  BY <1>1 DEF OpToRel
<1>3. \A k \in S : m =< k
  BY <1>2
<1> QED
  BY <1>1, <1>3 DEF Min

(* The next ticket of a loop is a ticket of its wave.                       *)
LEMMA NextInPlan ==
  ASSUME TypeOK, LoopsInPlan, NEW r \in RunIds, AtAppend(r)
  PROVE  Min(left[r]) \in left[r] /\ Min(left[r]) \in plan[r] /\ Min(left[r]) \in Tickets
<1>1. left[r] \in SUBSET Nat /\ left[r] # {}
  BY DEF TypeOK, LoopsInPlan, Tickets
<1>2. Min(left[r]) \in left[r]
  BY <1>1, NatMin
<1> QED
  BY <1>2 DEF TypeOK, LoopsInPlan

(* The next number is beyond every number of the ledger, and at most one
   more than the waves started.                                             *)
LEMMA NextWaveIs ==
  ASSUME TypeOK, NumbersFresh
  PROVE  /\ NextWave \in 1 .. starts + 1
         /\ \A e \in ledger : e.wave < NextWave
         /\ \A w \in Nat \ {0} : w < NextWave => \E e \in ledger : e.wave >= w
<1> DEFINE Numbers == {e.wave : e \in ledger} \cup {0}
<1>1. starts \in Nat
  BY WaveTrailAssumption DEF TypeOK
<1>2. Numbers \in SUBSET (0 .. starts) /\ Numbers # {}
  BY <1>1 DEF NumbersFresh
<1>3. NextWave = Max(Numbers) + 1
  BY DEF NextWave
<1>4. \A e \in ledger : e.wave \in Numbers
  OBVIOUS
<1>5. \A x \in Numbers : x = 0 \/ \E e \in ledger : e.wave = x
  OBVIOUS
<1> HIDE DEF Numbers
<1>6. Max(Numbers) \in Numbers /\ \A y \in Numbers : Max(Numbers) >= y
  BY <1>1, <1>2, BoundedMax
<1>7. Max(Numbers) \in 0 .. starts
  BY <1>2, <1>6
<1>8. \A e \in ledger : e.wave \in 1 .. starts
  BY DEF NumbersFresh
<1> QED
  BY <1>1, <1>3, <1>4, <1>5, <1>6, <1>7, <1>8

(* compute_delta and the chain: with a readable past, the file that
   write_wave_checkpoint leaves makes the states it was given the last ones.  *)
LEMMA DeltaRestores ==
  ASSUME TypeOK, NEW r \in RunIds, NEW states \in [Tickets -> Status],
         NEW w \in 1 .. MaxStarts, w = wave[r], WriteCheckpoint(r, states)
  PROVE  /\ cp'[r][w] \in Delta
         /\ \A t \in Tickets :
              cp'[r][w][t] = "same" \/ (t \in plan[r] /\ cp'[r][w][t] = states[t])
         /\ Readable(r, w)'
         /\ \A t \in plan[r] : StateAt(r, w, t)' = states[t]
<1> DEFINE d == DeltaOf(r, states)
<1>1. d \in Delta /\ \A t \in Tickets : d[t] = "same" \/ (t \in plan[r] /\ d[t] = states[t])
  BY DEF DeltaOf, Delta, Status, Finals, TypeOK
<1>2. cp' = [cp EXCEPT ![r][w] = d] /\ Readable(r, w - 1)
  BY DEF WriteCheckpoint
<1>3. \A t \in plan[r] :
        IF StateAt(r, w - 1, t) # states[t] THEN d[t] = states[t] ELSE d[t] = "same"
  BY DEF DeltaOf, TypeOK
<1>4. MaxStarts \in Nat /\ w \in Nat
  BY WaveTrailAssumption
<1> HIDE DEF d
<1>5. cp'[r][w] = d /\ \A v \in 1 .. MaxStarts : v # w => cp'[r][v] = cp[r][v]
  BY <1>2 DEF TypeOK
<1>6. d \notin {NoFile, Half}
  BY <1>1, WaveTrailAssumption
<1>7. Waves(w) = Waves(w - 1) \cup {w} /\ w \notin Waves(w - 1)
      /\ \A v \in Waves(w - 1) : v \in 1 .. MaxStarts /\ v < w
  BY <1>4 DEF Waves
<1>8. \A v \in Waves(w - 1) : cp'[r][v] = cp[r][v]
  BY <1>5, <1>7
<1>9. Readable(r, w)'
  <2>1. \A v \in Waves(w) : cp'[r][v] # Half
    BY <1>2, <1>5, <1>6, <1>7, <1>8 DEF Readable
  <2> QED
    BY <2>1 DEF Readable, Waves
<1>10. ASSUME NEW t \in plan[r] PROVE StateAt(r, w, t)' = states[t]
  <2>1. t \in Tickets /\ states[t] \in Status /\ states[t] # "same"
    BY DEF TypeOK, Status, Finals
  <2>2. Naming(r, w, t)' = {v \in Waves(w) : cp'[r][v] \notin {NoFile, Half} /\ cp'[r][v][t] # "same"}
    BY DEF Naming, Waves
  <2>3. CASE StateAt(r, w - 1, t) # states[t]
    <3>1. d[t] = states[t]
      BY <1>3, <2>3
    <3>2. w \in Naming(r, w, t)' /\ \A v \in Naming(r, w, t)' : v \in Nat /\ w >= v
      BY <1>4, <1>5, <1>6, <1>7, <2>1, <2>2, <3>1
    <3>3. Max(Naming(r, w, t)') = w
      <4>1. \A x \in Naming(r, w, t)' : (\A y \in Naming(r, w, t)' : x >= y) => x = w
        BY <1>4, <3>2
      <4> QED
        BY <3>2, <4>1 DEF Max
    <3>4. StateAt(r, w, t)' = cp'[r][Max(Naming(r, w, t)')][t]
      BY <3>2 DEF StateAt, Max
    <3> QED
      BY <1>5, <3>1, <3>3, <3>4
  <2>4. CASE StateAt(r, w - 1, t) = states[t]
    <3>1. d[t] = "same"
      BY <1>3, <2>4
    <3>2. Naming(r, w, t)' = Naming(r, w - 1, t)
      BY <1>5, <1>7, <1>8, <2>2, <3>1 DEF Naming
    <3> DEFINE S == Naming(r, w - 1, t)
    <3>3. \A v \in S : v \in Waves(w - 1)
      BY DEF Naming
    <3>4. S \in SUBSET (0 .. w)
      BY <1>4, <1>7, <3>3
    <3>5. StateAt(r, w - 1, t) = IF S = {} THEN "none" ELSE cp[r][Max(S)][t]
      BY DEF StateAt
    <3>6. StateAt(r, w, t)' = IF S = {} THEN "none" ELSE cp'[r][Max(S)][t]
      BY <3>2 DEF StateAt, Max
    <3> HIDE DEF S
    <3>7. S # {} => Max(S) \in S
      BY <1>4, <3>4, BoundedMax
    <3>8. S # {} => cp'[r][Max(S)] = cp[r][Max(S)]
      BY <1>8, <3>3, <3>7
    <3> QED
      BY <2>4, <3>5, <3>6, <3>8
  <2> QED
    BY <2>3, <2>4
<1> QED
  BY <1>1, <1>5, <1>9, <1>10

-------------------------------------------------------------------------------
LEMMA InitTrail == ASSUME Init PROVE TrailInv
<1> USE DEF Init
<1>1. Pristine \in [Tickets -> Status]
  BY DEF Pristine, Status
<1>2. TypeOK
  BY <1>1, WaveTrailAssumption DEF TypeOK, PCs
<1>3. LoopsInPlan /\ LoopsWritten /\ HalfEmitted
  BY DEF LoopsInPlan, LoopsWritten, HalfEmitted, AtAppend, Written
<1>4. TrailInOrder
  BY WaveTrailAssumption DEF TrailInOrder, Written
<1>5. StampedIsCovered
  BY DEF StampedIsCovered
<1>7. HalfIsInterrupted
  BY DEF HalfIsInterrupted
<1>6. NumbersFresh /\ RecordingRecoverable /\ RecordedStatesRecoverable
  BY DEF NumbersFresh, RecordingRecoverable, RecordedStatesRecoverable
<1> QED
  BY <1>2, <1>3, <1>4, <1>5, <1>6, <1>7 DEF TrailInv, Order, Recovery

(* The files hold only what their types allow, whichever step writes them.  *)
FilesOK ==
  /\ cp \in [RunIds -> [1 .. MaxStarts -> Delta \cup {NoFile, Half}]]
  /\ stamp \in [Tickets -> RunIds \cup {NoStamp}]
  /\ records \in SUBSET (Kinds \X RunIds \X Tickets)
  /\ ledger \in SUBSET Entry
  /\ cut \in SUBSET (RunIds \cup {"store", "ledger"})
  /\ glued \in SUBSET (Kinds \X RunIds \X Tickets)
  /\ swallowed \in SUBSET (RunIds \X Tickets)

(* What is left of the type invariant: where the processes are.             *)
ProcessesOK ==
  /\ pc \in [RunIds -> PCs]
  /\ plan \in [RunIds -> SUBSET Tickets]
  /\ wave \in [RunIds -> 0 .. MaxStarts]
  /\ final \in [RunIds -> [Tickets -> Status]]
  /\ left \in [RunIds -> SUBSET Tickets]
  /\ starts \in 0 .. MaxStarts
  /\ interrupted \in SUBSET (RunIds \X Tickets)

LEMMA FilesTyped ==
  ASSUME TrailInv, NEW r \in RunIds, Begin(r) \/ Step(r) \/ Death(r)
  PROVE  FilesOK'
<1> USE DEF FilesOK
<1> USE DEF TrailInv, TypeOK
<1>1. ASSUME NEW states \in [Tickets -> Status], WriteCheckpoint(r, states)
      PROVE  cp' \in [RunIds -> [1 .. MaxStarts -> Delta \cup {NoFile, Half}]]
  <2>1. DeltaOf(r, states) \in Delta
    BY DEF DeltaOf, Delta
  <2> QED
    BY <1>1, <2>1 DEF WriteCheckpoint
<1>2. \A kind \in Kinds : FileOf(kind, r) \in RunIds \cup {"store", "ledger"}
  BY DEF FileOf
<1>3. ASSUME NEW kind \in Kinds, NEW t \in Tickets, AppendRecord(kind, r, t)
      PROVE  /\ records' \in SUBSET (Kinds \X RunIds \X Tickets)
             /\ glued' \in SUBSET (Kinds \X RunIds \X Tickets)
             /\ cut' \in SUBSET (RunIds \cup {"store", "ledger"})
  BY <1>3 DEF AppendRecord
<1>4. AtAppend(r) => Min(left[r]) \in Tickets
  BY NextInPlan DEF Order
<1>5. CASE Begin(r) \/ Stamp(r) \/ Work(r) \/ WorkFails(r) \/ CheckpointRaises(r) \/ Die(r)
  BY <1>5 DEF Begin, Stamp, Work, WorkFails, CheckpointRaises, Die, files, entries, logs
<1>6. CASE OpenCheckpoint(r)
  <2>1. Pristine \in [Tickets -> Status]
    BY DEF Pristine, Status
  <2> QED
    BY <1>1, <1>6, <2>1 DEF OpenCheckpoint, entries, logs
<1>7. CASE CloseCheckpoint(r)
  BY <1>1, <1>7 DEF CloseCheckpoint, entries, logs
<1>8. CASE EmitStart(r) \/ EmitEnd(r) \/ Complete(r)
  BY <1>3, <1>4, <1>8 DEF EmitStart, EmitEnd, Complete, AtAppend, Kinds, entries
<1>9. CASE Record(r) \/ DieRecording(r)
  <2>1. EntryOf(r) \in Entry
    BY WaveTrailAssumption DEF Entry, EntryOf
  <2>2. ASSUME AddEntry(r)
        PROVE  /\ ledger' \in SUBSET Entry
               /\ swallowed' \in SUBSET (RunIds \X Tickets)
               /\ cut' \in SUBSET (RunIds \cup {"store", "ledger"})
    BY <2>1, <2>2 DEF AddEntry
  <2>3. UNCHANGED <<cp, stamp, records, glued>>
    BY <1>9 DEF Record, DieRecording
  <2>4. AddEntry(r) \/ (cut' = cut \cup {"ledger"} /\ UNCHANGED entries)
    BY <1>9 DEF Record, DieRecording
  <2> QED
    BY <2>2, <2>3, <2>4 DEF entries
<1>10. CASE DieAppending(r)
  <2>1. FileOf(NextRecord(r)[1], r) \in RunIds \cup {"store", "ledger"}
    BY DEF FileOf
  <2> QED
    BY <1>10, <2>1 DEF DieAppending, entries
<1>11. CASE DieInCheckpoint(r)
  BY <1>11 DEF DieInCheckpoint, entries, logs
<1> QED
  BY <1>5, <1>6, <1>7, <1>8, <1>9, <1>10, <1>11 DEF Step, Death

LEMMA TypeStep == ASSUME TrailInv, [Next]_vars PROVE TypeOK'
<1> USE DEF TrailInv, ProcessesOK, PCs, Goto
<1>t. TypeOK <=> ProcessesOK /\ FilesOK
  BY DEF TypeOK, FilesOK
<1>p. (TypeOK <=> ProcessesOK /\ FilesOK)'
  BY DEF TypeOK, FilesOK
<1>0. ASSUME NEW r \in RunIds, Abort(r)
      PROVE  /\ pc' \in [RunIds -> PCs] /\ plan' \in [RunIds -> SUBSET Tickets]
             /\ wave' \in [RunIds -> 0 .. MaxStarts]
             /\ final' \in [RunIds -> [Tickets -> Status]]
             /\ left' \in [RunIds -> SUBSET Tickets]
             /\ interrupted' \in SUBSET (RunIds \X Tickets)
  BY <1>t, <1>0, WaveTrailAssumption DEF Abort, Pristine, Status
<1>1. ASSUME NEW r \in RunIds, Begin(r) PROVE ProcessesOK'
  <2>1. NextWave \in 1 .. starts + 1 /\ starts + 1 \in 0 .. MaxStarts
    BY <1>t, <1>1, NextWaveIs, WaveTrailAssumption DEF Begin, Recovery
  <2>2. wave' \in [RunIds -> 0 .. MaxStarts]
    BY <1>t, <1>1, <2>1, WaveTrailAssumption DEF Begin
  <2> QED
    BY <1>t, <1>1, <2>1, <2>2 DEF Begin
<1>2. ASSUME NEW r \in RunIds, Step(r) PROVE ProcessesOK'
  <2>1. CASE OpenCheckpoint(r)
    BY <1>t, <2>1 DEF OpenCheckpoint
  <2>2. CASE Stamp(r) \/ CloseCheckpoint(r)
    BY <1>t, <2>2 DEF Stamp, CloseCheckpoint
  <2>3. CASE CheckpointRaises(r) \/ WorkFails(r)
    BY <1>t, <1>0, <1>2, <2>3 DEF CheckpointRaises, WorkFails
  <2>4. CASE Work(r)
    BY <1>t, <1>2, <2>4 DEF Work, Status, Finals
  <2>5. CASE EmitStart(r) \/ EmitEnd(r) \/ Complete(r)
    <3>1. UNCHANGED <<plan, wave, final, starts, interrupted>>
      BY <2>5 DEF EmitStart, EmitEnd, Complete
    <3>2. left' \in [RunIds -> SUBSET Tickets]
      BY <1>t, <2>5 DEF EmitStart, EmitEnd, Complete, NextTicket
    <3>3. pc' \in [RunIds -> PCs]
      BY <1>t, <2>5 DEF EmitStart, EmitEnd, Complete, NextTicket
    <3> QED
      BY <1>t, <3>1, <3>2, <3>3
  <2>6. CASE Record(r)
    BY <1>t, <1>2, <2>6, WaveTrailAssumption DEF Record, Pristine, Status
  <2> QED
    BY <1>t, <1>2, <2>1, <2>2, <2>3, <2>4, <2>5, <2>6 DEF Step
<1>3. ASSUME NEW r \in RunIds, Death(r) PROVE ProcessesOK'
  <2>1. Killed(r)
    BY <1>3 DEF Death, Die, DieAppending, DieRecording, DieInCheckpoint
  <2> QED
    BY <1>t, <1>0, <1>3, <2>1 DEF Killed
<1>4. CASE AppendOther
  BY <1>t, <1>p, <1>4 DEF AppendOther, FilesOK, entries
<1>5. CASE UNCHANGED vars
  BY <1>t, <1>p, <1>5 DEF vars, files, entries, logs, FilesOK
<1> QED
  BY <1>p, <1>1, <1>2, <1>3, <1>4, <1>5, FilesTyped DEF Next

-------------------------------------------------------------------------------
(* A record appended is written, glued or not, and nothing else is.         *)
LEMMA Appended ==
  ASSUME NEW kind, NEW r, NEW t, AppendRecord(kind, r, t)
  PROVE  \A k, s, u : Written(k, s, u)' <=> Written(k, s, u) \/ <<k, s, u>> = <<kind, r, t>>
BY DEF AppendRecord, Written

(* A wave that ends in the middle leaves what is written as it was.          *)
LEMMA OrderAborted ==
  ASSUME TrailInv, NEW r \in RunIds, pc[r] # "off", Abort(r),
         UNCHANGED <<records, glued>>,
         \A s \in RunIds, t \in Tickets, w \in 1 .. MaxStarts :
           cp'[s][w] \in Delta => cp'[s][w] = cp[s][w]
  PROVE  Order'
<1> USE DEF TrailInv, TypeOK, Order, Abort, Goto
<1>1. \A k, s, t : Written(k, s, t)' <=> Written(k, s, t)
  BY DEF Written
<1>2. LoopsInPlan'
  BY DEF LoopsInPlan, AtAppend
<1>3. LoopsWritten'
  BY <1>1 DEF LoopsWritten
<1>4. TrailInOrder'
  BY <1>1 DEF TrailInOrder
<1>5. HalfEmitted'
  <2> SUFFICES ASSUME NEW s \in RunIds, NEW t \in Tickets,
                      Written("run_start", s, t), ~ Written("run_end", s, t)
               PROVE  (pc'[s] = "end" /\ t = Min(left'[s])) \/ <<s, t>> \in interrupted'
    BY <1>1 DEF HalfEmitted
  <2>1. CASE pc[s] = "end" /\ t = Min(left[s]) /\ s = r
    <3>1. t \in plan[r]
      BY <2>1, NextInPlan DEF AtAppend
    <3> QED
      BY <2>1, <3>1
  <2>2. CASE pc[s] = "end" /\ t = Min(left[s]) /\ s # r
    BY <2>2
  <2> QED
    BY <2>1, <2>2 DEF HalfEmitted
<1> QED
  BY <1>2, <1>3, <1>4, <1>5

(* A checkpoint changes what TrailInOrder says only by the states it holds.   *)
LEMMA OrderCheckpointed ==
  ASSUME TrailInv, NEW r \in RunIds, NEW states \in [Tickets -> Status],
         WriteCheckpoint(r, states),
         \A t \in plan[r] : states[t] \in Finals => Written("completion", r, t),
         pc[r] \in {"open", "close"}, NEW there \in {"stamp", "record"},
         pc' = [pc EXCEPT ![r] = there], UNCHANGED <<plan, wave, left, logs, interrupted>>
  PROVE  Order'
<1> USE DEF TrailInv, Order
<1>1. \A k, s, t : Written(k, s, t)' <=> Written(k, s, t)
  BY DEF Written, logs
<1>2. LoopsInPlan' /\ LoopsWritten' /\ HalfEmitted'
  BY <1>1 DEF LoopsInPlan, LoopsWritten, HalfEmitted, AtAppend, TypeOK
<1>3. wave[r] \in 1 .. MaxStarts
  BY WaveTrailAssumption DEF Recovery, NumbersFresh, TypeOK
<1>4. \A t \in Tickets :
        cp'[r][wave[r]][t] = "same" \/ (t \in plan[r] /\ cp'[r][wave[r]][t] = states[t])
  BY <1>3, DeltaRestores
<1>5. \A s \in RunIds, w \in 1 .. MaxStarts :
        ~ (s = r /\ w = wave[r]) => cp'[s][w] = cp[s][w]
  BY DEF WriteCheckpoint, TypeOK
<1>6. TrailInOrder'
  <2> SUFFICES ASSUME NEW s \in RunIds, NEW t \in Tickets, NEW w \in 1 .. MaxStarts,
                      cp'[s][w] \in Delta, cp'[s][w][t] \in Finals
               PROVE  Written("completion", s, t)
    BY <1>1 DEF TrailInOrder
  <2>1. CASE s = r /\ w = wave[r]
    BY <1>4, <2>1 DEF Finals
  <2>2. CASE ~ (s = r /\ w = wave[r])
    BY <1>5, <2>2 DEF TrailInOrder
  <2> QED
    BY <2>1, <2>2
<1> QED
  BY <1>2, <1>6

LEMMA OrderStep == ASSUME TrailInv, [Next]_vars PROVE Order'
<1> USE DEF TrailInv, TypeOK, Order, Goto
<1>1. ASSUME NEW r \in RunIds, Begin(r) \/ Stamp(r) \/ Work(r) \/ Record(r) PROVE Order'
  <2>1. /\ \A k, s, t : Written(k, s, t)' <=> Written(k, s, t)
        /\ UNCHANGED <<cp, interrupted>>
    BY <1>1 DEF Written, Begin, Stamp, Work, Record, files, logs
  <2>2. LoopsInPlan'
    <3>1. CASE Begin(r)
      <4>0. PICK S \in (SUBSET Tickets) \ {{}} : plan' = [plan EXCEPT ![r] = S]
        BY <3>1 DEF Begin
      <4>1. pc[r] = "off" /\ left' = left /\ plan'[r] # {} /\ pc'[r] = "open"
        BY <3>1, <4>0 DEF Begin
      <4>2. left[r] = {}
        BY <4>1 DEF LoopsInPlan, AtAppend
      <4>3. \A s \in RunIds \ {r} : pc'[s] = pc[s] /\ plan'[s] = plan[s]
        BY <3>1, <4>0 DEF Begin
      <4> QED
        BY <4>1, <4>2, <4>3 DEF LoopsInPlan, AtAppend
    <3>4. CASE Stamp(r)
      BY <3>4 DEF LoopsInPlan, AtAppend, Stamp
    <3>2. CASE Work(r)
      BY <3>2 DEF LoopsInPlan, AtAppend, Work
    <3>3. CASE Record(r)
      <4>1. left[r] = {} /\ left' = left /\ plan'[r] = {} /\ pc'[r] = "off"
        BY <3>3 DEF LoopsInPlan, AtAppend, Record
      <4>2. \A s \in RunIds \ {r} : pc'[s] = pc[s] /\ plan'[s] = plan[s]
        BY <3>3 DEF Record
      <4> QED
        BY <4>1, <4>2 DEF LoopsInPlan, AtAppend
    <3> QED
      BY <1>1, <3>1, <3>2, <3>3, <3>4
  <2>3. LoopsWritten'
    <3>1. /\ \A s \in RunIds \ {r} : pc'[s] = pc[s] /\ plan'[s] = plan[s] /\ left'[s] = left[s]
          /\ pc'[r] \notin {"end", "complete", "close"}
          /\ pc'[r] = "start" => plan'[r] \ left'[r] = {}
      BY <1>1 DEF Begin, Stamp, Work, Record
    <3> QED
      BY <2>1, <3>1 DEF LoopsWritten
  <2>4. TrailInOrder'
    BY <2>1 DEF TrailInOrder
  <2>5. HalfEmitted'
    BY <1>1, <2>1 DEF HalfEmitted, Begin, Stamp, Work, Record
  <2> QED
    BY <2>2, <2>3, <2>4, <2>5
<1>3. ASSUME NEW r \in RunIds, OpenCheckpoint(r) PROVE Order'
  <2>1. Pristine \in [Tickets -> Status] /\ \A t \in Tickets : Pristine[t] \notin Finals
    BY DEF Pristine, Status, Finals
  <2> QED
    BY <1>3, <2>1, OrderCheckpointed DEF OpenCheckpoint
<1>4. ASSUME NEW r \in RunIds, CloseCheckpoint(r) PROVE Order'
  <2>1. \A t \in plan[r] : final[r][t] \in Finals => Written("completion", r, t)
    BY <1>4 DEF CloseCheckpoint, LoopsWritten
  <2> QED
    BY <1>4, <2>1, OrderCheckpointed DEF CloseCheckpoint
<1>5. ASSUME NEW r \in RunIds, EmitStart(r) PROVE Order'
  <2> DEFINE m == Min(left[r])
  <2>1. m \in left[r] /\ m \in plan[r] /\ m \in Tickets
    BY <1>5, NextInPlan DEF EmitStart, AtAppend
  <2>2. \A k, s, u : Written(k, s, u)' <=> Written(k, s, u) \/ <<k, s, u>> = <<"run_start", r, m>>
    BY <1>5, Appended DEF EmitStart
  <2> HIDE DEF m
  <2>3. LoopsInPlan' /\ LoopsWritten'
    BY <1>5, <2>2 DEF EmitStart, LoopsInPlan, LoopsWritten, AtAppend, m
  <2>4. TrailInOrder'
    BY <1>5, <2>2 DEF EmitStart, TrailInOrder
  <2>5. HalfEmitted'
    BY <1>5, <2>2 DEF EmitStart, HalfEmitted, m
  <2> QED
    BY <2>3, <2>4, <2>5
<1>6. ASSUME NEW r \in RunIds, EmitEnd(r) PROVE Order'
  <2> DEFINE m == Min(left[r])
  <2>1. m \in left[r] /\ m \in plan[r] /\ m \in Tickets
    BY <1>6, NextInPlan DEF EmitEnd, AtAppend
  <2>2. \A k, s, u : Written(k, s, u)' <=> Written(k, s, u) \/ <<k, s, u>> = <<"run_end", r, m>>
    BY <1>6, Appended DEF EmitEnd
  <2>3. /\ UNCHANGED <<plan, cp, interrupted>>
        /\ left' = [left EXCEPT ![r] = IF left[r] \ {m} = {} THEN plan[r] ELSE left[r] \ {m}]
        /\ pc' = [pc EXCEPT ![r] = IF left[r] \ {m} = {} THEN "complete" ELSE "start"]
    BY <1>6 DEF EmitEnd, NextTicket
  <2>4. Written("run_start", r, m) /\ pc[r] = "end"
    BY <1>6 DEF EmitEnd, LoopsWritten, m
  <2> HIDE DEF m
  <2>5. LoopsInPlan'
    BY <2>1, <2>3, <2>4 DEF LoopsInPlan, AtAppend
  <2>6. LoopsWritten'
    BY <2>1, <2>2, <2>3, <2>4 DEF LoopsWritten
  <2>7. TrailInOrder'
    BY <2>2, <2>3, <2>4 DEF TrailInOrder
  <2>8. HalfEmitted'
    BY <2>2, <2>3, <2>4 DEF HalfEmitted, m
  <2> QED
    BY <2>5, <2>6, <2>7, <2>8
<1>7. ASSUME NEW r \in RunIds, Complete(r) PROVE Order'
  <2> DEFINE m == Min(left[r])
  <2>1. m \in left[r] /\ m \in plan[r] /\ m \in Tickets
    BY <1>7, NextInPlan DEF Complete, AtAppend
  <2>2. \A k, s, u : Written(k, s, u)' <=> Written(k, s, u) \/ <<k, s, u>> = <<"completion", r, m>>
    BY <1>7, Appended DEF Complete
  <2>3. /\ UNCHANGED <<plan, cp, interrupted>>
        /\ left' = [left EXCEPT ![r] = left[r] \ {m}]
        /\ pc' = [pc EXCEPT ![r] = IF left[r] \ {m} = {} THEN "close" ELSE "complete"]
    BY <1>7 DEF Complete, NextTicket
  <2>4. pc[r] = "complete" /\ Written("run_end", r, m)
    BY <1>7, <2>1 DEF Complete, LoopsWritten
  <2> HIDE DEF m
  <2>5. LoopsInPlan'
    BY <2>1, <2>3, <2>4 DEF LoopsInPlan, AtAppend
  <2>6. LoopsWritten'
    BY <2>1, <2>2, <2>3, <2>4 DEF LoopsWritten
  <2>7. TrailInOrder'
    BY <2>2, <2>3, <2>4 DEF TrailInOrder
  <2>8. HalfEmitted'
    BY <2>2, <2>3, <2>4 DEF HalfEmitted
  <2> QED
    BY <2>5, <2>6, <2>7, <2>8
<1>8. ASSUME NEW r \in RunIds, CheckpointRaises(r) \/ WorkFails(r) \/ Die(r) \/ DieAppending(r)
                               \/ DieRecording(r)
      PROVE  Order'
  <2>1. /\ pc[r] # "off" /\ Abort(r) /\ UNCHANGED <<cp, records, glued>>
    BY <1>8 DEF CheckpointRaises, WorkFails, Die, DieAppending, DieRecording, Killed, files, logs
  <2> QED
    BY <2>1, OrderAborted
<1>9. ASSUME NEW r \in RunIds, DieInCheckpoint(r) PROVE Order'
  <2>1. \A s \in RunIds, w \in 1 .. MaxStarts : cp'[s][w] \in Delta => cp'[s][w] = cp[s][w]
    BY <1>9, WaveTrailAssumption DEF DieInCheckpoint
  <2> QED
    BY <1>9, <2>1, OrderAborted DEF DieInCheckpoint, Killed, logs
<1>10. CASE AppendOther \/ UNCHANGED vars
  <2>1. \A k, s, t : Written(k, s, t)' <=> Written(k, s, t)
    BY <1>10 DEF AppendOther, vars, files, logs, Written
  <2>2. UNCHANGED <<pc, plan, left, cp, interrupted>>
    BY <1>10 DEF AppendOther, vars, files
  <2> QED
    BY <2>1, <2>2 DEF LoopsInPlan, LoopsWritten, TrailInOrder, HalfEmitted, AtAppend
<1> QED
  BY <1>1, <1>3, <1>4, <1>5, <1>6, <1>7, <1>8, <1>9, <1>10 DEF Next, Step, Death

(* Half a line comes into the ledger with an interrupted wave, and only an   *)
(* entry behind half a line is lost.                                         *)
LEMMA HalfStep ==
  ASSUME TrailInv, [Next]_vars
  PROVE  (HalfIsInterrupted /\ (swallowed # {} => interrupted # {}))'
<1>1. /\ "ledger" \in cut => interrupted # {}
      /\ swallowed # {} => interrupted # {}
  BY DEF TrailInv, HalfIsInterrupted, StampedIsCovered
<1>2. ASSUME interrupted \subseteq interrupted', swallowed' = swallowed,
             "ledger" \in cut' => "ledger" \in cut
      PROVE  (HalfIsInterrupted /\ (swallowed # {} => interrupted # {}))'
  BY <1>1, <1>2 DEF HalfIsInterrupted
<1>3. ASSUME NEW r \in RunIds, Abort(r) PROVE interrupted \subseteq interrupted'
  BY <1>3 DEF Abort
<1>4. ASSUME NEW r \in RunIds, Begin(r) \/ Step(r), ~ Record(r)
      PROVE  (HalfIsInterrupted /\ (swallowed # {} => interrupted # {}))'
  <2>1. swallowed' = swallowed
    BY <1>4 DEF Begin, Step, OpenCheckpoint, CheckpointRaises, Stamp, Work, WorkFails,
                EmitStart, EmitEnd, Complete, CloseCheckpoint, files, entries
  <2>2. cut' \subseteq cut
    BY <1>4 DEF Begin, Step, OpenCheckpoint, CheckpointRaises, Stamp, Work, WorkFails,
                EmitStart, EmitEnd, Complete, CloseCheckpoint, AppendRecord, files, logs
  <2>3. interrupted \subseteq interrupted'
    BY <1>3, <1>4 DEF Begin, Step, OpenCheckpoint, CheckpointRaises, Stamp, Work, WorkFails,
                      EmitStart, EmitEnd, Complete, CloseCheckpoint
  <2> QED
    BY <1>2, <2>1, <2>2, <2>3
<1>5. ASSUME NEW r \in RunIds, Record(r)
      PROVE  (HalfIsInterrupted /\ (swallowed # {} => interrupted # {}))'
  <2>1. /\ interrupted' = interrupted /\ cut' = cut \ {"ledger"}
        /\ "ledger" \notin cut => swallowed' = swallowed
    BY <1>5 DEF Record, AddEntry
  <2> QED
    BY <1>1, <2>1 DEF HalfIsInterrupted
<1>6. ASSUME NEW r \in RunIds, DieRecording(r)
      PROVE  (HalfIsInterrupted /\ (swallowed # {} => interrupted # {}))'
  <2>1. pc[r] # "off" /\ interrupted' = interrupted \cup ({r} \X plan[r])
    BY <1>6 DEF DieRecording, Killed, Abort
  <2>2. PICK t : t \in plan[r]
    BY <2>1 DEF TrailInv, Order, LoopsInPlan
  <2>3. <<r, t>> \in interrupted'
    BY <2>1, <2>2
  <2> QED
    BY <2>3 DEF HalfIsInterrupted
<1>7. ASSUME NEW r \in RunIds, Die(r) \/ DieAppending(r) \/ DieInCheckpoint(r)
      PROVE  (HalfIsInterrupted /\ (swallowed # {} => interrupted # {}))'
  <2>1. Abort(r) /\ swallowed' = swallowed
    BY <1>7 DEF Die, DieAppending, DieInCheckpoint, Killed, files, entries
  <2>2. \A kind : FileOf(kind, r) # "ledger"
    BY WaveTrailAssumption DEF FileOf
  <2>3. "ledger" \in cut' => "ledger" \in cut
    BY <1>7, <2>2 DEF Die, DieAppending, DieInCheckpoint, files, logs
  <2> QED
    BY <1>2, <1>3, <2>1, <2>3
<1>8. CASE AppendOther \/ UNCHANGED vars
  <2>1. swallowed' = swallowed /\ interrupted' = interrupted /\ cut' \subseteq cut
    BY <1>8 DEF AppendOther, vars, files, entries, logs
  <2> QED
    BY <1>2, <2>1
<1> QED
  BY <1>4, <1>5, <1>6, <1>7, <1>8 DEF Next, Death

(* A stamp is covered, or its wave is at work, was interrupted or has lost   *)
(* its entry.                                                                *)
LEMMA StampStep == ASSUME TrailInv, [Next]_vars PROVE StampedIsCovered'
<1> DEFINE lost == interrupted \cup swallowed
           Stamped == \A t \in Tickets : LET r == stamp[t] IN r # NoStamp =>
                        \/ \E e \in ledger : e.run = r /\ t \in e.plan
                        \/ pc[r] # "off" /\ t \in plan[r]
                        \/ <<r, t>> \in lost
<1> SUFFICES Stamped'
  BY HalfStep DEF StampedIsCovered
<1>0. Stamped
  BY DEF TrailInv, StampedIsCovered
<1> USE <1>0 DEF TrailInv, TypeOK, Goto
<1>1. ASSUME NEW r \in RunIds, Begin(r) PROVE Stamped'
  <2>1. pc[r] = "off" /\ UNCHANGED <<stamp, ledger, lost>>
    BY <1>1 DEF Begin, files, entries
  <2>2. \A s \in RunIds \ {r} : pc'[s] = pc[s] /\ plan'[s] = plan[s]
    BY <1>1 DEF Begin
  <2> SUFFICES ASSUME NEW t \in Tickets, stamp[t] # NoStamp
               PROVE  \/ \E e \in ledger : e.run = stamp[t] /\ t \in e.plan
                      \/ pc'[stamp[t]] # "off" /\ t \in plan'[stamp[t]]
                      \/ <<stamp[t], t>> \in lost
    BY <2>1
  <2>3. stamp[t] \in RunIds
    OBVIOUS
  <2> QED
    BY <2>1, <2>2, <2>3
<1>2. ASSUME NEW r \in RunIds, Stamp(r) PROVE Stamped'
  <2>1. PICK S \in SUBSET plan[r] :
          stamp' = [t \in Tickets |-> IF t \in S THEN r ELSE stamp[t]]
    BY <1>2 DEF Stamp
  <2>2. UNCHANGED <<plan, ledger, lost>>
    BY <1>2 DEF Stamp, files, entries
  <2>3. \A s \in RunIds : pc[s] # "off" => pc'[s] # "off"
    BY <1>2 DEF Stamp
  <2>4. pc'[r] # "off"
    BY <1>2 DEF Stamp
  <2> SUFFICES ASSUME NEW t \in Tickets, stamp'[t] # NoStamp
               PROVE  \/ \E e \in ledger : e.run = stamp'[t] /\ t \in e.plan
                      \/ pc'[stamp'[t]] # "off" /\ t \in plan[stamp'[t]]
                      \/ <<stamp'[t], t>> \in lost
    BY <2>2
  <2>5. CASE t \in S
    BY <2>1, <2>4, <2>5
  <2>6. CASE t \notin S
    <3>1. stamp'[t] = stamp[t] /\ stamp[t] \in RunIds
      BY <2>1, <2>6
    <3> QED
      BY <2>3, <3>1
  <2> QED
    BY <2>5, <2>6
<1>3. ASSUME NEW r \in RunIds, pc[r] # "off", Abort(r), stamp' = stamp,
             ledger \subseteq ledger', swallowed \subseteq swallowed'
      PROVE  Stamped'
  <2> SUFFICES ASSUME NEW t \in Tickets, stamp[t] # NoStamp
               PROVE  \/ \E e \in ledger' : e.run = stamp[t] /\ t \in e.plan
                      \/ pc'[stamp[t]] # "off" /\ t \in plan'[stamp[t]]
                      \/ <<stamp[t], t>> \in lost'
    BY <1>3
  <2>1. stamp[t] = r /\ t \in plan[r] => <<stamp[t], t>> \in lost'
    BY <1>3 DEF Abort
  <2>2. stamp[t] # r => pc'[stamp[t]] = pc[stamp[t]] /\ plan'[stamp[t]] = plan[stamp[t]]
    BY <1>3 DEF Abort
  <2>3. lost \subseteq lost' /\ ledger \subseteq ledger'
    BY <1>3 DEF Abort
  <2> HIDE DEF lost
  <2> QED
    BY <2>1, <2>2, <2>3
<1>4. ASSUME NEW r \in RunIds, Record(r) PROVE Stamped'
  <2>1. /\ ledger \subseteq ledger' /\ lost \subseteq lost'
        /\ \/ {r} \X plan[r] \subseteq lost'
           \/ EntryOf(r) \in ledger' /\ EntryOf(r).run = r /\ EntryOf(r).plan = plan[r]
    BY <1>4 DEF Record, AddEntry, EntryOf
  <2>2. \A s \in RunIds \ {r} : pc'[s] = pc[s] /\ plan'[s] = plan[s]
    BY <1>4 DEF Record
  <2>3. stamp' = stamp
    BY <1>4 DEF Record
  <2> HIDE DEF lost
  <2> SUFFICES ASSUME NEW t \in Tickets, stamp[t] # NoStamp
               PROVE  \/ \E f \in ledger' : f.run = stamp[t] /\ t \in f.plan
                      \/ pc'[stamp[t]] # "off" /\ t \in plan'[stamp[t]]
                      \/ <<stamp[t], t>> \in lost'
    BY <2>3
  <2>4. CASE stamp[t] = r /\ t \in plan[r]
    <3>1. <<r, t>> \in {r} \X plan[r]
      BY <2>4
    <3> QED
      BY <2>1, <2>4, <3>1
  <2>5. CASE stamp[t] # r
    BY <2>1, <2>2, <2>5
  <2>6. CASE stamp[t] = r /\ t \notin plan[r]
    BY <2>1, <2>6
  <2> QED
    BY <2>4, <2>5, <2>6
<1>5. ASSUME NEW r \in RunIds,
             UNCHANGED <<plan, stamp, ledger, lost>>,
             pc[r] # "off", NEW there \in PCs \ {"off"}, pc' = [pc EXCEPT ![r] = there]
      PROVE  Stamped'
  BY <1>5
<1>6. ASSUME NEW r \in RunIds, OpenCheckpoint(r) \/ Work(r) \/ EmitStart(r) \/ EmitEnd(r)
                               \/ Complete(r) \/ CloseCheckpoint(r)
      PROVE  Stamped'
  BY <1>5, <1>6 DEF OpenCheckpoint, Work, EmitStart, EmitEnd, Complete, CloseCheckpoint,
                    NextTicket, files, entries, PCs
<1>7. ASSUME NEW r \in RunIds, CheckpointRaises(r) \/ WorkFails(r) \/ Death(r)
      PROVE  Stamped'
  <2>1. pc[r] # "off" /\ Abort(r)
    BY <1>7 DEF CheckpointRaises, WorkFails, Death, Die, DieAppending, DieRecording,
                DieInCheckpoint, Killed
  <2>2. ledger \subseteq ledger' /\ swallowed \subseteq swallowed' /\ stamp' = stamp
    BY <1>7 DEF CheckpointRaises, WorkFails, Death, Die, DieAppending, DieRecording,
                DieInCheckpoint, AddEntry, files, entries
  <2> QED
    BY <1>3, <2>1, <2>2
<1>8. CASE AppendOther \/ UNCHANGED vars
  BY <1>8 DEF AppendOther, vars, files, entries
<1> QED
  BY <1>1, <1>2, <1>4, <1>6, <1>7, <1>8 DEF Next, Step

-------------------------------------------------------------------------------
(* What the numbers of waves and the recorded states have in common: nothing
   changes them but Begin, the checkpoints, Record and the end of a wave.     *)
LEMMA RecoveryKept ==
  ASSUME TrailInv, UNCHANGED <<cp, ledger>>, starts' = starts,
         \A r \in RunIds : pc'[r] # "off" => pc[r] # "off" /\ wave'[r] = wave[r],
         \A r \in RunIds : pc'[r] = "record" =>
           pc[r] = "record" /\ plan'[r] = plan[r] /\ final'[r] = final[r]
  PROVE  Recovery'
<1> USE DEF TrailInv, Recovery
<1>1. \A r, w, t : StateAt(r, w, t)' = StateAt(r, w, t) /\ (Readable(r, w)' <=> Readable(r, w))
  BY DEF StateAt, Naming, Readable, Waves
<1>2. NumbersFresh'
  BY DEF NumbersFresh
<1>3. \A r \in RunIds : pc'[r] = "record" => wave'[r] = wave[r]
  OBVIOUS
<1>4. RecordingRecoverable'
  <2> SUFFICES ASSUME NEW r \in RunIds, pc'[r] = "record"
               PROVE  /\ Readable(r, wave[r])'
                      /\ \A t \in plan'[r] : StateAt(r, wave[r], t)' = final'[r][t]
    BY DEF RecordingRecoverable, Recovered
  <2>1. Readable(r, wave[r])' <=> Readable(r, wave[r])
    BY <1>3 DEF Readable, Waves
  <2>2. \A t : Naming(r, wave[r], t)' = Naming(r, wave[r], t)
    BY <1>3 DEF Naming, Waves
  <2>3. \A t : StateAt(r, wave[r], t)' = StateAt(r, wave[r], t)
    BY <2>2 DEF StateAt
  <2> QED
    BY <2>1, <2>3 DEF RecordingRecoverable, Recovered
<1>5. RecordedStatesRecoverable'
  BY <1>1 DEF RecordedStatesRecoverable
<1> QED
  BY <1>2, <1>4, <1>5

(* A file written changes no state before its wave, nor of another run id.    *)
LEMMA PastKept ==
  ASSUME NEW r \in RunIds, NEW w0 \in Nat,
         \A s \in RunIds, v \in 1 .. MaxStarts : ~ (s = r /\ v = w0) => cp'[s][v] = cp[s][v],
         NEW s \in RunIds, NEW w \in Nat, s # r \/ w < w0
  PROVE  /\ Readable(s, w)' <=> Readable(s, w)
         /\ \A t : StateAt(s, w, t)' = StateAt(s, w, t)
<1>1. \A v \in Waves(w) : cp'[s][v] = cp[s][v]
  BY WaveTrailAssumption DEF Waves
<1>2. Readable(s, w)' <=> Readable(s, w)
  BY <1>1 DEF Readable, Waves
<1>3. \A t : Naming(s, w, t)' = Naming(s, w, t)
  BY <1>1 DEF Naming, Waves
<1>4. ASSUME NEW t PROVE StateAt(s, w, t)' = StateAt(s, w, t)
  <2> DEFINE S == Naming(s, w, t)
  <2>1. StateAt(s, w, t) = IF S = {} THEN "none" ELSE cp[s][Max(S)][t]
    BY DEF StateAt
  <2>2. StateAt(s, w, t)' = IF S = {} THEN "none" ELSE cp'[s][Max(S)][t]
    BY <1>3 DEF StateAt
  <2>3. S \in SUBSET (0 .. w) /\ S \subseteq Waves(w)
    BY DEF Naming, Waves
  <2> HIDE DEF S
  <2>4. S # {} => Max(S) \in Waves(w)
    BY <2>3, BoundedMax
  <2> QED
    BY <1>1, <2>1, <2>2, <2>4
<1> QED
  BY <1>2, <1>4

(* A checkpoint, whole or half, leaves the recorded states as they were, and
   those of the other waves that are about to be recorded.                    *)
LEMMA CheckpointKeepsOthers ==
  ASSUME TrailInv, NEW r \in RunIds, pc[r] # "off",
         \A s \in RunIds, v \in 1 .. MaxStarts :
           ~ (s = r /\ v = wave[r]) => cp'[s][v] = cp[s][v],
         UNCHANGED <<ledger, starts>>,
         \A s \in RunIds : pc'[s] # "off" => pc[s] # "off" /\ wave'[s] = wave[s],
         \A s \in RunIds \ {r} : pc'[s] = "record" =>
           pc[s] = "record" /\ plan'[s] = plan[s] /\ final'[s] = final[s]
  PROVE  /\ NumbersFresh' /\ RecordedStatesRecoverable'
         /\ \A s \in RunIds \ {r} : pc'[s] = "record" =>
              Readable(s, wave[s])' /\ \A t \in plan'[s] : StateAt(s, wave[s], t)' = final'[s][t]
<1> USE DEF TrailInv, Recovery
<1>1. NumbersFresh'
  BY DEF NumbersFresh
<1>2. wave[r] \in Nat /\ \A s \in RunIds : wave[s] \in Nat
  BY WaveTrailAssumption DEF TypeOK
<1>3. RecordedStatesRecoverable'
  <2> SUFFICES ASSUME NEW e \in ledger
               PROVE  /\ Readable(e.run, e.wave)'
                      /\ \A t \in e.plan : StateAt(e.run, e.wave, t)' = e.states[t]
    BY DEF RecordedStatesRecoverable
  <2>1. e.run \in RunIds /\ e.wave \in Nat
    BY DEF TypeOK, Entry
  <2>2. e.run # r \/ e.wave < wave[r]
    BY DEF NumbersFresh
  <2>3. /\ Readable(e.run, e.wave)' <=> Readable(e.run, e.wave)
        /\ \A t : StateAt(e.run, e.wave, t)' = StateAt(e.run, e.wave, t)
    BY <1>2, <2>1, <2>2, PastKept
  <2> QED
    BY <2>3 DEF RecordedStatesRecoverable
<1>4. ASSUME NEW s \in RunIds \ {r}, pc'[s] = "record"
      PROVE  Readable(s, wave[s])' /\ \A t \in plan'[s] : StateAt(s, wave[s], t)' = final'[s][t]
  <2>1. wave'[s] = wave[s] /\ pc[s] = "record"
    BY <1>4
  <2> DEFINE w == wave[s]
  <2>2. w \in Nat /\ w = wave'[s]
    BY <1>2, <2>1
  <2>3. Readable(s, w) /\ \A t \in plan[s] : StateAt(s, w, t) = final[s][t]
    BY <2>1 DEF RecordingRecoverable, Recovered
  <2>4. PICK v \in Nat : v = wave[s]
    BY <2>2
  <2>5. /\ Readable(s, v)' <=> Readable(s, v)
        /\ \A t : StateAt(s, v, t)' = StateAt(s, v, t)
    BY <1>2, PastKept
  <2>6. (Readable(s, wave[s])' <=> Readable(s, v)')
        /\ \A t : StateAt(s, wave[s], t)' = StateAt(s, v, t)'
    BY <2>1, <2>4 DEF Readable, StateAt, Naming
  <2> QED
    BY <1>4, <2>3, <2>4, <2>5, <2>6
<1> QED
  BY <1>1, <1>3, <1>4

LEMMA RecoveryStep == ASSUME TrailInv, [Next]_vars PROVE Recovery'
<1> USE DEF TrailInv
<1>1. ASSUME NEW r \in RunIds, Begin(r) PROVE Recovery'
  <2>1. NextWave \in 1 .. starts + 1 /\ \A e \in ledger : e.wave < NextWave
    BY NextWaveIs DEF Recovery
  <2>2. /\ starts' = starts + 1 /\ starts \in Nat /\ UNCHANGED <<cp, ledger, final>>
        /\ wave' = [wave EXCEPT ![r] = NextWave] /\ pc' = [pc EXCEPT ![r] = "open"]
        /\ \A s \in RunIds \ {r} : plan'[s] = plan[s]
    BY <1>1, WaveTrailAssumption DEF Begin, Goto, files, entries, TypeOK
  <2>3. NumbersFresh'
    <3>1. \A e \in ledger : e.wave \in 1 .. starts'
      BY <2>2 DEF NumbersFresh, Recovery
    <3>2. ASSUME NEW s \in RunIds, pc'[s] # "off"
          PROVE  wave'[s] \in 1 .. starts' /\ \A e \in ledger : e.run = s => e.wave < wave'[s]
      <4>1. CASE s = r
        BY <2>1, <2>2, <4>1 DEF TypeOK
      <4>2. CASE s # r
        BY <2>2, <3>2, <4>2 DEF NumbersFresh, Recovery, TypeOK
      <4> QED
        BY <4>1, <4>2
    <3> QED
      BY <2>2, <3>1, <3>2 DEF NumbersFresh
  <2>4. RecordingRecoverable'
    <3> SUFFICES ASSUME NEW s \in RunIds, pc'[s] = "record"
                 PROVE  /\ Readable(s, wave[s])'
                        /\ \A t \in plan'[s] : StateAt(s, wave[s], t)' = final'[s][t]
      BY DEF RecordingRecoverable, Recovered
    <3>1. s # r /\ pc[s] = "record" /\ wave'[s] = wave[s] /\ plan'[s] = plan[s]
      BY <2>2 DEF TypeOK
    <3>2. Readable(s, wave[s])' <=> Readable(s, wave[s])
      BY <2>2, <3>1 DEF Readable, Waves
    <3>3. \A t : Naming(s, wave[s], t)' = Naming(s, wave[s], t)
      BY <2>2, <3>1 DEF Naming, Waves
    <3>4. \A t : StateAt(s, wave[s], t)' = StateAt(s, wave[s], t)
      BY <2>2, <3>3 DEF StateAt
    <3> QED
      BY <2>2, <3>1, <3>2, <3>4 DEF RecordingRecoverable, Recovered, Recovery
  <2>5. RecordedStatesRecoverable'
    <3>1. \A s, w, t : StateAt(s, w, t)' = StateAt(s, w, t) /\ (Readable(s, w)' <=> Readable(s, w))
      BY <2>2 DEF StateAt, Naming, Readable, Waves
    <3> QED
      BY <2>2, <3>1 DEF RecordedStatesRecoverable, Recovery
  <2> QED
    BY <2>3, <2>4, <2>5 DEF Recovery
<1>2. ASSUME NEW r \in RunIds,
             \/ CheckpointRaises(r) \/ Stamp(r) \/ Work(r) \/ WorkFails(r)
             \/ EmitStart(r) \/ EmitEnd(r) \/ Complete(r) \/ Die(r) \/ DieAppending(r)
      PROVE  Recovery'
  <2> USE <1>2 DEF CheckpointRaises, Stamp, Work, WorkFails, EmitStart, EmitEnd, Complete,
                   Die, DieAppending, Killed, Abort, NextTicket, Goto, files, entries, logs
  <2>1. UNCHANGED <<cp, ledger, starts>>
    OBVIOUS
  <2>2. \A s \in RunIds : pc'[s] # "off" => pc[s] # "off" /\ wave'[s] = wave[s]
    BY DEF TypeOK
  <2>3. \A s \in RunIds : pc'[s] = "record" =>
          pc[s] = "record" /\ plan'[s] = plan[s] /\ final'[s] = final[s]
    BY DEF TypeOK
  <2> QED
    BY <2>1, <2>2, <2>3, RecoveryKept
<1>3. ASSUME NEW r \in RunIds, OpenCheckpoint(r) PROVE Recovery'
  <2>1. \A s \in RunIds, v \in 1 .. MaxStarts :
          ~ (s = r /\ v = wave[r]) => cp'[s][v] = cp[s][v]
    BY <1>3 DEF OpenCheckpoint, WriteCheckpoint, TypeOK
  <2>2. /\ UNCHANGED <<ledger, starts, wave, plan, final>> /\ pc[r] # "off"
        /\ pc' = [pc EXCEPT ![r] = "stamp"]
    BY <1>3 DEF OpenCheckpoint, Goto, entries
  <2>3. \A s \in RunIds : pc'[s] = "record" => s # r /\ pc[s] = "record"
    BY <2>2 DEF TypeOK
  <2>4. \A s \in RunIds : pc'[s] # "off" => pc[s] # "off"
    BY <2>2 DEF TypeOK
  <2> QED
    BY <2>1, <2>2, <2>3, <2>4, CheckpointKeepsOthers DEF Recovery, RecordingRecoverable, Recovered
<1>4. ASSUME NEW r \in RunIds, DieInCheckpoint(r) PROVE Recovery'
  <2>1. \A s \in RunIds, v \in 1 .. MaxStarts :
          ~ (s = r /\ v = wave[r]) => cp'[s][v] = cp[s][v]
    BY <1>4 DEF DieInCheckpoint, TypeOK
  <2>2. /\ UNCHANGED <<ledger, starts>> /\ pc[r] # "off"
        /\ pc' = [pc EXCEPT ![r] = "off"]
        /\ \A s \in RunIds \ {r} : wave'[s] = wave[s] /\ plan'[s] = plan[s] /\ final'[s] = final[s]
    BY <1>4 DEF DieInCheckpoint, Killed, Abort, Goto, TypeOK, entries
  <2>3. \A s \in RunIds : pc'[s] # "off" => s # r /\ pc[s] = pc'[s]
    BY <2>2 DEF TypeOK
  <2> QED
    BY <2>1, <2>2, <2>3, CheckpointKeepsOthers DEF Recovery, RecordingRecoverable, Recovered
<1>5. ASSUME NEW r \in RunIds, CloseCheckpoint(r) PROVE Recovery'
  <2>1. \A s \in RunIds, v \in 1 .. MaxStarts :
          ~ (s = r /\ v = wave[r]) => cp'[s][v] = cp[s][v]
    BY <1>5 DEF CloseCheckpoint, WriteCheckpoint, TypeOK
  <2>2. /\ UNCHANGED <<ledger, starts, wave, plan, final>> /\ pc[r] # "off"
        /\ pc' = [pc EXCEPT ![r] = "record"]
    BY <1>5 DEF CloseCheckpoint, Goto, entries
  <2>3. \A s \in RunIds : pc'[s] # "off" => pc[s] # "off"
    BY <2>2 DEF TypeOK
  <2>4. \A s \in RunIds \ {r} : pc'[s] = pc[s]
    BY <2>2
  <2>5. wave[r] \in 1 .. MaxStarts /\ final[r] \in [Tickets -> Status]
    BY <2>2, WaveTrailAssumption DEF Recovery, NumbersFresh, TypeOK
  <2>6. PICK w \in 1 .. MaxStarts : w = wave[r]
    BY <2>5
  <2>7. Readable(r, w)' /\ \A t \in plan[r] : StateAt(r, w, t)' = final[r][t]
    BY <1>5, <2>5, <2>6, DeltaRestores DEF CloseCheckpoint
  <2>8. (Readable(r, wave[r])' <=> Readable(r, w)')
        /\ \A t : StateAt(r, wave[r], t)' = StateAt(r, w, t)'
    BY <2>2, <2>6 DEF Readable, StateAt, Naming
  <2> QED
    BY <2>1, <2>2, <2>3, <2>4, <2>7, <2>8, CheckpointKeepsOthers
       DEF Recovery, RecordingRecoverable, Recovered
<1>6. ASSUME NEW r \in RunIds, Record(r) \/ DieRecording(r) PROVE Recovery'
  <2> DEFINE e == EntryOf(r)
  <2>1. /\ UNCHANGED <<cp, starts>> /\ pc[r] = "record" /\ ledger' \in {ledger, ledger \cup {e}}
        /\ e.run = r /\ e.wave = wave[r] /\ e.plan = plan[r] /\ e.states = final[r]
        /\ pc' = [pc EXCEPT ![r] = "off"]
        /\ \A s \in RunIds \ {r} : wave'[s] = wave[s] /\ plan'[s] = plan[s] /\ final'[s] = final[s]
    BY <1>6 DEF Record, DieRecording, Killed, Abort, AddEntry, EntryOf, entries, Goto, TypeOK
  <2> HIDE DEF e
  <2>2. \A s \in RunIds : pc'[s] # "off" => s # r /\ pc'[s] = pc[s]
    BY <2>1 DEF TypeOK
  <2>3. \A s, w, t : StateAt(s, w, t)' = StateAt(s, w, t) /\ (Readable(s, w)' <=> Readable(s, w))
    BY <2>1 DEF StateAt, Naming, Readable, Waves
  <2>4. NumbersFresh'
    BY <2>1, <2>2 DEF NumbersFresh, Recovery
  <2>5. RecordedStatesRecoverable'
    BY <2>1, <2>3 DEF RecordedStatesRecoverable, RecordingRecoverable, Recovered, Recovery
  <2>6. RecordingRecoverable'
    <3> SUFFICES ASSUME NEW s \in RunIds, pc'[s] = "record"
                 PROVE  /\ Readable(s, wave[s])'
                        /\ \A t \in plan'[s] : StateAt(s, wave[s], t)' = final'[s][t]
      BY DEF RecordingRecoverable, Recovered
    <3>1. pc[s] = "record" /\ wave'[s] = wave[s] /\ plan'[s] = plan[s] /\ final'[s] = final[s]
      BY <2>1, <2>2
    <3>2. Readable(s, wave[s])' <=> Readable(s, wave[s])
      BY <2>1, <3>1 DEF Readable, Waves
    <3>3. \A t : Naming(s, wave[s], t)' = Naming(s, wave[s], t)
      BY <2>1, <3>1 DEF Naming, Waves
    <3>4. \A t : StateAt(s, wave[s], t)' = StateAt(s, wave[s], t)
      BY <2>1, <3>3 DEF StateAt
    <3> QED
      BY <3>1, <3>2, <3>4 DEF RecordingRecoverable, Recovered, Recovery
  <2> QED
    BY <2>4, <2>5, <2>6 DEF Recovery
<1>7. CASE AppendOther \/ UNCHANGED vars
  BY <1>7, RecoveryKept DEF AppendOther, vars, files, entries
<1> QED
  BY <1>1, <1>2, <1>3, <1>4, <1>5, <1>6, <1>7 DEF Next, Step, Death

-------------------------------------------------------------------------------
LEMMA TrailInvariant == Spec => []TrailInv
<1>1. Init => TrailInv
  BY InitTrail
<1>2. TrailInv /\ [Next]_vars => TrailInv'
  BY TypeStep, OrderStep, StampStep, HalfStep, RecoveryStep DEF TrailInv
<1> QED
  BY <1>1, <1>2, PTL DEF Spec

(* Every step of the heartbeat, of its scheduler and of the break glass is a
   step of the trail, or leaves the trail alone.                              *)
THEOREM HeartbeatKeepsTrail == HSpec => Spec
<1>1. HInit => Init
  BY DEF HInit
<1>2. [HNext]_hvars => [Next]_vars
  <2>1. CASE Ask \/ ReadRails \/ Route \/ Expire \/ UNCHANGED hvars
    BY <2>1 DEF Ask, ReadRails, Route, Expire, hvars
  <2>2. CASE Activate
    BY <2>2 DEF Activate, Next
  <2>3. ASSUME NEW r \in RunIds, Launch(r) \/ WaveStep(r) PROVE Next
    BY <2>3 DEF Launch, WaveStep, Next
  <2> QED
    BY <2>1, <2>2, <2>3 DEF HNext
<1> QED
  BY <1>1, <1>2, PTL DEF HSpec, Spec

(* run_wave keeps the type of everything it writes and holds, under kills at
   any point.                                                                 *)
THEOREM TypeCorrect == Spec => []TypeOK
<1>1. TrailInv => TypeOK
  BY DEF TrailInv
<1> QED
  BY <1>1, TrailInvariant, PTL

(* From the checkpoints of its run id, fork_run rebuilds the states that a
   recorded wave ended with, for ever after it is recorded.                   *)
THEOREM RecordedIsRecoverable == Spec => []RecordedStatesRecoverable
<1>1. TrailInv => RecordedStatesRecoverable
  BY DEF TrailInv, Recovery
<1> QED
  BY <1>1, TrailInvariant, PTL

(* A final state in a checkpoint has its completion, that its run_end, and
   that its run_start, over any number of kills and restarts.                 *)
THEOREM TrailIsInOrder == Spec => []TrailInOrder
<1>1. TrailInv => TrailInOrder
  BY DEF TrailInv, Order
<1> QED
  BY <1>1, TrailInvariant, PTL

(* A stamp that no ledger entry covers is of a wave at work, of one that was
   interrupted, or of one whose entry append_wave_ledger_entry glued to the
   half line that an interrupted wave left.                                   *)
THEOREM StampIsCovered == Spec => []StampedIsCovered
<1>1. TrailInv => StampedIsCovered
  BY DEF TrailInv
<1> QED
  BY <1>1, TrailInvariant, PTL

(* What the router counts in flight is an emission in progress, one that was
   interrupted, or one whose end was glued to half a line.                    *)
THEOREM InFlightIsEmission == Spec => []InFlightIsHalfEmitted
<1>1. TrailInv => InFlightIsHalfEmitted
  <2> SUFFICES ASSUME TrailInv, NEW rt \in InFlight
               PROVE  \/ pc[rt[1]] = "end" /\ rt[2] = Min(left[rt[1]])
                      \/ rt \in interrupted
                      \/ <<"run_end", rt[1], rt[2]>> \in glued
    BY DEF InFlightIsHalfEmitted
  <2>1. rt \in RunIds \X Tickets /\ rt = <<rt[1], rt[2]>>
    BY DEF InFlight
  <2>2. /\ <<"run_start", rt[1], rt[2]>> \in records
        /\ <<"run_end", rt[1], rt[2]>> \notin records
    BY DEF InFlight
  <2> QED
    BY <2>1, <2>2 DEF TrailInv, Order, HalfEmitted, Written
<1> QED
  BY <1>1, TrailInvariant, PTL

(* Half a checkpoint below the next wave number was overtaken by another run
   id: the number its wave had was recorded by that one.                      *)
THEOREM HalfIsOvertaken == Spec => []HalfCheckpointOvertaken
<1>1. TrailInv => HalfCheckpointOvertaken
  <2> SUFFICES ASSUME TrailInv, NEW r \in RunIds, NEW w \in 1 .. MaxStarts,
                      cp[r][w] = Half, w < NextWave
               PROVE  \E e \in ledger : e.wave >= w /\ e.run # r
    BY DEF HalfCheckpointOvertaken
  <2>1. w \in Nat \ {0}
    BY WaveTrailAssumption
  <2>2. PICK e \in ledger : e.wave >= w
    BY <2>1, NextWaveIs DEF TrailInv, Recovery
  <2>3. e.run # r
    <3>1. e.wave \in Nat /\ Readable(e.run, e.wave)
      BY DEF TrailInv, TypeOK, Entry, Recovery, RecordedStatesRecoverable
    <3> QED
      BY <2>1, <2>2, <3>1 DEF Readable, Waves
  <2> QED
    BY <2>2, <2>3
<1> QED
  BY <1>1, TrailInvariant, PTL

(* An override in force when a tick begins holds that tick.                   *)
HeldInv ==
  /\ HTypeOK
  /\ under => override = "on" /\ tick \in {"idle", "asked", "held"}

LEMMA HeldInvariant == HSpec => []HeldInv
<1>1. Spec => []TypeOK
  BY TypeCorrect
<1>2. HInit /\ TypeOK => HeldInv
  BY DEF HInit, HeldInv, HTypeOK, Ticks
<1>3. HeldInv /\ TypeOK' /\ [HNext]_hvars => HeldInv'
  <2> SUFFICES ASSUME HeldInv, TypeOK', [HNext]_hvars PROVE HeldInv'
    OBVIOUS
  <2> USE DEF HeldInv, HTypeOK, Ticks
  <2>1. CASE Ask
    BY <2>1 DEF Ask
  <2>2. CASE ReadRails
    BY <2>2 DEF ReadRails
  <2>3. CASE Route
    <3>1. UNCHANGED <<override, under>> /\ tick' \in {"idle", "dispatch"}
      BY <2>3 DEF Route
    <3>2. under => tick' = "idle"
      BY <2>3 DEF Route
    <3> QED
      BY <3>1, <3>2
  <2>7. CASE Expire
    <3>1. override' = "off" /\ under' = FALSE /\ tick' = tick
      BY <2>7 DEF Expire
    <3> QED
      BY <3>1
  <2>4. CASE Activate
    BY <2>4 DEF Activate
  <2>5. ASSUME NEW r \in RunIds, Launch(r) \/ WaveStep(r) PROVE HeldInv'
    <3>1. UNCHANGED <<override, under>>
      BY <2>5 DEF Launch, WaveStep
    <3>2. tick' = tick \/ tick' = "idle"
      BY <2>5 DEF Launch, WaveStep
    <3> QED
      BY <3>1, <3>2
  <2>6. CASE UNCHANGED hvars
    BY <2>6 DEF hvars
  <2> QED
    BY <2>1, <2>2, <2>3, <2>4, <2>5, <2>6, <2>7 DEF HNext
<1> QED
  BY <1>1, <1>2, <1>3, HeartbeatKeepsTrail, PTL DEF HSpec

(* tick and the break glass keep their types beside the waves they start.     *)
THEOREM HeartbeatTyped == HSpec => []HTypeOK
<1>1. HeldInv => HTypeOK
  BY DEF HeldInv
<1> QED
  BY <1>1, HeldInvariant, PTL

(* The tick that begins under an override in force dispatches nothing: it is
   held when it reads the rails, and the override outlasts it or ends it.     *)
THEOREM OverrideHolds == HSpec => []OverrideStopsLaterTicks
<1>1. HeldInv => OverrideStopsLaterTicks
  BY DEF HeldInv, OverrideStopsLaterTicks
<1> QED
  BY <1>1, HeldInvariant, PTL
===============================================================================
