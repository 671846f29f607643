--------------------------- MODULE Dispatch_proofs ---------------------------
(* Proofs about Dispatch, for every number of tickets, attempts, threads and
   runs.                                                                      *)
EXTENDS Dispatch, FiniteSetTheorems, TLAPS

(* TypeOK made inductive: where the attempt counter stands.                   *)
TypeInv ==
  /\ TypeOK
  /\ \A t \in Tickets :
       /\ unit[t] = "queued" => attempt[t] = 0
       /\ unit[t] \in {"invoking", "recording", "recorded"} => attempt[t] \in Attempts

LEMMA InitTypeInv == Init => TypeInv
<1> SUFFICES ASSUME Init PROVE TypeInv
  OBVIOUS
<1>1. << >> \in Seq(Entry)
  OBVIOUS
<1>2. NoInvocations \in [Tickets -> [Attempts -> InvPCs]]
  BY DEF NoInvocations, InvPCs, Over
<1>3. NoInvocations \in [Tickets -> [Attempts -> {"none", "ok", "error"}]]
  BY DEF NoInvocations
<1>4. 0 \in 0 .. MaxAttempts /\ 0 \in 0 .. MaxRuns
  BY DispatchAssumption
<1>5. QED
  BY <1>1, <1>2, <1>3, <1>4 DEF Init, TypeInv, TypeOK, UnitPCs, Statuses

(* The two ways an attempt ends for its unit keep the unit's types.           *)
LEMMA ConcludeType ==
  ASSUME TypeInv, NEW t \in Tickets, NEW s \in Statuses,
         NEW c \in [Tickets -> [Attempts -> InvPCs]],
         unit[t] = "invoking", Conclude(t, s, c)
  PROVE  /\ unit' \in [Tickets -> UnitPCs]
         /\ attempt' \in [Tickets -> 0 .. MaxAttempts]
         /\ verdict' \in [Tickets -> Statuses]
         /\ inv' \in [Tickets -> [Attempts -> InvPCs]]
         /\ \A u \in Tickets :
              /\ unit'[u] = "queued" => attempt'[u] = 0
              /\ unit'[u] \in {"invoking", "recording", "recorded"} => attempt'[u] \in Attempts
<1> USE DispatchAssumption DEF TypeInv, TypeOK, Conclude, Submit, UnitPCs, InvPCs
<1>1. CASE s # "ok" /\ attempt[t] < MaxAttempts
  <2>1. attempt[t] + 1 \in Attempts /\ attempt[t] + 1 \in 0 .. MaxAttempts
    BY <1>1 DEF Attempts
  <2>2. attempt' = [attempt EXCEPT ![t] = @ + 1] /\ unit' = [unit EXCEPT ![t] = "invoking"]
    BY <1>1
  <2>3. inv' = [c EXCEPT ![t][attempt[t] + 1] = "submitted"]
    BY <1>1
  <2>4. QED
    BY <2>1, <2>2, <2>3
<1>2. CASE ~(s # "ok" /\ attempt[t] < MaxAttempts)
  BY <1>2
<1>3. QED
  BY <1>1, <1>2

LEMMA NextTypeInv == TypeInv /\ [Next]_vars => TypeInv'
<1> SUFFICES ASSUME TypeInv, [Next]_vars PROVE TypeInv'
  OBVIOUS
<1> USE DispatchAssumption DEF TypeInv, TypeOK, process, units, calls, log, work
<1>1. CASE UNCHANGED vars
  BY <1>1 DEF vars
<1>2. CASE StartWave
  BY <1>2 DEF StartWave, UnitPCs, Statuses, Settled
<1>3. CASE RefuseCorruptJournal \/ FinishWave
  BY <1>3 DEF RefuseCorruptJournal, FinishWave
<1>4. CASE Exit \/ Crash
  <2>1. /\ NoInvocations \in [Tickets -> [Attempts -> InvPCs]]
        /\ NoInvocations \in [Tickets -> [Attempts -> {"none", "ok", "error"}]]
    BY DEF NoInvocations, InvPCs, Over
  <2>2. /\ phase' = "idle"
        /\ unit' = [u \in Tickets |-> "none"]
        /\ inv' = NoInvocations /\ answer' = NoInvocations
        /\ UNCHANGED <<runs, attempt, verdict, journal, tree, built, lost>>
    BY <1>4 DEF Exit, Crash
  <2>3. torn' \in BOOLEAN
    BY <1>4 DEF Exit, Crash
  <2>4. orphan' \in [Tickets -> BOOLEAN] /\ abandoned' \in SUBSET Tickets
    BY <1>4 DEF Exit, Crash
  <2>5. QED
    BY <2>1, <2>2, <2>3, <2>4 DEF UnitPCs
<1>5. ASSUME NEW t \in Tickets, StartUnit(t)
      PROVE TypeInv'
  <2>1. attempt[t] + 1 \in Attempts /\ attempt[t] + 1 \in 0 .. MaxAttempts
    BY <1>5 DEF StartUnit, Attempts
  <2>2. QED
    BY <1>5, <2>1 DEF StartUnit, Submit, UnitPCs, InvPCs
<1>6. ASSUME NEW t \in Tickets, Collect(t)
      PROVE TypeInv'
  <2> DEFINE s == IF answer[t][attempt[t]] = "ok" THEN "ok" ELSE "failed"
  <2>1. s \in Statuses /\ Conclude(t, s, inv) /\ unit[t] = "invoking"
    BY <1>6 DEF Collect, Statuses
  <2>2. UNCHANGED <<process, answer, log, work, orphan, abandoned>>
    BY <1>6 DEF Collect
  <2> HIDE DEF s
  <2>3. QED
    BY <2>1, <2>2, ConcludeType
<1>7. ASSUME NEW t \in Tickets, Timeout(t)
      PROVE TypeInv'
  <2> DEFINE c == IF inv[t][attempt[t]] = "submitted"
                  THEN [inv EXCEPT ![t][attempt[t]] = "cancelled"] ELSE inv
  <2>1. "timeout" \in Statuses /\ Conclude(t, "timeout", c) /\ unit[t] = "invoking"
    BY <1>7 DEF Timeout, Statuses
  <2>2. c \in [Tickets -> [Attempts -> InvPCs]]
    BY DEF InvPCs, Over
  <2>3. /\ UNCHANGED <<process, answer, log, work, orphan>>
        /\ abandoned' \in SUBSET Tickets
    BY <1>7 DEF Timeout
  <2> HIDE DEF c
  <2>4. QED
    BY <2>1, <2>2, <2>3, ConcludeType
<1>8. ASSUME NEW t \in Tickets, Record(t) \/ RecordFails(t)
      PROVE TypeInv'
  <2>1. CASE Record(t)
    <3>1. [ticket |-> t, status |-> verdict[t]] \in Entry
      BY DEF Entry
    <3>2. QED
      BY <2>1, <3>1 DEF Record, UnitPCs, Settled
  <2>2. CASE RecordFails(t)
    <3>1. Append(journal, [ticket |-> t, status |-> verdict[t]]) \in Seq(Entry)
      BY DEF Entry
    <3>2. journal' \in Seq(Entry) /\ torn' \in BOOLEAN
      BY <2>2, <3>1 DEF RecordFails
    <3>3. QED
      BY <2>2, <3>2 DEF RecordFails, UnitPCs, Settled
  <2>3. QED
    BY <1>8, <2>1, <2>2
<1>9. ASSUME NEW t \in Tickets, NEW a \in Attempts, Invocation(t, a)
      PROVE TypeInv'
  <2>1. \A there \in InvPCs :
          GoOn(t, a, there) => inv' \in [Tickets -> [Attempts -> InvPCs]]
    BY DEF GoOn
  <2>2. \A r \in {"ok", "error"} :
          Answer(t, a, r) => answer' \in [Tickets -> [Attempts -> {"none", "ok", "error"}]]
    BY DEF Answer
  <2>3. inv' \in [Tickets -> [Attempts -> InvPCs]]
    <3>1. PICK there \in InvPCs : GoOn(t, a, there)
      BY <1>9 DEF Invocation, Teardown, Acquire, AcquireFails, AgentEnds, Check, Remove,
           RemoveRefused, ListIgnored, RemoveForced, ForceRefused, TeardownRaises,
           InvPCs, Live, Over
    <3>2. QED
      BY <2>1, <3>1
  <2>4. answer' \in [Tickets -> [Attempts -> {"none", "ok", "error"}]]
    <3>1. answer' = answer \/ \E r \in {"ok", "error"} : Answer(t, a, r)
      BY <1>9 DEF Invocation, Teardown, Acquire, AcquireFails, AgentEnds, Check, Remove,
           RemoveRefused, ListIgnored, RemoveForced, ForceRefused, TeardownRaises
    <3>2. QED
      BY <2>2, <3>1
  <2>5. /\ tree' \in [Tickets -> {"absent", "clean", "dirty"}]
        /\ built' \in [Tickets -> BOOLEAN]
        /\ lost' \in SUBSET Tickets
    BY <1>9 DEF Invocation, Teardown, Acquire, AcquireFails, AgentEnds, Check, Remove,
         RemoveRefused, ListIgnored, RemoveForced, ForceRefused, TeardownRaises
  <2>6. UNCHANGED <<process, units, log, orphan, abandoned>>
    BY <1>9 DEF Invocation, Teardown, Acquire, AcquireFails, AgentEnds, Check, Remove,
         RemoveRefused, ListIgnored, RemoveForced, ForceRefused, TeardownRaises
  <2>7. QED
    BY <2>3, <2>4, <2>5, <2>6
<1>10. ASSUME NEW t \in Tickets, Agent(t)
       PROVE TypeInv'
  BY <1>10 DEF Agent, Edit, Commit, Build, OrphanEnds
<1>11. QED
  BY <1>1, <1>2, <1>3, <1>4, <1>5, <1>6, <1>7, <1>8, <1>9, <1>10 DEF Next, Unit

(* Every variable keeps its type; in particular no unit starts an attempt
   beyond max_attempts.                                                       *)
THEOREM TypeCorrect == Spec => []TypeOK
<1>1. Spec => []TypeInv
  BY InitTypeInv, NextTypeInv, PTL DEF Spec
<1>2. TypeInv => TypeOK
  BY DEF TypeInv
<1>3. QED
  BY <1>1, <1>2, PTL
-------------------------------------------------------------------------------
(* A recorded success is final.                                               *)

HasOk(t) == \E i \in DOMAIN journal : journal[i] = [ticket |-> t, status |-> "ok"]

Unsettled == {"queued", "invoking", "recording"}

(* OkRecordedOnce made inductive: the tickets still being worked on are those
   without a success in the journal.                                          *)
JournalInv ==
  /\ TypeInv
  /\ OkRecordedOnce
  /\ \A t \in Tickets : unit[t] \in Unsettled => ~HasOk(t)

(* succeeded() finds every recorded success: nothing after it takes it back.  *)
LEMMA OkIsLatest ==
  ASSUME TypeOK, OkRecordedOnce, NEW t \in Tickets, HasOk(t)
  PROVE  LatestIs(t, "ok")
<1>1. PICK i \in DOMAIN journal : journal[i] = [ticket |-> t, status |-> "ok"]
  BY DEF HasOk
<1>2. journal[i].ticket = t /\ journal[i].status = "ok"
  BY <1>1
<1>3. DOMAIN journal \subseteq Nat
  BY DEF TypeOK
<1>4. \A j \in DOMAIN journal : j > i => journal[j].ticket # t
  BY <1>2, <1>3 DEF OkRecordedOnce
<1>5. QED
  BY <1>1, <1>4 DEF LatestIs

(* The steps that leave the journal alone and give no settled ticket back.    *)
LEMMA JournalUnchanged ==
  ASSUME JournalInv, TypeInv', journal' = journal,
         \A t \in Tickets : unit'[t] \in Unsettled => unit[t] \in Unsettled
  PROVE  JournalInv'
BY DEF JournalInv, OkRecordedOnce, HasOk

(* The record of a ticket is appended, and the thread knows it or gets an     *)
(* error all the same.                                                        *)
Recorded(t, there) ==
  /\ unit[t] = "recording"
  /\ unit' = [unit EXCEPT ![t] = there]
  /\ journal' = Append(journal, [ticket |-> t, status |-> verdict[t]])
  /\ UNCHANGED <<phase, attempt, verdict>>

LEMMA RecordCases ==
  ASSUME NEW t \in Tickets
  PROVE  /\ Record(t) => Recorded(t, "recorded")
         /\ RecordFails(t) => Recorded(t, "raised") \/ (RecordFails(t) /\ journal' = journal)
BY DEF Record, RecordFails, Recorded, process, units, calls, log, work

LEMMA RecordKeepsJournalInv ==
  ASSUME JournalInv, TypeInv', NEW t \in Tickets,
         NEW there \in {"recorded", "raised"}, Recorded(t, there)
  PROVE  JournalInv'
<1> DEFINE e == [ticket |-> t, status |-> verdict[t]]
<1>1. /\ journal \in Seq(Entry) /\ e \in Entry
      /\ journal' = Append(journal, e)
      /\ unit[t] = "recording" /\ unit' = [unit EXCEPT ![t] = there]
  BY DEF Recorded, JournalInv, TypeInv, TypeOK, Entry
<1>2. e.ticket = t
  OBVIOUS
<1> HIDE DEF e
<1>3. /\ Len(journal) \in Nat
      /\ DOMAIN journal = 1 .. Len(journal)
      /\ DOMAIN journal' = 1 .. Len(journal) + 1
      /\ journal'[Len(journal) + 1] = e
      /\ \A i \in 1 .. Len(journal) : journal'[i] = journal[i] /\ journal[i] \in Entry
  BY <1>1
<1>4. \A i \in 1 .. Len(journal) :
        journal[i].status = "ok" => journal[i].ticket # t
  <2> SUFFICES ASSUME NEW i \in 1 .. Len(journal),
                      journal[i].status = "ok", journal[i].ticket = t
               PROVE FALSE
    OBVIOUS
  <2>1. journal[i] = [ticket |-> t, status |-> "ok"]
    BY <1>3 DEF Entry
  <2>2. HasOk(t)
    BY <1>3, <2>1 DEF HasOk
  <2>3. QED
    BY <1>1, <2>2 DEF JournalInv, Unsettled
<1>5. OkRecordedOnce'
  <2> SUFFICES ASSUME NEW i \in DOMAIN journal', NEW j \in DOMAIN journal',
                      i < j, journal'[i].status = "ok"
               PROVE journal'[j].ticket # journal'[i].ticket
    BY DEF OkRecordedOnce
  <2>1. i \in 1 .. Len(journal) /\ journal'[i] = journal[i]
    BY <1>3
  <2>2. CASE j = Len(journal) + 1
    BY <1>2, <1>3, <1>4, <2>1, <2>2
  <2>3. CASE j # Len(journal) + 1
    <3>1. j \in 1 .. Len(journal) /\ journal'[j] = journal[j]
      BY <1>3, <2>3
    <3>2. QED
      BY <1>3, <2>1, <3>1 DEF JournalInv, OkRecordedOnce
  <2>4. QED
    BY <2>2, <2>3
<1>6. ASSUME NEW u \in Tickets, unit'[u] \in Unsettled
      PROVE ~HasOk(u)'
  <2>1. u # t /\ unit[u] \in Unsettled
    BY <1>1, <1>6 DEF JournalInv, TypeInv, TypeOK, Unsettled
  <2>2. ~HasOk(u)
    BY <2>1 DEF JournalInv
  <2>3. e # [ticket |-> u, status |-> "ok"]
    BY <1>2, <2>1
  <2>4. QED
    BY <1>3, <2>2, <2>3 DEF HasOk
<1>7. QED
  BY <1>5, <1>6 DEF JournalInv

LEMMA NextJournalInv == JournalInv /\ [Next]_vars => JournalInv'
<1> SUFFICES ASSUME JournalInv, [Next]_vars PROVE JournalInv'
  OBVIOUS
<1>1. TypeInv /\ TypeInv' /\ TypeOK
  BY NextTypeInv DEF JournalInv, TypeInv
<1>2. unit \in [Tickets -> UnitPCs]
  BY <1>1 DEF TypeOK
<1> USE DEF process, units, calls, log, work
<1>3. CASE UNCHANGED vars
  BY <1>1, <1>3, JournalUnchanged DEF vars
<1>4. CASE StartWave
  <2>1. journal' = journal /\ OkRecordedOnce
    BY <1>4 DEF StartWave, JournalInv
  <2>2. \A t \in Tickets : unit'[t] \in Unsettled => ~LatestIs(t, "ok")
    BY <1>4 DEF StartWave, Unsettled
  <2>3. \A t \in Tickets : unit'[t] \in Unsettled => ~HasOk(t)
    BY <1>1, <2>1, <2>2, OkIsLatest
  <2>4. OkRecordedOnce' /\ \A t \in Tickets : HasOk(t)' <=> HasOk(t)
    BY <2>1 DEF OkRecordedOnce, HasOk
  <2>5. QED
    BY <1>1, <2>3, <2>4 DEF JournalInv
<1>5. CASE RefuseCorruptJournal \/ FinishWave
  BY <1>1, <1>5, JournalUnchanged DEF RefuseCorruptJournal, FinishWave
<1>6. CASE Exit \/ Crash
  BY <1>1, <1>6, JournalUnchanged DEF Exit, Crash, Unsettled
<1>7. ASSUME NEW t \in Tickets, journal' = journal,
             StartUnit(t) \/ Collect(t) \/ Timeout(t) \/ RecordFails(t)
      PROVE JournalInv'
  <2>1. journal' = journal /\ unit[t] \in Unsettled
    BY <1>7 DEF StartUnit, Collect, Timeout, RecordFails, Unsettled
  <2>2. \A u \in Tickets : u # t => unit'[u] = unit[u]
    BY <1>2, <1>7 DEF StartUnit, Collect, Timeout, RecordFails, Conclude, Submit
  <2>3. QED
    BY <1>1, <2>1, <2>2, JournalUnchanged
<1>8. ASSUME NEW t \in Tickets, NEW there \in {"recorded", "raised"}, Recorded(t, there)
      PROVE JournalInv'
  BY <1>1, <1>8, RecordKeepsJournalInv
<1>9. ASSUME NEW t \in Tickets, Agent(t) \/ \E a \in Attempts : Invocation(t, a)
      PROVE JournalInv'
  <2>1. journal' = journal /\ unit' = unit
    BY <1>9 DEF Agent, Edit, Commit, Build, OrphanEnds, Invocation, Teardown, Acquire,
         AcquireFails, AgentEnds, Check, Remove, RemoveRefused, ListIgnored,
         RemoveForced, ForceRefused, TeardownRaises
  <2>2. QED
    BY <1>1, <2>1, JournalUnchanged
<1>10. ASSUME NEW t \in Tickets, Unit(t)
       PROVE JournalInv'
  <2>1. StartUnit(t) \/ Collect(t) \/ Timeout(t) => journal' = journal
    BY DEF StartUnit, Collect, Timeout
  <2>2. QED
    BY <1>7, <1>8, <1>10, <2>1, RecordCases DEF Unit
<1>11. QED
  BY <1>3, <1>4, <1>5, <1>6, <1>9, <1>10 DEF Next

LEMMA JournalInvariant == Spec => []JournalInv
<1>1. Init => JournalInv
  BY InitTypeInv DEF Init, JournalInv, OkRecordedOnce, Unsettled
<1>2. QED
  BY <1>1, NextJournalInv, PTL DEF Spec

(* succeeded and _run_unit: whatever is killed and however often the wave is
   run again, nothing is recorded of a ticket after its success.              *)
THEOREM OkIsFinal == Spec => []OkRecordedOnce
<1>1. JournalInv => OkRecordedOnce
  BY DEF JournalInv
<1>2. QED
  BY <1>1, JournalInvariant, PTL

(* An attempt is submitted for an unsettled ticket only.                      *)
LEMMA SubmitStep ==
  ASSUME TypeInv, [Next]_vars, NEW t \in Tickets, NEW a \in Attempts,
         inv'[t][a] = "submitted", inv[t][a] # "submitted"
  PROVE  unit[t] \in Unsettled
<1> USE DEF TypeInv, TypeOK, process, units, calls, log, work
<1>1. CASE UNCHANGED vars
  BY <1>1 DEF vars
<1>2. CASE StartWave \/ RefuseCorruptJournal \/ FinishWave \/ Exit \/ Crash
  <2>1. inv' = inv \/ inv' = NoInvocations
    BY <1>2 DEF StartWave, RefuseCorruptJournal, FinishWave, Exit, Crash
  <2>2. QED
    BY <2>1 DEF NoInvocations
<1>3. ASSUME NEW u \in Tickets, Unit(u)
      PROVE unit[t] \in Unsettled
  <2>1. CASE u = t
    <3>1. inv' = inv \/ unit[t] \in Unsettled
      BY <1>3, <2>1 DEF Unit, StartUnit, Collect, Timeout, Record, RecordFails, Unsettled
    <3>2. QED
      BY <3>1
  <2>2. CASE u # t
    <3>1. inv'[t] = inv[t]
      BY <1>3, <2>2 DEF Unit, StartUnit, Collect, Timeout, Record, RecordFails, Conclude
    <3>2. QED
      BY <3>1
  <2>3. QED
    BY <2>1, <2>2
<1>4. ASSUME NEW u \in Tickets, Agent(u)
      PROVE unit[t] \in Unsettled
  BY <1>4 DEF Agent, Edit, Commit, Build, OrphanEnds
<1>5. ASSUME NEW u \in Tickets, NEW b \in Attempts, Invocation(u, b)
      PROVE unit[t] \in Unsettled
  <2>1. PICK there \in InvPCs \ {"submitted"} : inv' = [inv EXCEPT ![u][b] = there]
    BY <1>5 DEF Invocation, Teardown, Acquire, AcquireFails, AgentEnds, Check, Remove,
         RemoveRefused, ListIgnored, RemoveForced, ForceRefused, TeardownRaises,
         GoOn, InvPCs, Live, Over
  <2>2. QED
    BY <2>1
<1>6. QED
  BY <1>1, <1>2, <1>3, <1>4, <1>5 DEF Next

(* dispatch_units: no attempt is submitted for a ticket whose success is in
   the journal.                                                               *)
THEOREM NoRedispatchHolds == Spec => NoRedispatch
<1> DEFINE Skipped == \A t \in Tickets : LatestIs(t, "ok") =>
                \A a \in Attempts : inv'[t][a] = "submitted" => inv[t][a] = "submitted"
<1>1. ASSUME JournalInv, [Next]_vars PROVE Skipped
  <2>1. \A t \in Tickets : LatestIs(t, "ok") => HasOk(t)
    BY DEF LatestIs, HasOk
  <2>2. \A t \in Tickets : HasOk(t) => unit[t] \notin Unsettled
    BY <1>1 DEF JournalInv
  <2>3. QED
    BY <1>1, <2>1, <2>2, SubmitStep DEF JournalInv
<1>2. JournalInv /\ [Next]_vars => [Skipped]_vars
  BY <1>1
<1>3. QED
  BY <1>2, JournalInvariant, PTL DEF Spec, NoRedispatch
-------------------------------------------------------------------------------
(* The verdicts.                                                              *)

LEMMA NextVerdict == TypeInv /\ VerdictJustified /\ [Next]_vars => VerdictJustified'
<1> SUFFICES ASSUME TypeInv, VerdictJustified, [Next]_vars, NEW t \in Tickets,
                    unit'[t] \in {"recording", "recorded"}
             PROVE  /\ verdict'[t] = "ok" => /\ inv'[t][attempt'[t]] = "returned"
                                             /\ answer'[t][attempt'[t]] = "ok"
                    /\ verdict'[t] # "ok" => attempt'[t] = MaxAttempts
  BY DEF VerdictJustified
<1> DEFINE Now == /\ unit[t] \in {"recording", "recorded"}
                  /\ attempt'[t] = attempt[t] /\ verdict'[t] = verdict[t]
           Same == Now /\ inv'[t] = inv[t] /\ answer'[t] = answer[t]
<1> USE DEF TypeInv, TypeOK, process, units, calls, log, work
<1>1. ASSUME Same
      PROVE  /\ verdict'[t] = "ok" => /\ inv'[t][attempt'[t]] = "returned"
                                      /\ answer'[t][attempt'[t]] = "ok"
             /\ verdict'[t] # "ok" => attempt'[t] = MaxAttempts
  BY <1>1 DEF VerdictJustified
<1>2. CASE UNCHANGED vars \/ RefuseCorruptJournal \/ FinishWave
  <2>1. Same
    BY <1>2 DEF vars, RefuseCorruptJournal, FinishWave
  <2> QED
    BY <1>1, <2>1
<1>3. CASE StartWave \/ Exit \/ Crash
  BY <1>3 DEF StartWave, Exit, Crash
<1>4. ASSUME NEW u \in Tickets, Unit(u), u # t
      PROVE  Same
  BY <1>4 DEF Unit, StartUnit, Collect, Timeout, Conclude, Submit, Record, RecordFails
<1>5. CASE StartUnit(t) \/ RecordFails(t)
  BY <1>5 DEF StartUnit, Submit, RecordFails
<1>6. CASE Collect(t)
  <2> DEFINE s == IF answer[t][attempt[t]] = "ok" THEN "ok" ELSE "failed"
  <2>1. /\ Conclude(t, s, inv) /\ inv[t][attempt[t]] = "returned" /\ answer' = answer
        /\ s = "ok" <=> answer[t][attempt[t]] = "ok"
    BY <1>6 DEF Collect
  <2> HIDE DEF s
  <2>2. ~(s # "ok" /\ attempt[t] < MaxAttempts)
    BY <2>1 DEF Conclude, Submit
  <2>3. attempt' = attempt /\ inv' = inv /\ verdict'[t] = s
    BY <2>1, <2>2 DEF Conclude
  <2>4. s # "ok" => attempt[t] = MaxAttempts
    BY <2>2, DispatchAssumption
  <2> QED
    BY <2>1, <2>3, <2>4
<1>7. CASE Timeout(t)
  <2>1. ~(attempt[t] < MaxAttempts)
    BY <1>7 DEF Timeout, Conclude, Submit
  <2>2. verdict'[t] = "timeout" /\ attempt' = attempt
    BY <1>7, <2>1 DEF Timeout, Conclude
  <2> QED
    BY <2>1, <2>2, DispatchAssumption
<1>8. CASE Record(t)
  <2>1. Same
    BY <1>8 DEF Record
  <2> QED
    BY <1>1, <2>1
<1>9. ASSUME NEW u \in Tickets, Agent(u)
      PROVE  Same
  BY <1>9 DEF Agent, Edit, Commit, Build, OrphanEnds
<1>10. ASSUME NEW u \in Tickets, NEW a \in Attempts, Invocation(u, a)
       PROVE  /\ verdict'[t] = "ok" => /\ inv'[t][attempt'[t]] = "returned"
                                       /\ answer'[t][attempt'[t]] = "ok"
              /\ verdict'[t] # "ok" => attempt'[t] = MaxAttempts
  <2>1. Now
    BY <1>10 DEF Invocation, Teardown, Acquire, AcquireFails, AgentEnds, Check, Remove,
         RemoveRefused, ListIgnored, RemoveForced, ForceRefused, TeardownRaises
  <2>2. inv[u][a] # "returned"
    BY <1>10 DEF Invocation, Teardown, Acquire, AcquireFails, AgentEnds, Check, Remove,
         RemoveRefused, ListIgnored, RemoveForced, ForceRefused, TeardownRaises, Live
  <2>3. ASSUME NEW b \in Attempts, inv[t][b] = "returned"
        PROVE  inv'[t][b] = inv[t][b] /\ answer'[t][b] = answer[t][b]
    <3>1. t # u \/ b # a
      BY <2>2, <2>3
    <3>2. \E there : inv' = [inv EXCEPT ![u][a] = there]
      BY <1>10 DEF Invocation, Teardown, Acquire, AcquireFails, AgentEnds, Check, Remove,
           RemoveRefused, ListIgnored, RemoveForced, ForceRefused, TeardownRaises, GoOn
    <3>3. answer' = answer \/ \E r : answer' = [answer EXCEPT ![u][a] = r]
      BY <1>10 DEF Invocation, Teardown, Acquire, AcquireFails, AgentEnds, Check, Remove,
           RemoveRefused, ListIgnored, RemoveForced, ForceRefused, TeardownRaises, Answer
    <3> QED
      BY <3>1, <3>2, <3>3
  <2>4. attempt[t] \in Attempts
    BY <2>1
  <2> QED
    BY <2>1, <2>3, <2>4 DEF VerdictJustified
<1> QED
  BY <1>1, <1>2, <1>3, <1>4, <1>5, <1>6, <1>7, <1>8, <1>9, <1>10 DEF Next, Unit

(* _run_unit: a success is the answer of the attempt that was waited for, a   *)
(* failure comes after the last attempt.                                      *)
THEOREM VerdictsAreJustified == Spec => []VerdictJustified
<1>1. Init => VerdictJustified
  BY DEF Init, VerdictJustified
<1>2. Spec => []TypeInv
  BY InitTypeInv, NextTypeInv, PTL DEF Spec
<1> QED
  BY <1>1, <1>2, NextVerdict, PTL DEF Spec
-------------------------------------------------------------------------------
(* What a wave reports.                                                       *)

(* LatestIs of any journal.                                                   *)
LastOf(j, t, s) ==
  \E i \in DOMAIN j :
    /\ j[i] = [ticket |-> t, status |-> s]
    /\ \A k \in DOMAIN j : k > i => j[k].ticket # t

(* A unit that is through with its ticket has the journal's last word on it.  *)
OutcomeInv ==
  /\ \A t \in Tickets : unit[t] \in {"resumed", "recorded"} => LastOf(journal, t, verdict[t])
  /\ phase = "done" => \A t \in Tickets : unit[t] \in {"resumed", "recorded"}

LEMMA AppendIsLast ==
  ASSUME NEW j \in Seq(Entry), NEW e \in Entry, NEW t \in Tickets
  PROVE  /\ \A s : e.ticket # t /\ LastOf(j, t, s) => LastOf(Append(j, e), t, s)
         /\ e.ticket = t => LastOf(Append(j, e), t, e.status)
<1> DEFINE j2 == Append(j, e)
<1>1. /\ Len(j) \in Nat
      /\ DOMAIN j = 1 .. Len(j)
      /\ DOMAIN j2 = 1 .. Len(j) + 1
      /\ j2[Len(j) + 1] = e
      /\ \A i \in 1 .. Len(j) : j2[i] = j[i]
  OBVIOUS
<1> HIDE DEF j2
<1>2. ASSUME NEW s, e.ticket # t, LastOf(j, t, s)  PROVE LastOf(j2, t, s)
  <2>1. PICK i \in DOMAIN j :
          /\ j[i] = [ticket |-> t, status |-> s]
          /\ \A k \in DOMAIN j : k > i => j[k].ticket # t
    BY <1>2 DEF LastOf
  <2>2. i \in DOMAIN j2 /\ j2[i] = [ticket |-> t, status |-> s]
    BY <1>1, <2>1
  <2>3. ASSUME NEW k \in DOMAIN j2, k > i  PROVE j2[k].ticket # t
    <3>1. CASE k = Len(j) + 1
      BY <1>1, <1>2, <3>1
    <3>2. CASE k # Len(j) + 1
      <4>1. k \in DOMAIN j /\ j2[k] = j[k]
        BY <1>1, <3>2
      <4> QED
        BY <2>1, <2>3, <4>1
    <3> QED
      BY <3>1, <3>2
  <2> QED
    BY <2>2, <2>3 DEF LastOf
<1>3. ASSUME e.ticket = t  PROVE LastOf(j2, t, e.status)
  <2>1. e = [ticket |-> t, status |-> e.status]
    BY <1>3 DEF Entry
  <2>2. /\ Len(j) + 1 \in DOMAIN j2
        /\ \A k \in DOMAIN j2 : ~(k > Len(j) + 1)
    BY <1>1
  <2> QED
    BY <1>1, <2>1, <2>2 DEF LastOf
<1> QED
  BY <1>2, <1>3 DEF j2

(* ... and nothing else becomes the last word.                                *)
LEMMA OtherLastKept ==
  ASSUME NEW j \in Seq(Entry), NEW e \in Entry, NEW u \in Tickets, NEW s, e.ticket # u
  PROVE  LastOf(Append(j, e), u, s) <=> LastOf(j, u, s)
<1> DEFINE j2 == Append(j, e)
<1>1. /\ DOMAIN j = 1 .. Len(j) /\ DOMAIN j2 = 1 .. Len(j) + 1 /\ Len(j) \in Nat
      /\ j2[Len(j) + 1] = e /\ \A i \in 1 .. Len(j) : j2[i] = j[i]
  OBVIOUS
<1> HIDE DEF j2
<1>2. ASSUME LastOf(j2, u, s)  PROVE LastOf(j, u, s)
  <2>1. PICK i \in DOMAIN j2 :
          /\ j2[i] = [ticket |-> u, status |-> s]
          /\ \A k \in DOMAIN j2 : k > i => j2[k].ticket # u
    BY <1>2 DEF LastOf
  <2>2. j2[i].ticket = u
    BY <2>1
  <2>3. i \in DOMAIN j
    BY <1>1, <2>2
  <2> QED
    BY <1>1, <2>1, <2>3 DEF LastOf
<1> QED
  BY <1>2, AppendIsLast DEF j2

LEMMA OwnLast ==
  ASSUME NEW j \in Seq(Entry), NEW e \in Entry, NEW s, LastOf(Append(j, e), e.ticket, s)
  PROVE  s = e.status
<1> DEFINE j2 == Append(j, e)
<1>1. /\ DOMAIN j2 = 1 .. Len(j) + 1 /\ Len(j) \in Nat /\ j2[Len(j) + 1] = e
  OBVIOUS
<1> HIDE DEF j2
<1>2. PICK i \in DOMAIN j2 :
        /\ j2[i] = [ticket |-> e.ticket, status |-> s]
        /\ \A k \in DOMAIN j2 : k > i => j2[k].ticket # e.ticket
  BY DEF LastOf, j2
<1>3. ~(Len(j) + 1 > i)
  BY <1>1, <1>2
<1>4. i = Len(j) + 1
  BY <1>1, <1>3
<1> QED
  BY <1>1, <1>2, <1>4

LEMMA NextOutcome == TypeInv /\ OutcomeInv /\ [Next]_vars => OutcomeInv'
<1> SUFFICES ASSUME TypeInv, OutcomeInv, [Next]_vars  PROVE OutcomeInv'
  OBVIOUS
<1> USE DEF TypeInv, TypeOK, process, units, calls, log, work
<1>1. ASSUME journal' = journal, phase' = phase \/ phase' # "done",
             \A t \in Tickets :
               \/ unit'[t] \notin {"resumed", "recorded"} /\ unit[t] \notin {"resumed", "recorded"}
               \/ phase' # "done" /\ unit'[t] \notin {"resumed", "recorded"}
               \/ unit'[t] = unit[t] /\ verdict'[t] = verdict[t]
      PROVE  OutcomeInv'
  BY <1>1 DEF OutcomeInv
<1>2. CASE UNCHANGED vars \/ RefuseCorruptJournal \/ Exit \/ Crash
  BY <1>1, <1>2 DEF vars, RefuseCorruptJournal, Exit, Crash
<1>3. CASE StartWave
  <2>1. journal' = journal /\ phase' # "done"
        /\ \A t \in Tickets : unit'[t] \in {"resumed", "recorded"} =>
             LastOf(journal, t, "ok") /\ verdict'[t] = "ok"
    BY <1>3 DEF StartWave, LatestIs, LastOf
  <2> QED
    BY <2>1 DEF OutcomeInv
<1>4. CASE FinishWave
  <2>1. /\ UNCHANGED <<journal, unit, verdict>>
        /\ phase' = "done" => \A t \in Tickets : unit[t] \in {"resumed", "recorded"}
    BY <1>4 DEF FinishWave, Settled
  <2> QED
    BY <2>1 DEF OutcomeInv
<1>5. ASSUME NEW t \in Tickets, journal' = journal,
             StartUnit(t) \/ Collect(t) \/ Timeout(t) \/ RecordFails(t)
      PROVE  OutcomeInv'
  <2>1. /\ UNCHANGED <<journal, phase>>
        /\ unit[t] \in {"queued", "invoking", "recording"}
        /\ unit'[t] \in {"invoking", "recording", "raised"}
        /\ \A u \in Tickets \ {t} : unit'[u] = unit[u] /\ verdict'[u] = verdict[u]
    BY <1>5 DEF StartUnit, Collect, Timeout, RecordFails, Conclude, Submit
  <2>2. phase # "done"
    BY <2>1 DEF OutcomeInv
  <2> QED
    BY <2>1, <2>2 DEF OutcomeInv
<1>6. ASSUME NEW t \in Tickets, NEW there \in {"recorded", "raised"}, Recorded(t, there)
      PROVE  OutcomeInv'
  <2> DEFINE e == [ticket |-> t, status |-> verdict[t]]
  <2>1. e \in Entry /\ journal' = Append(journal, e)
    BY <1>6 DEF Recorded, Entry
  <2>2. e.ticket = t /\ e.status = verdict[t]
    OBVIOUS
  <2>3. /\ unit[t] = "recording" /\ UNCHANGED <<phase, verdict>>
        /\ \A u \in Tickets \ {t} : unit'[u] = unit[u]
    BY <1>6 DEF Recorded
  <2> HIDE DEF e
  <2>4. /\ LastOf(journal', t, verdict[t])
        /\ \A u \in Tickets \ {t} : \A s :
             LastOf(journal, u, s) => LastOf(journal', u, s)
    BY <2>1, <2>2, AppendIsLast
  <2>5. phase # "done"
    BY <2>3 DEF OutcomeInv
  <2>6. LastOf(journal', t, verdict'[t]) /\ \A u \in Tickets \ {t} : verdict'[u] = verdict[u]
    BY <2>3, <2>4
  <2>7. ASSUME NEW u \in Tickets, unit'[u] \in {"resumed", "recorded"}
        PROVE  LastOf(journal', u, verdict'[u])
    <3>1. CASE u = t
      BY <2>6, <3>1
    <3>2. CASE u # t
      <4>1. LastOf(journal, u, verdict[u])
        BY <2>3, <2>7, <3>2 DEF OutcomeInv
      <4> QED
        BY <2>4, <2>6, <3>2, <4>1
    <3> QED
      BY <3>1, <3>2
  <2> QED
    BY <2>3, <2>5, <2>7 DEF OutcomeInv
<1>7. ASSUME NEW t \in Tickets, Agent(t) \/ \E a \in Attempts : Invocation(t, a)
      PROVE  OutcomeInv'
  <2>1. UNCHANGED <<journal, phase, unit, verdict>>
    BY <1>7 DEF Agent, Edit, Commit, Build, OrphanEnds, Invocation, Teardown, Acquire,
         AcquireFails, AgentEnds, Check, Remove, RemoveRefused, ListIgnored,
         RemoveForced, ForceRefused, TeardownRaises
  <2> QED
    BY <1>1, <2>1
<1>8. ASSUME NEW t \in Tickets, Unit(t)
      PROVE  OutcomeInv'
  <2>1. StartUnit(t) \/ Collect(t) \/ Timeout(t) => journal' = journal
    BY DEF StartUnit, Collect, Timeout
  <2> QED
    BY <1>5, <1>6, <1>8, <2>1, RecordCases DEF Unit
<1> QED
  BY <1>2, <1>3, <1>4, <1>7, <1>8 DEF Next

(* dispatch_units, _run_unit: no outcome is reported that is not the          *)
(* journal's last word on the ticket.                                         *)
THEOREM OutcomesAreRecorded == Spec => []OutcomesMatchJournal
<1>1. Init => OutcomeInv
  BY DEF Init, OutcomeInv
<1>2. Spec => []TypeInv
  BY InitTypeInv, NextTypeInv, PTL DEF Spec
<1>3. OutcomeInv => OutcomesMatchJournal
  BY DEF OutcomeInv, OutcomesMatchJournal, LatestIs, LastOf
<1> QED
  BY <1>1, <1>2, <1>3, NextOutcome, PTL DEF Spec
-------------------------------------------------------------------------------
(* The refinement of ResumableWave.                                           *)

(* While a ticket is being worked on, the process runs.                       *)
RunningInv == \A t \in Tickets : unit[t] \in Unsettled => phase = "running"

LEMMA NextRunning == TypeInv /\ RunningInv /\ [Next]_vars => RunningInv'
<1> SUFFICES ASSUME TypeInv, RunningInv, [Next]_vars  PROVE RunningInv'
  OBVIOUS
<1> USE DEF TypeInv, TypeOK, process, units, calls, log, work
<1>1. ASSUME phase' = phase,
             \A t \in Tickets : unit'[t] \in Unsettled => unit[t] \in Unsettled
      PROVE  RunningInv'
  BY <1>1 DEF RunningInv
<1>2. CASE UNCHANGED vars
  BY <1>1, <1>2 DEF vars
<1>3. CASE StartWave
  BY <1>3 DEF StartWave, RunningInv
<1>4. CASE RefuseCorruptJournal
  BY <1>4 DEF RefuseCorruptJournal, RunningInv
<1>5. CASE FinishWave
  <2>1. UNCHANGED unit /\ \A t \in Tickets : unit[t] \notin Unsettled
    BY <1>5 DEF FinishWave, Settled, Unsettled
  <2> QED
    BY <2>1 DEF RunningInv
<1>6. CASE Exit \/ Crash
  <2>1. unit' = [t \in Tickets |-> "none"]
    BY <1>6 DEF Exit, Crash
  <2> QED
    BY <2>1 DEF RunningInv, Unsettled
<1>7. ASSUME NEW t \in Tickets, Unit(t)  PROVE RunningInv'
  <2>1. phase' = phase /\ unit[t] \in Unsettled
    BY <1>7 DEF Unit, StartUnit, Collect, Timeout, Record, RecordFails, Unsettled
  <2>2. \A u \in Tickets \ {t} : unit'[u] = unit[u]
    BY <1>7 DEF Unit, StartUnit, Collect, Timeout, Record, RecordFails, Conclude, Submit
  <2> QED
    BY <1>1, <2>1, <2>2
<1>8. ASSUME NEW t \in Tickets, Agent(t) \/ \E a \in Attempts : Invocation(t, a)
      PROVE  RunningInv'
  <2>1. UNCHANGED <<phase, unit>>
    BY <1>8 DEF Agent, Edit, Commit, Build, OrphanEnds, Invocation, Teardown, Acquire,
         AcquireFails, AgentEnds, Check, Remove, RemoveRefused, ListIgnored,
         RemoveForced, ForceRefused, TeardownRaises
  <2> QED
    BY <1>1, <2>1
<1> QED
  BY <1>2, <1>3, <1>4, <1>5, <1>6, <1>7, <1>8 DEF Next

(* A journal has at most one last word on a ticket.                           *)
LEMMA OneLastWord ==
  ASSUME TypeOK, NEW t \in Tickets, NEW s \in Statuses, LatestIs(t, s)
  PROVE  LastWord(t) = s
<1>1. ASSUME NEW s2 \in Statuses, LatestIs(t, s2)  PROVE s2 = s
  <2>1. PICK i \in DOMAIN journal :
          /\ journal[i] = [ticket |-> t, status |-> s]
          /\ \A j \in DOMAIN journal : j > i => journal[j].ticket # t
    BY DEF LatestIs
  <2>2. PICK k \in DOMAIN journal :
          /\ journal[k] = [ticket |-> t, status |-> s2]
          /\ \A j \in DOMAIN journal : j > k => journal[j].ticket # t
    BY <1>1 DEF LatestIs
  <2>3. i \in Nat /\ k \in Nat
    BY <2>1, <2>2 DEF TypeOK
  <2>4. ~(k > i) /\ ~(i > k)
    BY <2>1, <2>2
  <2>5. i = k
    BY <2>3, <2>4
  <2> QED
    BY <2>1, <2>2, <2>5
<1>2. (CHOOSE s2 \in Statuses : LatestIs(t, s2)) = s
  BY <1>1
<1> QED
  BY <1>2 DEF LastWord

LEMMA LastWordIsOk ==
  ASSUME TypeOK, NEW t \in Tickets
  PROVE  LastWord(t) = "ok" <=> LatestIs(t, "ok")
<1>1. "ok" \in Statuses
  BY DEF Statuses
<1>2. LatestIs(t, "ok") => LastWord(t) = "ok"
  BY <1>1, OneLastWord
<1>3. ASSUME NEW s \in Statuses, LatestIs(t, s), LastWord(t) = "ok"  PROVE LatestIs(t, "ok")
  BY <1>3, OneLastWord
<1>4. LastWord(t) = "ok" => \E s \in Statuses : LatestIs(t, s)
  BY DEF LastWord
<1> QED
  BY <1>2, <1>3, <1>4

(* What ResumableWave sees of a state.                                        *)
Last   == [t \in Tickets |-> LastWord(t)]
Owed   == {t \in Tickets : phase = "running" /\ unit[t] \notin Settled}
Broken == phase = "running" /\ \E t \in Tickets : unit[t] = "raised"
Report == [t \in Tickets |-> IF phase = "done" THEN verdict[t] ELSE "none"]

(* The steps it does not see.                                                 *)
LEMMA Unseen ==
  ASSUME journal' = journal, attempt' = attempt,
         phase' = phase \/ {phase, phase'} \cap {"running", "done"} = {},
         phase = "running" => \A t \in Tickets :
           /\ unit'[t] \in Settled <=> unit[t] \in Settled
           /\ unit'[t] = "raised" <=> unit[t] = "raised",
         phase = "done" => verdict' = verdict
  PROVE  UNCHANGED Resumable!vars
<1>1. Last' = Last
  BY DEF Last, LastWord, LatestIs
<1>2. Owed' = Owed /\ Report' = Report /\ (phase' = "running") = (phase = "running")
  BY DEF Owed, Report
<1>3. Broken' = Broken
  BY DEF Broken
<1> QED
  BY <1>1, <1>2, <1>3 DEF Resumable!vars, Last, Owed, Broken, Report

(* The end of an attempt is the next attempt, or unseen.                      *)
LEMMA ConcludeView ==
  ASSUME TypeInv, RunningInv, NEW t \in Tickets, NEW s \in Statuses,
         NEW c \in [Tickets -> [Attempts -> InvPCs]],
         unit[t] = "invoking", Conclude(t, s, c), UNCHANGED <<phase, journal>>
  PROVE  [Resumable!Next]_(Resumable!vars)
<1> USE DispatchAssumption DEF TypeInv, TypeOK
<1>0. phase = "running" /\ phase' = "running"
  BY DEF RunningInv, Unsettled
<1>1. \A u \in Tickets :
        /\ unit'[u] \in Settled <=> unit[u] \in Settled
        /\ unit'[u] = "raised" <=> unit[u] = "raised"
  BY DEF Conclude, Submit, Settled
<1>2. CASE attempt' = attempt
  BY <1>0, <1>1, <1>2, Unseen
<1>3. CASE attempt' # attempt
  <2>1. attempt[t] < MaxAttempts /\ attempt' = [attempt EXCEPT ![t] = @ + 1]
    BY <1>3 DEF Conclude, Submit
  <2>2. /\ Last' = Last /\ Owed' = Owed /\ Report' = Report /\ t \in Owed
        /\ Broken' = Broken
    BY <1>0, <1>1 DEF Last, LastWord, LatestIs, Owed, Broken, Report, Settled
  <2>3. Resumable!Attempt(t)
    BY <1>0, <2>1, <2>2 DEF Resumable!Attempt, Last, Owed, Broken, Report
  <2> QED
    BY <2>3 DEF Resumable!Next
<1> QED
  BY <1>2, <1>3

(* The entry a thread appends is the record of its ticket and of no other.    *)
LEMMA RecordView ==
  ASSUME TypeInv, RunningInv, VerdictJustified, NEW t \in Tickets,
         NEW there \in {"recorded", "raised"}, Recorded(t, there),
         NEW v \in Statuses, v = verdict[t]
  PROVE  /\ there = "recorded" => Resumable!Record(t, v)
         /\ there = "raised" => Resumable!Stumble(t, v)
<1> USE DispatchAssumption DEF TypeInv, TypeOK, process, units, calls, log, work
<1> DEFINE e == [ticket |-> t, status |-> verdict[t]]
<1>1. /\ unit[t] = "recording" /\ unit' = [unit EXCEPT ![t] = there]
      /\ journal' = Append(journal, e) /\ e \in Entry
      /\ UNCHANGED <<phase, attempt, verdict>>
  BY DEF Recorded, Entry
<1>2. e.ticket = t /\ e.status = verdict[t]
  OBVIOUS
<1> HIDE DEF e
<1>3. phase = "running"
  BY <1>1 DEF RunningInv, Unsettled
<1>4. attempt[t] > 0 /\ (verdict[t] = "ok" \/ attempt[t] = MaxAttempts)
  BY <1>1 DEF VerdictJustified, Attempts
<1>5. /\ \A u, s : LatestIs(u, s) <=> LastOf(journal, u, s)
      /\ \A u, s : LatestIs(u, s)' <=> LastOf(journal', u, s)
  BY DEF LatestIs, LastOf
<1>6. ASSUME NEW u \in Tickets \ {t}  PROVE LastWord(u)' = LastWord(u)
  <2>1. ASSUME NEW s \in Statuses  PROVE LatestIs(u, s)' <=> LatestIs(u, s)
    <3>1. LastOf(journal', u, s) <=> LastOf(journal, u, s)
      BY <1>1, <1>2, OtherLastKept
    <3> QED
      BY <1>5, <3>1
  <2> QED
    BY <2>1 DEF LastWord
<1>7. LastWord(t)' = v
  <2>1. LatestIs(t, v)'
    <3>1. LastOf(journal', t, v)
      BY <1>1, <1>2, AppendIsLast
    <3> QED
      BY <1>5, <3>1
  <2>2. ASSUME NEW s \in Statuses, LatestIs(t, s)'  PROVE s = v
    <3>1. LastOf(Append(journal, e), e.ticket, s)
      BY <1>1, <1>2, <1>5, <2>2
    <3> QED
      BY <1>1, <1>2, <3>1, OwnLast
  <2>3. (CHOOSE s \in Statuses : LatestIs(t, s)') = v
    BY <2>1, <2>2
  <2> QED
    BY <2>1, <2>3 DEF LastWord
<1>8. Last' = [Last EXCEPT ![t] = v]
  BY <1>6, <1>7 DEF Last
<1>9. t \in Owed /\ Owed' = Owed \ {t} /\ Report' = Report
  BY <1>1, <1>3 DEF Owed, Report, Settled
<1>10. Resumable!Justified(t, v)
  BY <1>3, <1>4, <1>9 DEF Resumable!Justified, Owed
<1>11. CASE there = "recorded"
  <2>1. Broken' = Broken
    BY <1>1, <1>3, <1>11 DEF Broken
  <2> QED
    BY <1>1, <1>3, <1>8, <1>9, <1>10, <1>11, <2>1
    DEF Resumable!Record, Last, Owed, Broken, Report
<1>12. CASE there = "raised"
  <2>1. Broken'
    BY <1>1, <1>3, <1>12 DEF Broken
  <2> QED
    BY <1>1, <1>3, <1>8, <1>9, <1>10, <1>12, <2>1
    DEF Resumable!Stumble, Last, Owed, Broken, Report
<1> QED
  BY <1>11, <1>12

(* The record that raises and leaves no whole line.                           *)
LEMMA NoRecordView ==
  ASSUME TypeInv, RunningInv, VerdictJustified, NEW t \in Tickets,
         RecordFails(t), journal' = journal, NEW v \in Statuses, v = verdict[t]
  PROVE  Resumable!Stumble(t, v)
<1> USE DispatchAssumption DEF TypeInv, TypeOK, process, units, calls, log, work
<1>1. /\ unit[t] = "recording" /\ unit' = [unit EXCEPT ![t] = "raised"]
      /\ UNCHANGED <<phase, attempt, verdict>>
  BY DEF RecordFails
<1>2. phase = "running"
  BY <1>1 DEF RunningInv, Unsettled
<1>3. attempt[t] > 0 /\ (verdict[t] = "ok" \/ attempt[t] = MaxAttempts)
  BY <1>1 DEF VerdictJustified, Attempts
<1>4. Last' = Last
  BY DEF Last, LastWord, LatestIs
<1>5. t \in Owed /\ Owed' = Owed \ {t} /\ Report' = Report /\ Broken'
  BY <1>1, <1>2 DEF Owed, Report, Broken, Settled
<1>6. Resumable!Justified(t, v)
  BY <1>2, <1>3, <1>5 DEF Resumable!Justified, Owed
<1> QED
  BY <1>1, <1>2, <1>4, <1>5, <1>6
  DEF Resumable!Stumble, Last, Owed, Broken, Report

(* The starting, finishing and stopping of a run.                            *)
LEMMA WaveView ==
  ASSUME TypeInv, OutcomeInv, StartWave \/ FinishWave \/ Exit \/ Crash
  PROVE  [Resumable!Next]_(Resumable!vars)
<1> USE DEF TypeInv, TypeOK, process, units, calls, log, work
<1>1. CASE StartWave
  <2>1. /\ phase = "idle" /\ phase' = "running" /\ journal' = journal
        /\ attempt' = [t \in Tickets |-> 0]
        /\ \A t \in Tickets : unit'[t] \in Settled <=> LatestIs(t, "ok")
    BY <1>1 DEF StartWave, Settled
  <2>2. \A t \in Tickets : Last[t] = "ok" <=> LatestIs(t, "ok")
    BY LastWordIsOk DEF Last
  <2>3. Last' = Last
    BY <2>1 DEF Last, LastWord, LatestIs
  <2>4. Owed' = {t \in Tickets : Last[t] # "ok"}
    BY <2>1, <2>2 DEF Owed
  <2>5. ~Broken /\ ~Broken'
    BY <1>1 DEF StartWave, Broken
  <2>6. Report = [t \in Tickets |-> "none"] /\ Report' = Report
    BY <2>1 DEF Report
  <2>7. Resumable!Start
    BY <2>1, <2>3, <2>4, <2>5, <2>6
    DEF Resumable!Start, Resumable!Nothing, Last, Owed, Broken, Report
  <2> QED
    BY <2>7 DEF Resumable!Next
<1>2. CASE FinishWave /\ phase' = "done"
  <2>1. /\ phase = "running" /\ UNCHANGED <<unit, attempt, verdict, journal>>
        /\ \A t \in Tickets : unit[t] \in {"resumed", "recorded"}
    BY <1>2 DEF FinishWave, Settled
  <2>2. \A t \in Tickets : LatestIs(t, verdict[t])
    BY <2>1 DEF OutcomeInv, LatestIs, LastOf
  <2>3. \A t \in Tickets : LastWord(t) = verdict[t]
    BY <2>2, OneLastWord
  <2>4. Report' = Last
    BY <1>2, <2>1, <2>3 DEF Report, Last
  <2>5. /\ Last' = Last /\ Owed = {} /\ Owed' = {}
        /\ ~Broken /\ ~Broken'
    BY <1>2, <2>1 DEF Last, LastWord, LatestIs, Owed, Broken, Settled
  <2>6. Resumable!Finish
    BY <1>2, <2>1, <2>4, <2>5 DEF Resumable!Finish, Last, Owed, Broken, Report
  <2> QED
    BY <2>6 DEF Resumable!Next
<1>3. CASE phase' \in {"failed", "idle"} /\ (FinishWave \/ Exit \/ Crash)
  <2>1. UNCHANGED <<attempt, journal>>
    BY <1>3 DEF FinishWave, Exit, Crash
  <2>2. Last' = Last
    BY <2>1 DEF Last, LastWord, LatestIs
  <2>3. Owed' = {} /\ ~Broken' /\ Report' = [t \in Tickets |-> "none"]
    BY <1>3 DEF Owed, Broken, Report
  <2>4. Resumable!Stop
    BY <1>3, <2>1, <2>2, <2>3
    DEF Resumable!Stop, Resumable!Nothing, Last, Owed, Broken, Report
  <2> QED
    BY <2>4 DEF Resumable!Next
<1> QED
  BY <1>1, <1>2, <1>3 DEF FinishWave, Exit, Crash

(* Every step of Dispatch is a step of ResumableWave, or one it does not see. *)
LEMMA ResumableStep ==
  ASSUME TypeInv, RunningInv, VerdictJustified, OutcomeInv, [Next]_vars
  PROVE  [Resumable!Next]_(Resumable!vars)
<1> USE DEF TypeInv, TypeOK, process, units, calls, log, work
<1>1. CASE UNCHANGED vars
  BY <1>1, Unseen DEF vars
<1>2. CASE StartWave \/ FinishWave \/ Exit \/ Crash
  BY <1>2, WaveView
<1>3. CASE RefuseCorruptJournal
  BY <1>3, Unseen DEF RefuseCorruptJournal
<1>4. ASSUME NEW t \in Tickets, StartUnit(t)
      PROVE  [Resumable!Next]_(Resumable!vars)
  <2>1. /\ unit[t] = "queued" /\ unit' = [unit EXCEPT ![t] = "invoking"]
        /\ attempt' = [attempt EXCEPT ![t] = @ + 1]
        /\ UNCHANGED <<phase, verdict, journal>>
    BY <1>4 DEF StartUnit, Submit
  <2>2. phase = "running"
    BY <2>1 DEF RunningInv, Unsettled
  <2>3. attempt[t] < MaxAttempts
    BY <2>1, DispatchAssumption
  <2>4. /\ Last' = Last /\ Owed' = Owed /\ Report' = Report /\ t \in Owed
        /\ Broken' = Broken
    BY <2>1, <2>2 DEF Last, LastWord, LatestIs, Owed, Broken, Report, Settled
  <2>5. Resumable!Attempt(t)
    BY <2>1, <2>2, <2>3, <2>4 DEF Resumable!Attempt, Last, Owed, Broken, Report
  <2> QED
    BY <2>5 DEF Resumable!Next
<1>5. ASSUME NEW t \in Tickets, Collect(t)
      PROVE  [Resumable!Next]_(Resumable!vars)
  <2> DEFINE s == IF answer[t][attempt[t]] = "ok" THEN "ok" ELSE "failed"
  <2>1. s \in Statuses /\ Conclude(t, s, inv) /\ unit[t] = "invoking"
    BY <1>5 DEF Collect, Statuses
  <2>2. UNCHANGED <<phase, journal>>
    BY <1>5 DEF Collect
  <2> HIDE DEF s
  <2> QED
    BY <2>1, <2>2, ConcludeView
<1>6. ASSUME NEW t \in Tickets, Timeout(t)
      PROVE  [Resumable!Next]_(Resumable!vars)
  <2> DEFINE c == IF inv[t][attempt[t]] = "submitted"
                  THEN [inv EXCEPT ![t][attempt[t]] = "cancelled"] ELSE inv
  <2>1. "timeout" \in Statuses /\ Conclude(t, "timeout", c) /\ unit[t] = "invoking"
    BY <1>6 DEF Timeout, Statuses
  <2>2. c \in [Tickets -> [Attempts -> InvPCs]]
    BY DEF InvPCs, Over
  <2>3. UNCHANGED <<phase, journal>>
    BY <1>6 DEF Timeout
  <2> HIDE DEF c
  <2> QED
    BY <2>1, <2>2, <2>3, ConcludeView
<1>7. ASSUME NEW t \in Tickets, NEW there \in {"recorded", "raised"}, Recorded(t, there)
      PROVE  [Resumable!Next]_(Resumable!vars)
  <2>1. PICK s \in Statuses : s = verdict[t]
    OBVIOUS
  <2>2. Resumable!Record(t, s) \/ Resumable!Stumble(t, s)
    BY <1>7, <2>1, RecordView
  <2> QED
    BY <2>2 DEF Statuses, Resumable!Next
<1>8. ASSUME NEW t \in Tickets, RecordFails(t), journal' = journal
      PROVE  [Resumable!Next]_(Resumable!vars)
  <2>1. PICK s \in Statuses : s = verdict[t]
    OBVIOUS
  <2>2. Resumable!Stumble(t, s)
    BY <1>8, <2>1, NoRecordView
  <2> QED
    BY <2>2 DEF Statuses, Resumable!Next
<1>9. ASSUME NEW t \in Tickets, Agent(t) \/ \E a \in Attempts : Invocation(t, a)
      PROVE  [Resumable!Next]_(Resumable!vars)
  <2>1. UNCHANGED <<journal, phase, unit, attempt, verdict>>
    BY <1>9 DEF Agent, Edit, Commit, Build, OrphanEnds, Invocation, Teardown, Acquire,
         AcquireFails, AgentEnds, Check, Remove, RemoveRefused, ListIgnored,
         RemoveForced, ForceRefused, TeardownRaises
  <2> QED
    BY <2>1, Unseen
<1> QED
  BY <1>1, <1>2, <1>3, <1>4, <1>5, <1>6, <1>7, <1>8, <1>9, RecordCases DEF Next, Unit

(* dispatch_units, _run_unit, succeeded: however often a wave is killed and   *)
(* run again, its runs are those of ResumableWave.                            *)
THEOREM WaveIsResumable == Spec => ImplementsResumableWave
<1>1. Init => Resumable!Init
  <2> SUFFICES ASSUME Init  PROVE Resumable!Init
    OBVIOUS
  <2>1. \A t \in Tickets : LastWord(t) = "none"
    BY DEF Init, LastWord, LatestIs
  <2>2. /\ Last = [t \in Tickets |-> "none"] /\ Owed = {}
        /\ Report = [t \in Tickets |-> "none"] /\ ~Broken
    BY <2>1 DEF Init, Last, Owed, Broken, Report
  <2> QED
    BY <2>2 DEF Init, Resumable!Init, Resumable!Nothing, Last, Owed, Broken, Report
<1>2. Init => RunningInv /\ OutcomeInv
  BY DEF Init, RunningInv, OutcomeInv, Unsettled
<1>3. Spec => []TypeInv
  BY InitTypeInv, NextTypeInv, PTL DEF Spec
<1>4. Spec => [](RunningInv /\ OutcomeInv)
  BY <1>2, <1>3, NextRunning, NextOutcome, PTL DEF Spec
<1>5. TypeInv /\ RunningInv /\ VerdictJustified /\ OutcomeInv /\ [Next]_vars
        => [Resumable!Next]_(Resumable!vars)
  BY ResumableStep
<1> QED
  BY <1>1, <1>3, <1>4, <1>5, VerdictsAreJustified, PTL
  DEF Spec, ImplementsResumableWave, Resumable!Spec
-------------------------------------------------------------------------------
(* The worktrees.                                                             *)

(* Only the attempt that is waited for may begin or be at work, where none    *)
(* was given up; from the check of the worktree on, nobody edits it.          *)
SoleUser(t) ==
  /\ ~orphan[t]
  /\ \A a \in Attempts :
       /\ inv[t][a] \in Live \cup {"submitted"} => unit[t] = "invoking" /\ a = attempt[t]
       /\ inv[t][a] = "agent" => tree[t] # "absent"
       /\ inv[t][a] \in {"remove", "listed", "force"} => tree[t] # "dirty"

IdleInv ==
  phase = "idle" => \A t \in Tickets :
    unit[t] = "none" /\ \A a \in Attempts : inv[t][a] = "none"

WorktreeInv ==
  /\ IdleInv
  /\ \A t \in Tickets \ abandoned : SoleUser(t)
  /\ lost \subseteq abandoned

(* The steps of the threads of the units.                                     *)
LEMMA UnitKeepsWorktree ==
  ASSUME TypeInv, WorktreeInv, NEW t \in Tickets, Unit(t)
  PROVE  WorktreeInv'
<1> USE DispatchAssumption DEF TypeInv, TypeOK, process, units, calls, log, work
<1>1. /\ UNCHANGED <<phase, tree, lost, orphan>>
      /\ unit[t] # "none" /\ abandoned \subseteq abandoned'
      /\ \A u \in Tickets \ {t} :
           unit'[u] = unit[u] /\ attempt'[u] = attempt[u] /\ inv'[u] = inv[u]
  <2>1. CASE StartUnit(t)
    BY <2>1 DEF StartUnit, Submit
  <2>2. CASE Collect(t)
    BY <2>2 DEF Collect, Conclude, Submit
  <2>3. CASE Timeout(t)
    BY <2>3 DEF Timeout, Conclude, Submit
  <2>4. CASE Record(t) \/ RecordFails(t)
    BY <2>4 DEF Record, RecordFails
  <2> QED
    BY <2>1, <2>2, <2>3, <2>4 DEF Unit
<1>2. phase # "idle"
  BY <1>1 DEF WorktreeInv, IdleInv
<1>3. ASSUME t \notin abandoned', SoleUser(t), NEW a \in Attempts,
             inv'[t][a] \in Live \cup {"submitted"}
      PROVE  unit'[t] = "invoking" /\ a = attempt'[t] /\ (inv'[t][a] = inv[t][a] \/ inv'[t][a] = "submitted")
  <2>1. \A b \in Attempts : inv[t][b] \in Live \cup {"submitted"} =>
          unit[t] = "invoking" /\ b = attempt[t]
    BY <1>3 DEF SoleUser
  <2>2. CASE StartUnit(t)
    <3>1. attempt[t] = 0 /\ attempt'[t] = 1 /\ unit'[t] = "invoking" /\ unit[t] = "queued"
      BY <2>2 DEF StartUnit, Submit
    <3>2. inv' = [inv EXCEPT ![t][1] = "submitted"]
      BY <2>2 DEF StartUnit
    <3> QED
      BY <1>3, <2>1, <3>1, <3>2
  <2>3. ASSUME NEW s \in Statuses, NEW c \in [Tickets -> [Attempts -> InvPCs]],
               Conclude(t, s, c), unit[t] = "invoking",
               \A b \in Attempts : c[t][b] \notin Live \cup {"submitted"}
        PROVE  unit'[t] = "invoking" /\ a = attempt'[t] /\ inv'[t][a] = "submitted"
    <3>1. CASE s # "ok" /\ attempt[t] < MaxAttempts
      <4>1. /\ attempt'[t] = attempt[t] + 1 /\ unit'[t] = "invoking"
            /\ inv' = [c EXCEPT ![t][attempt[t] + 1] = "submitted"]
        BY <2>3, <3>1 DEF Conclude, Submit
      <4> QED
        BY <1>3, <2>3, <4>1
    <3>2. CASE ~(s # "ok" /\ attempt[t] < MaxAttempts)
      <4>1. inv' = c
        BY <2>3, <3>2 DEF Conclude
      <4> QED
        BY <1>3, <2>3, <4>1
    <3> QED
      BY <3>1, <3>2
  <2>4. CASE Collect(t)
    <3> DEFINE s == IF answer[t][attempt[t]] = "ok" THEN "ok" ELSE "failed"
    <3>1. /\ s \in Statuses /\ Conclude(t, s, inv) /\ unit[t] = "invoking"
          /\ inv[t][attempt[t]] = "returned"
      BY <2>4 DEF Collect, Statuses
    <3> HIDE DEF s
    <3>2. \A b \in Attempts : inv[t][b] \notin Live \cup {"submitted"}
      BY <2>1, <3>1 DEF Live
    <3> QED
      BY <2>3, <3>1, <3>2
  <2>5. CASE Timeout(t)
    <3>1. /\ unit[t] = "invoking" /\ inv[t][attempt[t]] = "submitted"
          /\ Conclude(t, "timeout", [inv EXCEPT ![t][attempt[t]] = "cancelled"])
      BY <1>3, <2>5 DEF Timeout
    <3> DEFINE c == [inv EXCEPT ![t][attempt[t]] = "cancelled"]
    <3>2. c \in [Tickets -> [Attempts -> InvPCs]]
      BY DEF InvPCs, Over
    <3>3. \A b \in Attempts : c[t][b] \notin Live \cup {"submitted"}
      <4>1. \A b \in Attempts : c[t][b] = IF b = attempt[t] THEN "cancelled" ELSE inv[t][b]
        OBVIOUS
      <4> HIDE DEF c
      <4> QED
        BY <2>1, <4>1 DEF Live
    <3>4. Conclude(t, "timeout", c) /\ "timeout" \in Statuses
      BY <3>1 DEF Statuses
    <3> HIDE DEF c
    <3> QED
      BY <2>3, <3>1, <3>2, <3>3, <3>4
  <2>6. CASE Record(t) \/ RecordFails(t)
    <3>1. unit[t] = "recording" /\ inv' = inv
      BY <2>6 DEF Record, RecordFails
    <3> QED
      BY <1>3, <2>1, <3>1
  <2> QED
    BY <2>2, <2>4, <2>5, <2>6 DEF Unit
<1>4. ASSUME NEW u \in Tickets \ abandoned'  PROVE SoleUser(u)'
  <2>1. SoleUser(u)
    BY <1>1, <1>4 DEF WorktreeInv
  <2>2. CASE u = t
    BY <1>1, <1>3, <1>4, <2>1, <2>2 DEF SoleUser, Live
  <2>3. CASE u # t
    BY <1>1, <2>1, <2>3 DEF SoleUser
  <2> QED
    BY <2>2, <2>3
<1>5. IdleInv' /\ lost' \subseteq abandoned'
  BY <1>1, <1>2 DEF IdleInv, WorktreeInv
<1> QED
  BY <1>4, <1>5 DEF WorktreeInv

(* The steps of an attempt: acquiring the worktree, the agent's end, the      *)
(* teardown.                                                                  *)
LEMMA InvocationKeepsWorktree ==
  ASSUME TypeInv, WorktreeInv, NEW t \in Tickets, NEW a \in Attempts, Invocation(t, a)
  PROVE  WorktreeInv'
<1> USE DEF TypeInv, TypeOK, process, units, calls, log, work
<1>1. /\ UNCHANGED <<phase, unit, attempt, orphan, abandoned>>
      /\ inv[t][a] \in Live \cup {"submitted"}
      /\ \A u \in Tickets \ {t} : inv'[u] = inv[u] /\ tree'[u] = tree[u]
      /\ \A b \in Attempts \ {a} : inv'[t][b] = inv[t][b]
      /\ inv'[t][a] # "submitted"
      /\ lost' \subseteq lost \cup {t}
      /\ t \in lost' => t \in lost \/ (tree[t] = "dirty" /\ inv[t][a] = "force")
  BY DEF Invocation, Teardown, Acquire, AcquireFails, AgentEnds, Check, Remove,
       RemoveRefused, ListIgnored, RemoveForced, ForceRefused, TeardownRaises, GoOn, Live
<1>2. /\ inv'[t][a] = "agent" => tree'[t] # "absent"
      /\ inv'[t][a] \in {"remove", "listed", "force"} =>
           \/ tree[t] = "clean" /\ tree'[t] = tree[t]
           \/ inv[t][a] \in {"remove", "listed"} /\ tree'[t] = tree[t]
  BY DEF Invocation, Teardown, Acquire, AcquireFails, AgentEnds, Check, Remove,
       RemoveRefused, ListIgnored, RemoveForced, ForceRefused, TeardownRaises, GoOn, Live
<1>3. IdleInv'
  <2>1. phase # "idle"
    BY <1>1 DEF WorktreeInv, IdleInv, Live
  <2> QED
    BY <1>1, <2>1 DEF IdleInv
<1>4. ASSUME t \notin abandoned  PROVE SoleUser(t)' /\ t \notin lost'
  <2>1. SoleUser(t) /\ t \notin lost
    BY <1>4 DEF WorktreeInv
  <2>2. unit[t] = "invoking" /\ a = attempt[t]
    BY <1>1, <2>1 DEF SoleUser
  <2>3. \A b \in Attempts \ {a} : inv'[t][b] \notin Live \cup {"submitted"}
    BY <1>1, <2>1, <2>2 DEF SoleUser
  <2>4. inv'[t][a] \in {"remove", "listed", "force"} => tree'[t] # "dirty"
    BY <1>2, <2>1 DEF SoleUser
  <2>5. ~orphan'[t]
    BY <1>1, <2>1 DEF SoleUser
  <2>6. SoleUser(t)'
    BY <1>1, <1>2, <2>2, <2>3, <2>4, <2>5 DEF SoleUser, Live
  <2> QED
    BY <1>1, <2>1, <2>6 DEF SoleUser
<1>5. ASSUME NEW u \in Tickets \ abandoned, u # t  PROVE SoleUser(u)'
  BY <1>1, <1>5 DEF WorktreeInv, SoleUser
<1> QED
  BY <1>1, <1>3, <1>4, <1>5 DEF WorktreeInv

LEMMA NextWorktree == TypeInv /\ WorktreeInv /\ [Next]_vars => WorktreeInv'
<1> SUFFICES ASSUME TypeInv, WorktreeInv, [Next]_vars  PROVE WorktreeInv'
  OBVIOUS
<1> USE DEF TypeInv, TypeOK, process, units, calls, log, work
<1>1. CASE UNCHANGED vars \/ RefuseCorruptJournal \/ FinishWave
  <2>1. /\ UNCHANGED <<unit, attempt, inv, tree, lost, orphan, abandoned>>
        /\ phase' = "idle" => phase = "idle"
    BY <1>1 DEF vars, RefuseCorruptJournal, FinishWave
  <2> QED
    BY <2>1 DEF WorktreeInv, IdleInv, SoleUser
<1>2. CASE StartWave
  <2>1. /\ phase = "idle" /\ phase' = "running"
        /\ UNCHANGED <<inv, tree, lost, orphan, abandoned>>
    BY <1>2 DEF StartWave
  <2>2. \A t \in Tickets, a \in Attempts : inv[t][a] = "none"
    BY <2>1 DEF WorktreeInv, IdleInv
  <2> QED
    BY <2>1, <2>2 DEF WorktreeInv, IdleInv, SoleUser, Live
<1>3. CASE Exit \/ Crash
  <2>1. /\ UNCHANGED <<tree, lost>> /\ abandoned \subseteq abandoned'
        /\ \A t \in Tickets \ abandoned' : orphan'[t] = orphan[t]
        /\ \A t \in Tickets : unit'[t] = "none"
        /\ inv' = NoInvocations
    BY <1>3 DEF Exit, Crash
  <2>2. \A t \in Tickets, a \in Attempts : inv'[t][a] = "none"
    BY <2>1 DEF NoInvocations
  <2> QED
    BY <2>1, <2>2 DEF WorktreeInv, IdleInv, SoleUser, Live
<1>4. ASSUME NEW t \in Tickets, Unit(t)  PROVE WorktreeInv'
  BY <1>4, UnitKeepsWorktree
<1>5. ASSUME NEW t \in Tickets, NEW a \in Attempts, Invocation(t, a)  PROVE WorktreeInv'
  BY <1>5, InvocationKeepsWorktree
<1>6. ASSUME NEW t \in Tickets, Agent(t)  PROVE WorktreeInv'
  <2>1. /\ UNCHANGED <<phase, unit, attempt, inv, lost, abandoned>>
        /\ \A u \in Tickets : orphan'[u] => orphan[u]
        /\ \A u \in Tickets \ {t} : tree'[u] = tree[u]
        /\ tree'[t] = tree[t] \/ (tree[t] # "absent" /\ tree'[t] # "absent")
        /\ tree'[t] = "dirty" => tree[t] = "dirty" \/ AtWork(t) \/ orphan[t]
    BY <1>6 DEF Agent, Edit, Commit, Build, OrphanEnds
  <2>2. ASSUME NEW u \in Tickets \ abandoned  PROVE SoleUser(u)'
    <3>1. SoleUser(u)
      BY DEF WorktreeInv
    <3>2. CASE u # t
      BY <2>1, <3>1, <3>2 DEF SoleUser
    <3>3. CASE u = t
      <4>1. \A a \in Attempts : inv[t][a] \in {"remove", "listed", "force"} => ~AtWork(t) /\ ~orphan[t]
        BY <3>1, <3>3 DEF SoleUser, AtWork, Live
      <4> QED
        BY <2>1, <3>1, <3>3, <4>1 DEF SoleUser
    <3> QED
      BY <3>2, <3>3
  <2> QED
    BY <2>1, <2>2 DEF WorktreeInv, IdleInv
<1> QED
  BY <1>1, <1>2, <1>3, <1>4, <1>5, <1>6 DEF Next

LEMMA WorktreeInvariant == Spec => []WorktreeInv
<1>1. Init => WorktreeInv
  BY DEF Init, WorktreeInv, IdleInv, SoleUser, NoInvocations, Live
<1>2. Spec => []TypeInv
  BY InitTypeInv, NextTypeInv, PTL DEF Spec
<1> QED
  BY <1>1, <1>2, NextWorktree, PTL DEF Spec

(* invoke_with_config: where no attempt was given up while it ran, a worktree *)
(* has one user at a time and stays where it is under a working agent.        *)
THEOREM WorktreesAreIsolated == Spec => []IsolatedUnlessAbandoned
<1>1. ASSUME WorktreeInv  PROVE IsolatedUnlessAbandoned
  <2> SUFFICES ASSUME NEW t \in Tickets \ abandoned
               PROVE  Cardinality(Users(t)) <= 1 /\ (AtWork(t) => tree[t] # "absent")
    BY DEF IsolatedUnlessAbandoned
  <2>1. SoleUser(t)
    BY <1>1 DEF WorktreeInv
  <2>2. Users(t) \in SUBSET {attempt[t]}
    BY <2>1 DEF SoleUser, Users
  <2>3. IsFiniteSet({attempt[t]}) /\ Cardinality({attempt[t]}) = 1
    BY FS_Singleton
  <2>4. Cardinality(Users(t)) <= 1
    BY <2>2, <2>3, FS_Subset
  <2>5. AtWork(t) => tree[t] # "absent"
    BY <2>1 DEF SoleUser, AtWork
  <2> QED
    BY <2>4, <2>5
<1> QED
  BY <1>1, WorktreeInvariant, PTL

(* remove_git_worktree: uncommitted work is destroyed only of a ticket with   *)
(* an attempt that was given up while it ran.                                 *)
THEOREM LossIsOfAbandoned == Spec => []LossNeedsAbandonment
<1>1. WorktreeInv => LossNeedsAbandonment
  BY DEF WorktreeInv, LossNeedsAbandonment
<1> QED
  BY <1>1, WorktreeInvariant, PTL
===============================================================================
