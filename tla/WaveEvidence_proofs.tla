-------------------------- MODULE WaveEvidence_proofs --------------------------
(***************************************************************************)
(* The wave ledger of WaveEvidence, for any run ids, any number of starts, *)
(* overlapping or not, and any cut lines: its entries are chained, its     *)
(* waves are 1..K, those of one run id only increase, what run_wave has    *)
(* recorded reconciles, and a receipt's link outlives overlapping waves.   *)
(***************************************************************************)
EXTENDS WaveEvidence, WellFoundedInduction, TLAPS

Active(r) == pc[r] \notin Ended
LastIs(K) == RecordedWaves = 1 .. K

(* A process under the ledger's lock has read the tip the ledger still has. *)
LockHeld ==
  \A r \in RunIds : pc[r] = "locked" => holder = {r} /\ ltip[r] = Len(ledger)

(* The number of a wave that runs was the next one when it was given.       *)
NumberGiven ==
  \E K \in Nat : LastIs(K) /\ \A r \in RunIds : Active(r) => wave[r] \in 1 .. K + 1

(* ... and is beyond every wave its run id has recorded.                    *)
NumberFresh ==
  \A r \in RunIds : Active(r) =>
    \A i \in DOMAIN ledger : ledger[i].run = r => ledger[i].wave < wave[r]

(* Receipts are of starts there have been, so that one is the latest.       *)
StartsCounted ==
  /\ \A r \in RunIds : born[r] <= starts
  /\ \A r \in RunIds : receipts[r] # NoReceipt => receipts[r].start <= starts

LedgerInv ==
  TypeOK /\ StartsCounted /\ LockHeld /\ LedgerChained /\ NumberGiven /\ NumberFresh /\ RunWavesIncrease

-------------------------------------------------------------------------------
(* A set of numbers below a bound has a greatest element.                   *)
LEMMA BoundedMax ==
  ASSUME NEW n \in Nat, NEW S \in SUBSET (0 .. n), S # {}
  PROVE  Max(S) \in S /\ \A y \in S : Max(S) >= y
<1> DEFINE Below == {n - x : x \in S}
<1>1. Below \subseteq Nat /\ Below # {}
  <2>1. \A x \in S : x \in 0 .. n /\ n - x \in Nat
    OBVIOUS
  <2>2. PICK x \in S : TRUE
    OBVIOUS
  <2>3. n - x \in Below
    BY <2>2
  <2> QED
    BY <2>1, <2>3
<1>2. PICK m \in Below : \A k \in Below : <<k, m>> \notin OpToRel(<, Nat)
  BY <1>1, WFMin, NatLessThanWellFounded, Zenon
<1>3. \A k \in Below : ~ k < m
  BY <1>1, <1>2 DEF OpToRel
<1>4. PICK x \in S : m = n - x
  BY <1>2
<1>5. \A y \in S : x >= y
  <2> TAKE y \in S
  <2>1. ~ (n - y < n - x)
    BY <1>3, <1>4
  <2> QED
    BY <2>1
<1> QED
  BY <1>4, <1>5 DEF Max

(* The tip a receipt is chained to is 0 or a receipt's number.              *)
LEMMA ChainTipType ==
  ASSUME TypeOK, StartsCounted, NEW r \in RunIds
  PROVE  ChainTip(r) \in Receipts(RunIds \ {r}) \cup {0} /\ ChainTip(r) \in Nat
<1>1. Receipts(RunIds \ {r}) \cup {0} \subseteq 0 .. starts
  <2>1. starts \in Nat /\ \A s \in RunIds : receipts[s] # NoReceipt => receipts[s].start \in Nat
    BY DEF TypeOK, Receipt
  <2>2. \A s \in RunIds : receipts[s] # NoReceipt => receipts[s].start \in 0 .. starts
    BY <2>1 DEF StartsCounted
  <2> QED
    BY <2>1, <2>2 DEF Receipts
<1>2. starts \in Nat
  BY DEF TypeOK
<1> DEFINE Tips == Receipts(RunIds \ {r}) \cup {0}
<1>3. Tips \in SUBSET (0 .. starts) /\ Tips # {}
  BY <1>1
<1>4. ChainTip(r) = Max(Tips)
  BY DEF ChainTip
<1> HIDE DEF Tips
<1>5. Max(Tips) \in Tips
  BY <1>2, <1>3, BoundedMax
<1>6. Max(Tips) \in Nat
  <2>1. \A x \in 0 .. starts : x \in Nat
    BY <1>2
  <2> QED
    BY <1>3, <1>5, <2>1
<1> QED
  BY <1>4, <1>5, <1>6 DEF Tips

(* The next wave number is one more than the last recorded.                 *)
LEMMA NextIs ==
  ASSUME NEW K \in Nat, LastIs(K)
  PROVE  Max(RecordedWaves \cup {0}) = K /\ NextWaveNumber = K + 1
<1>1. RecordedWaves \cup {0} = 0 .. K
  BY DEF LastIs
<1>2. \A x \in 0 .. K : (\A y \in 0 .. K : x >= y) => x = K
  OBVIOUS
<1>3. K \in 0 .. K /\ \A y \in 0 .. K : K >= y
  OBVIOUS
<1>4. Max(0 .. K) = K
  BY <1>2, <1>3 DEF Max
<1> QED
  BY <1>1, <1>4 DEF NextWaveNumber

(* What appending an entry does to the recorded waves.                      *)
LEMMA WavesAppended ==
  ASSUME ledger \in Seq(Entry), NEW e \in Entry, ledger' = Append(ledger, e)
  PROVE  RecordedWaves' = RecordedWaves \cup {e.wave}
<1>1. DOMAIN ledger = 1 .. Len(ledger) /\ DOMAIN ledger' = 1 .. Len(ledger) + 1
      /\ Len(ledger) \in Nat
  OBVIOUS
<1>2. ledger'[Len(ledger) + 1] = e
  OBVIOUS
<1>3. \A i \in DOMAIN ledger : ledger'[i] = ledger[i]
  OBVIOUS
<1>4. DOMAIN ledger' = DOMAIN ledger \cup {Len(ledger) + 1}
  BY <1>1
<1> QED
  BY <1>1, <1>2, <1>3, <1>4 DEF RecordedWaves

LEMMA InitLedger == ASSUME Init PROVE LedgerInv
<1> USE DEF Init, Ended
<1>1. TypeOK
  BY WaveEvidenceAssumption DEF TypeOK, PCs
<1>2. StartsCounted /\ LockHeld /\ LedgerChained /\ NumberFresh /\ RunWavesIncrease
  BY DEF StartsCounted, LockHeld, LedgerChained, NumberFresh, RunWavesIncrease, Active
<1>3. LastIs(0) /\ 0 \in Nat
  BY DEF LastIs, RecordedWaves
<1>4. NumberGiven
  BY <1>3 DEF NumberGiven, Active
<1> QED
  BY <1>1, <1>2, <1>4 DEF LedgerInv

(* A line reaches the file only under the lock.                             *)
LEMMA LineAdded ==
  ASSUME LedgerInv, NEW r \in RunIds, pc[r] = "locked", AddLine(r),
         pc' \in [RunIds -> PCs], \A s \in RunIds \ {r} : pc'[s] = pc[s],
         pc'[r] \in Ended, wave' = wave, ltip' = ltip, holder' = holder \ {r}
  PROVE  LockHeld' /\ LedgerChained' /\ NumberGiven' /\ NumberFresh' /\ RunWavesIncrease'
<1> USE DEF LedgerInv, TypeOK
<1> DEFINE e == EntryOf(r)
<1>1. e \in Entry /\ e.wave = wave[r] /\ e.run = r /\ e.prev = ltip[r]
  BY DEF EntryOf, Entry
<1>2. holder = {r} /\ ltip[r] = Len(ledger)
  BY DEF LockHeld
<1>3. LockHeld'
  <2>1. \A s \in RunIds : pc'[s] # "locked"
    BY <1>2 DEF LockHeld, Ended
  <2> QED
    BY <2>1 DEF LockHeld
<1>4. \A s \in RunIds : Active(s)' => Active(s) /\ s # r
  BY DEF Active
<1>5. Active(r)
  BY DEF Active, Ended
<1>6. CASE ledger' = ledger
  <2>1. LedgerChained' /\ RunWavesIncrease'
    BY <1>6 DEF LedgerChained, RunWavesIncrease
  <2>2. NumberGiven' /\ NumberFresh'
    BY <1>6, <1>4 DEF NumberGiven, NumberFresh, LastIs, RecordedWaves
  <2> QED
    BY <1>3, <2>1, <2>2
<1>7. CASE ledger' = Append(ledger, e)
  <2> HIDE DEF e
  <2>1. DOMAIN ledger = 1 .. Len(ledger) /\ DOMAIN ledger' = 1 .. Len(ledger) + 1
        /\ Len(ledger) \in Nat
    BY <1>1, <1>7
  <2>2. ledger'[Len(ledger) + 1] = e /\ \A i \in DOMAIN ledger : ledger'[i] = ledger[i]
    BY <1>1, <1>7
  <2>3. LedgerChained'
    <3> SUFFICES ASSUME NEW i \in DOMAIN ledger' PROVE ledger'[i].prev = i - 1
      BY DEF LedgerChained
    <3>1. CASE i \in DOMAIN ledger
      BY <2>2, <3>1 DEF LedgerChained
    <3>2. CASE i = Len(ledger) + 1
      BY <1>1, <1>2, <2>1, <2>2, <3>2
    <3> QED
      BY <2>1, <3>1, <3>2
  <2>5. RunWavesIncrease'
    <3> SUFFICES ASSUME NEW i \in DOMAIN ledger', NEW j \in DOMAIN ledger',
                        i < j, ledger'[i].run = ledger'[j].run
                 PROVE  ledger'[i].wave < ledger'[j].wave
      BY DEF RunWavesIncrease
    <3>1. i \in DOMAIN ledger
      BY <2>1
    <3>2. CASE j \in DOMAIN ledger
      BY <2>2, <3>1, <3>2 DEF RunWavesIncrease
    <3>3. CASE j = Len(ledger) + 1
      BY <1>1, <1>5, <2>2, <3>1, <3>3 DEF NumberFresh
    <3> QED
      BY <2>1, <3>2, <3>3
  <2>6. NumberFresh'
    <3> SUFFICES ASSUME NEW s \in RunIds, Active(s)', NEW i \in DOMAIN ledger',
                        ledger'[i].run = s
                 PROVE  ledger'[i].wave < wave[s]
      BY DEF NumberFresh
    <3>1. Active(s) /\ s # r
      BY <1>4
    <3>2. i \in DOMAIN ledger
      <4>1. i # Len(ledger) + 1
        BY <1>1, <2>2, <3>1
      <4> QED
        BY <2>1, <4>1
    <3> QED
      BY <2>2, <3>1, <3>2 DEF NumberFresh
  <2>7. NumberGiven'
    <3>1. PICK K \in Nat :
            LastIs(K) /\ \A s \in RunIds : Active(s) => wave[s] \in 1 .. K + 1
      BY DEF NumberGiven
    <3>2. RecordedWaves' = 1 .. K \cup {wave[r]} /\ wave[r] \in 1 .. K + 1
      BY <1>1, <1>5, <1>7, <3>1, WavesAppended DEF LastIs
    <3>3. LastIs(K)' \/ LastIs(K + 1)'
      BY <3>2 DEF LastIs
    <3>4. \A s \in RunIds : Active(s)' => wave'[s] \in 1 .. K + 1
      BY <1>4, <3>1
    <3>5. \A n \in 1 .. K + 1 : n \in 1 .. (K + 1) + 1
      OBVIOUS
    <3>6. \A s \in RunIds : Active(s)' => wave'[s] \in 1 .. (K + 1) + 1
      BY <3>4, <3>5
    <3>7. K + 1 \in Nat
      OBVIOUS
    <3> QED
      BY <3>3, <3>4, <3>6, <3>7 DEF NumberGiven
  <2> QED
    BY <1>3, <2>3, <2>5, <2>6, <2>7
<1> QED
  BY <1>6, <1>7 DEF AddLine

(* What touches neither the ledger nor a wave's number keeps the rest.      *)
LEMMA LedgerKept ==
  ASSUME LedgerInv, UNCHANGED <<ledger, wave>>,
         \A s \in RunIds : Active(s)' => Active(s)
  PROVE  LedgerChained' /\ NumberGiven' /\ NumberFresh' /\ RunWavesIncrease'
<1>1. LedgerChained' /\ RunWavesIncrease'
  BY DEF LedgerInv, LedgerChained, RunWavesIncrease
<1>2. NumberGiven' /\ NumberFresh'
  BY DEF LedgerInv, NumberGiven, NumberFresh, LastIs, RecordedWaves
<1> QED
  BY <1>1, <1>2

LEMMA LedgerStep == ASSUME LedgerInv, [Next]_vars PROVE LedgerInv'
<1> USE DEF LedgerInv
<1>1. ASSUME NEW r \in RunIds, Plan(r) PROVE LedgerInv'
  <2> USE <1>1 DEF Plan, Goto
  <2>1. PICK K \in Nat :
          LastIs(K) /\ \A s \in RunIds : Active(s) => wave[s] \in 1 .. K + 1
    BY DEF NumberGiven
  <2>2. NextWaveNumber = K + 1
    BY <2>1, NextIs
  <2>3. TypeOK'
    <3>1. starts + 1 \in Nat /\ K + 1 \in Nat
      BY DEF TypeOK
    <3>2. owner' \in Seq(RunIds)
      BY DEF TypeOK
    <3> QED
      BY <2>2, <3>1, <3>2 DEF TypeOK, PCs
  <2>4. StartsCounted'
    <3>1. \A s \in RunIds : receipts[s] # NoReceipt => receipts[s].start \in Nat
      BY DEF TypeOK, Receipt
    <3>2. \A s \in RunIds : born'[s] <= starts + 1
      BY DEF StartsCounted, TypeOK
    <3>3. starts' = starts + 1 /\ receipts' = receipts /\ starts \in Nat
      BY DEF TypeOK
    <3> QED
      BY <3>1, <3>2, <3>3 DEF StartsCounted
  <2>5. LockHeld'
    BY DEF LockHeld, TypeOK
  <2>6. LedgerChained' /\ RunWavesIncrease'
    BY DEF LedgerChained, RunWavesIncrease
  <2>7. \A i \in DOMAIN ledger : ledger[i].wave \in 1 .. K
    BY <2>1 DEF LastIs, RecordedWaves
  <2>10. wave'[r] = K + 1 /\ wave'[r] \in 1 .. K + 1
    BY <2>2 DEF TypeOK
  <2>11. \A s \in RunIds \ {r} : wave'[s] = wave[s] /\ (Active(s)' <=> Active(s))
    BY DEF Active, TypeOK
  <2>8. NumberGiven'
    <3>1. LastIs(K)'
      BY <2>1 DEF LastIs, RecordedWaves
    <3>2. \A s \in RunIds : Active(s)' => wave'[s] \in 1 .. K + 1
      BY <2>1, <2>10, <2>11
    <3> QED
      BY <3>1, <3>2 DEF NumberGiven
  <2>9. NumberFresh'
    <3> SUFFICES ASSUME NEW s \in RunIds, Active(s)', NEW i \in DOMAIN ledger,
                        ledger[i].run = s
                 PROVE  ledger[i].wave < wave'[s]
      BY DEF NumberFresh
    <3>1. CASE s = r
      BY <2>7, <2>10, <3>1
    <3>2. CASE s # r
      BY <2>11, <3>2 DEF NumberFresh
    <3> QED
      BY <3>1, <3>2
  <2> QED
    BY <2>3, <2>4, <2>5, <2>6, <2>8, <2>9
<1>2. ASSUME NEW r \in RunIds,
             WriteEvidence(r) \/ ReadTip(r) \/ Attest(r) \/ LockLedger(r) \/ WaveFails(r)
      PROVE  LedgerInv'
  <2>1. TypeOK' /\ StartsCounted'
    <3> USE DEF TypeOK, StartsCounted, PCs, Ended, Goto
    <3>1. CASE WriteEvidence(r)
      BY <3>1 DEF WriteEvidence
    <3>2. CASE ReadTip(r)
      BY <3>2, ChainTipType DEF ReadTip
    <3>3. CASE Attest(r)
      <4>1. [start |-> born[r], wave |-> wave[r], prev |-> link[r]] \in Receipt
        BY DEF Receipt
      <4> QED
        BY <3>3, <4>1 DEF Attest
    <3>4. CASE LockLedger(r)
      <4>1. Len(ledger) \in Nat
        OBVIOUS
      <4>2. ltip' \in [RunIds -> Nat] /\ holder' \subseteq RunIds
        BY <3>4, <4>1 DEF LockLedger
      <4>3. pc' \in [RunIds -> PCs]
        BY <3>4 DEF LockLedger
      <4> QED
        BY <3>4, <4>2, <4>3 DEF LockLedger
    <3>5. CASE WaveFails(r)
      <4>1. evidence' \in [RunIds -> Nat]
        BY <3>5 DEF WaveFails
      <4>2. UNCHANGED <<starts, born, wave, link, ltip, receipts, ledger, torn, holder, owner>>
            /\ pc' \in [RunIds -> PCs]
        BY <3>5 DEF WaveFails
      <4> QED
        BY <4>1, <4>2
    <3> QED
      BY <1>2, <3>1, <3>2, <3>3, <3>4, <3>5
  <2>2. LockHeld'
    <3> USE DEF LockHeld, TypeOK, Goto
    <3>1. CASE WriteEvidence(r) \/ ReadTip(r) \/ Attest(r)
      BY <3>1 DEF WriteEvidence, ReadTip, Attest
    <3>2. CASE LockLedger(r)
      BY <3>2 DEF LockLedger
    <3>3. CASE WaveFails(r)
      BY <3>3 DEF WaveFails
    <3> QED
      BY <1>2, <3>1, <3>2, <3>3
  <2>3. UNCHANGED <<ledger, wave>> /\ \A s \in RunIds : Active(s)' => Active(s)
    <3> USE DEF Active, Ended, TypeOK, Goto
    <3>1. CASE WriteEvidence(r) \/ ReadTip(r) \/ Attest(r)
      BY <3>1 DEF WriteEvidence, ReadTip, Attest
    <3>2. CASE LockLedger(r)
      BY <3>2 DEF LockLedger
    <3>3. CASE WaveFails(r)
      BY <3>3 DEF WaveFails
    <3> QED
      BY <1>2, <3>1, <3>2, <3>3
  <2> QED
    BY <2>1, <2>2, <2>3, LedgerKept
<1>3. ASSUME NEW r \in RunIds, AppendEntry(r) \/ EntryFails(r) PROVE LedgerInv'
  <2> USE DEF AppendEntry, EntryFails
  <2>1. pc' \in [RunIds -> PCs] /\ \A s \in RunIds \ {r} : pc'[s] = pc[s]
    BY <1>3 DEF TypeOK, Goto, PCs, Ended
  <2>2. pc'[r] \in Ended /\ Active(r)
    BY <1>3 DEF TypeOK, Goto, Active, Ended
  <2>3. wave' = wave /\ ltip' = ltip /\ holder' = holder \ {r}
    BY <1>3
  <2>4. ledger' \in Seq(Entry) /\ torn' \subseteq {"tail", "inside"}
    <3>1. EntryOf(r) \in Entry
      BY DEF EntryOf, Entry, TypeOK
    <3>2. Append(ledger, EntryOf(r)) \in Seq(Entry) /\ ledger \in Seq(Entry)
      BY <3>1 DEF TypeOK
    <3>3. torn \subseteq {"tail", "inside"}
      BY DEF TypeOK
    <3>4. CASE AddLine(r)
      BY <3>2, <3>3, <3>4 DEF AddLine
    <3> QED
      BY <1>3, <3>2, <3>3, <3>4
  <2>5. TypeOK' /\ StartsCounted'
    BY <1>3, <2>1, <2>4 DEF TypeOK, StartsCounted
  <2>6. CASE AddLine(r) /\ pc[r] = "locked"
    BY <2>1, <2>2, <2>3, <2>5, <2>6, LineAdded
  <2>7. CASE UNCHANGED ledger
    <3>1. \A s \in RunIds : Active(s)' => Active(s)
      BY <2>1, <2>2 DEF Active
    <3>2. LockHeld'
      BY <2>1, <2>2, <2>3, <2>7 DEF LockHeld, Ended
    <3> QED
      BY <2>3, <2>5, <2>7, <3>1, <3>2, LedgerKept
  <2> QED
    BY <1>3, <2>6, <2>7
<1>4. CASE UNCHANGED vars
  <2>1. TypeOK' /\ StartsCounted' /\ LockHeld' /\ \A s \in RunIds : Active(s)' => Active(s)
    BY <1>4 DEF vars, TypeOK, StartsCounted, LockHeld, Active
  <2> QED
    BY <1>4, <2>1, LedgerKept DEF vars
<1> QED
  BY <1>1, <1>2, <1>3, <1>4 DEF Next, Process

-------------------------------------------------------------------------------
LEMMA LedgerInvariant == Spec => []LedgerInv
<1>1. Init => LedgerInv
  BY InitLedger
<1>2. LedgerInv /\ [Next]_vars => LedgerInv'
  BY LedgerStep
<1> QED
  BY <1>1, <1>2, PTL DEF Spec

(* run_wave and the number main gives it keep every variable's type.        *)
THEOREM TypeCorrect == Spec => []TypeOK
<1>1. LedgerInv => TypeOK
  BY DEF LedgerInv
<1> QED
  BY <1>1, LedgerInvariant, PTL

(* append_wave_ledger_entry chains every entry to the one before it, however
   many processes append and whichever of them die.                         *)
THEOREM LedgerIsChained == Spec => []LedgerChained
<1>1. LedgerInv => LedgerChained
  BY DEF LedgerInv
<1> QED
  BY <1>1, LedgerInvariant, PTL

(* next_wave_number leaves no gap in the ledger although it is read at the
   start of a wave and used at its end.                                     *)
THEOREM NoWaveIsSkipped == Spec => []WavesGapFree
<1>1. LedgerInv => WavesGapFree
  <2>1. SUFFICES ASSUME LedgerInv PROVE WavesGapFree
    OBVIOUS
  <2>2. PICK K \in Nat : LastIs(K)
    BY <2>1 DEF LedgerInv, NumberGiven
  <2> QED
    BY <2>2, NextIs DEF WavesGapFree, LastIs
<1> QED
  BY <1>1, LedgerInvariant, PTL

(* A run id never records a wave twice, nor an earlier one after a later.   *)
THEOREM RunNeverRepeatsAWave == Spec => []RunWavesIncrease
<1>1. LedgerInv => RunWavesIncrease
  BY DEF LedgerInv
<1> QED
  BY <1>1, LedgerInvariant, PTL

-------------------------------------------------------------------------------
(* What a wave has written for its gates when it comes to each step.        *)
Attested == {"attested", "locked", "recorded"}

EvidenceWritten ==
  \A r \in RunIds : pc[r] \in Attested \cup {"evidence", "tip"} => evidence[r] = born[r]

ReceiptWritten ==
  \A r \in RunIds : pc[r] \in Attested =>
    receipts[r] # NoReceipt /\ receipts[r].start = born[r] /\ receipts[r].wave = wave[r]

IsEntryOf(i, r) ==
  ledger[i].run = r /\ ledger[i].start = born[r] /\ ledger[i].wave = wave[r]

EntryWritten ==
  \A r \in RunIds : pc[r] = "recorded" =>
    "inside" \in torn \/ \E i \in DOMAIN ledger : IsEntryOf(i, r)

RecordInv == EvidenceWritten /\ ReceiptWritten /\ EntryWritten

(* A good link names a start of another run id, whose receipt is of that    *)
(* start or of a later one.                                                 *)
GoodLink(r, p) ==
  p # 0 =>
    /\ p \in 1 .. starts /\ owner[p] \in RunIds /\ owner[p] # r
    /\ receipts[owner[p]] # NoReceipt /\ receipts[owner[p]].start >= p

StartsOwned ==
  /\ Len(owner) = starts
  /\ \A r \in RunIds : Active(r) => born[r] # 0
  /\ \A r \in RunIds : born[r] # 0 => born[r] \in 1 .. starts /\ owner[born[r]] = r
  /\ \A r \in RunIds : receipts[r] # NoReceipt =>
       /\ receipts[r].start \in 1 .. starts
       /\ owner[receipts[r].start] = r
       /\ receipts[r].start <= born[r]

LinksGood ==
  \A r \in RunIds, p \in Nat :
    /\ pc[r] = "tip" /\ link[r] = p => GoodLink(r, p)
    /\ receipts[r] # NoReceipt /\ receipts[r].prev = p => GoodLink(r, p)

LinkInv == StartsOwned /\ LinksGood

(* The ledger and the marks of its cut lines only grow.                     *)
LEMMA LedgerGrows ==
  ASSUME TypeOK, [Next]_vars
  PROVE  /\ \A i \in DOMAIN ledger : i \in DOMAIN ledger' /\ ledger'[i] = ledger[i]
         /\ "inside" \in torn => "inside" \in torn'
<1>1. \A r \in RunIds : EntryOf(r) \in Entry
  BY DEF EntryOf, Entry, TypeOK
<1>2. \A r \in RunIds : AddLine(r) =>
        /\ \A i \in DOMAIN ledger : i \in DOMAIN ledger' /\ ledger'[i] = ledger[i]
        /\ "inside" \in torn => "inside" \in torn'
  <2> SUFFICES ASSUME NEW r \in RunIds, AddLine(r)
               PROVE  /\ \A i \in DOMAIN ledger : i \in DOMAIN ledger' /\ ledger'[i] = ledger[i]
                      /\ "inside" \in torn => "inside" \in torn'
    OBVIOUS
  <2> DEFINE e == EntryOf(r)
  <2>1. e \in Entry /\ ledger \in Seq(Entry)
    BY <1>1 DEF TypeOK
  <2>2. ledger' = ledger \/ ledger' = Append(ledger, e)
    BY DEF AddLine
  <2> HIDE DEF e
  <2>3. \A i \in DOMAIN ledger : i \in DOMAIN ledger' /\ ledger'[i] = ledger[i]
    BY <2>1, <2>2
  <2> QED
    BY <2>3 DEF AddLine
<1>3. CASE UNCHANGED <<ledger, torn>>
  BY <1>3
<1>4. ASSUME NEW r \in RunIds, Process(r), ~ (ledger' = ledger /\ torn' = torn)
      PROVE  AddLine(r) \/ (torn' = torn \cup {"tail"} /\ ledger' = ledger)
  <2>1. AppendEntry(r) \/ EntryFails(r)
    BY <1>4 DEF Process, Plan, WriteEvidence, ReadTip, Attest, LockLedger, WaveFails
  <2>2. EntryFails(r) => AddLine(r) \/ (torn' = torn \cup {"tail"} /\ ledger' = ledger)
    <3> SUFFICES ASSUME EntryFails(r)
                 PROVE  AddLine(r) \/ (torn' = torn \cup {"tail"} /\ ledger' = ledger)
      OBVIOUS
    <3>1. \/ ledger' = ledger /\ torn' = torn
          \/ torn' = torn \cup {"tail"} /\ ledger' = ledger
          \/ AddLine(r)
      BY DEF EntryFails
    <3> QED
      BY <1>4, <3>1
  <2> QED
    BY <2>1, <2>2 DEF AppendEntry
<1> QED
  BY <1>2, <1>3, <1>4 DEF Next, vars

(* A process leaves what the other run ids have as it is.                   *)
LEMMA OthersKept ==
  ASSUME TypeOK, NEW r \in RunIds, Process(r), NEW s \in RunIds, s # r
  PROVE  /\ pc'[s] = pc[s] /\ born'[s] = born[s] /\ wave'[s] = wave[s] /\ link'[s] = link[s]
         /\ evidence'[s] = evidence[s] /\ receipts'[s] = receipts[s]
<1> USE DEF TypeOK, Goto
<1>1. CASE Plan(r)
  BY <1>1 DEF Plan
<1>2. CASE WriteEvidence(r)
  BY <1>2 DEF WriteEvidence
<1>3. CASE ReadTip(r)
  BY <1>3 DEF ReadTip
<1>4. CASE Attest(r)
  BY <1>4 DEF Attest
<1>5. CASE LockLedger(r)
  BY <1>5 DEF LockLedger
<1>6. CASE AppendEntry(r)
  BY <1>6 DEF AppendEntry
<1>7. CASE EntryFails(r)
  BY <1>7 DEF EntryFails
<1>8. CASE WaveFails(r)
  BY <1>8 DEF WaveFails
<1> QED
  BY <1>1, <1>2, <1>3, <1>4, <1>5, <1>6, <1>7, <1>8 DEF Process

LEMMA RecordStep == ASSUME TypeOK, RecordInv, [Next]_vars PROVE RecordInv'
<1> USE DEF RecordInv
<1>1. ASSUME NEW r \in RunIds, Process(r) PROVE RecordInv'
  <2>1. \A i \in DOMAIN ledger : i \in DOMAIN ledger' /\ ledger'[i] = ledger[i]
    BY <1>1, LedgerGrows DEF Next
  <2>2. "inside" \in torn => "inside" \in torn'
    BY <1>1, LedgerGrows DEF Next
  <2>3. \A s \in RunIds \ {r} :
          /\ pc'[s] = pc[s] /\ born'[s] = born[s] /\ wave'[s] = wave[s]
          /\ evidence'[s] = evidence[s] /\ receipts'[s] = receipts[s]
    BY <1>1, OthersKept
  <2>4. EvidenceWritten'
    <3>1. pc'[r] \in Attested \cup {"evidence", "tip"} => evidence'[r] = born'[r]
      BY <1>1 DEF TypeOK, Process, Plan, WriteEvidence, ReadTip, Attest, LockLedger,
                  AppendEntry, EntryFails, WaveFails, Goto, Attested, EvidenceWritten
    <3> QED
      BY <2>3, <3>1 DEF EvidenceWritten
  <2>5. ReceiptWritten'
    <3>1. pc'[r] \in Attested =>
            receipts'[r] # NoReceipt /\ receipts'[r].start = born'[r] /\ receipts'[r].wave = wave'[r]
      <4>1. CASE Attest(r)
        <5> DEFINE c == [start |-> born[r], wave |-> wave[r], prev |-> link[r]]
        <5>1. c \in [start : Nat, wave : Nat, prev : Nat]
          BY DEF TypeOK
        <5>2. c # NoReceipt
          BY <5>1, WaveEvidenceAssumption
        <5>3. receipts'[r] = c /\ born' = born /\ wave' = wave
          BY <4>1 DEF Attest, TypeOK
        <5> QED
          BY <5>2, <5>3
      <4>2. CASE ~ Attest(r)
        BY <1>1, <4>2 DEF TypeOK, Process, Plan, WriteEvidence, ReadTip, LockLedger,
                          AppendEntry, EntryFails, WaveFails, Goto, Attested, ReceiptWritten
      <4> QED
        BY <4>1, <4>2
    <3> QED
      BY <2>3, <3>1 DEF ReceiptWritten
  <2>6. EntryWritten'
    <3>1. pc'[r] = "recorded" => "inside" \in torn' \/ \E i \in DOMAIN ledger' : IsEntryOf(i, r)'
      <4> SUFFICES ASSUME pc'[r] = "recorded", "inside" \notin torn'
                   PROVE  \E i \in DOMAIN ledger' : IsEntryOf(i, r)'
        OBVIOUS
      <4>1. AppendEntry(r)
        BY <1>1 DEF TypeOK, Process, Plan, WriteEvidence, ReadTip, Attest, LockLedger,
                    EntryFails, WaveFails, Goto
      <4> DEFINE e == EntryOf(r)
      <4>2. e \in Entry /\ e.run = r /\ e.start = born[r] /\ e.wave = wave[r] /\ ledger \in Seq(Entry)
        BY DEF EntryOf, Entry, TypeOK
      <4>3. ledger' = Append(ledger, e) /\ born' = born /\ wave' = wave
        BY <4>1 DEF AppendEntry, AddLine
      <4> HIDE DEF e
      <4>4. Len(ledger) + 1 \in DOMAIN ledger' /\ ledger'[Len(ledger) + 1] = e
        BY <4>2, <4>3
      <4> QED
        BY <4>2, <4>3, <4>4 DEF IsEntryOf
    <3>2. ASSUME NEW s \in RunIds, s # r, pc'[s] = "recorded"
          PROVE  "inside" \in torn' \/ \E i \in DOMAIN ledger' : IsEntryOf(i, s)'
      BY <2>1, <2>2, <2>3, <3>2 DEF EntryWritten, IsEntryOf
    <3> QED
      BY <3>1, <3>2 DEF EntryWritten
  <2> QED
    BY <2>4, <2>5, <2>6
<1>2. CASE UNCHANGED vars
  BY <1>2 DEF vars, EvidenceWritten, ReceiptWritten, EntryWritten, IsEntryOf
<1> QED
  BY <1>1, <1>2 DEF Next

(* A link that is good stays good while starts, their owners and receipts   *)
(* only grow.                                                               *)
LEMMA LinkKept ==
  ASSUME TypeOK, TypeOK', StartsOwned, NEW r \in RunIds, NEW p \in Nat, GoodLink(r, p),
         starts' >= starts, \A i \in 1 .. starts : owner'[i] = owner[i],
         \A s \in RunIds : receipts[s] # NoReceipt =>
           receipts'[s] # NoReceipt /\ receipts'[s].start >= receipts[s].start
  PROVE  GoodLink(r, p)'
<1> SUFFICES ASSUME p # 0 PROVE GoodLink(r, p)'
  BY DEF GoodLink
<1>1. p \in 1 .. starts /\ owner[p] \in RunIds /\ owner[p] # r
  BY DEF GoodLink
<1>2. owner'[p] = owner[p] /\ p \in 1 .. starts'
  BY <1>1 DEF TypeOK
<1> DEFINE s == owner[p]
<1>3. s \in RunIds /\ receipts[s] # NoReceipt /\ receipts[s].start >= p
  BY <1>1 DEF GoodLink
<1>4. receipts'[s] # NoReceipt /\ receipts'[s].start >= receipts[s].start
  BY <1>3
<1>5. receipts[s].start \in Nat /\ receipts'[s].start \in Nat
  BY <1>3, <1>4 DEF TypeOK, Receipt
<1>6. receipts'[s].start >= p
  BY <1>3, <1>4, <1>5
<1> QED
  BY <1>1, <1>2, <1>4, <1>6 DEF GoodLink

LEMMA LinkStep == ASSUME LedgerInv, LedgerInv', LinkInv, [Next]_vars PROVE LinkInv'
<1> USE DEF LinkInv
<1>0. TypeOK /\ TypeOK' /\ StartsCounted
  BY DEF LedgerInv
<1>1. ASSUME NEW r \in RunIds, Plan(r) PROVE LinkInv'
  <2> USE <1>0
  <2>1. starts' = starts + 1 /\ owner' = Append(owner, r) /\ owner \in Seq(RunIds) /\ starts \in Nat
    BY <1>1 DEF Plan, TypeOK
  <2>2. /\ Len(owner') = starts'
        /\ owner'[starts'] = r
        /\ \A i \in 1 .. starts : owner'[i] = owner[i]
    BY <2>1 DEF StartsOwned
  <2>3. /\ receipts' = receipts /\ link' = link /\ born'[r] = starts'
        /\ \A s \in RunIds \ {r} : born'[s] = born[s] /\ pc'[s] = pc[s]
        /\ pc'[r] = "wave"
    BY <1>1 DEF Plan, TypeOK, Goto
  <2>4. \A s \in RunIds : receipts[s] # NoReceipt => receipts[s].start \in Nat
    BY DEF TypeOK, Receipt
  <2>5. StartsOwned'
    <3>1. \A s \in RunIds : Active(s)' => born'[s] # 0
      BY <2>1, <2>3 DEF StartsOwned, Active
    <3>2. \A s \in RunIds : born'[s] # 0 => born'[s] \in 1 .. starts' /\ owner'[born'[s]] = s
      <4> TAKE s \in RunIds
      <4>1. CASE s = r
        BY <2>1, <2>2, <2>3, <4>1
      <4>2. CASE s # r
        BY <2>1, <2>2, <2>3, <4>2 DEF StartsOwned
      <4> QED
        BY <4>1, <4>2
    <3>3. ASSUME NEW s \in RunIds, receipts[s] # NoReceipt
          PROVE  /\ receipts[s].start \in 1 .. starts'
                 /\ owner'[receipts[s].start] = s
                 /\ receipts[s].start <= born'[s]
      <4>1. receipts[s].start \in 1 .. starts /\ owner[receipts[s].start] = s /\ receipts[s].start <= born[s]
        BY <3>3 DEF StartsOwned
      <4>2. born'[s] = starts + 1 \/ born'[s] = born[s]
        BY <2>1, <2>3
      <4> QED
        BY <2>1, <2>2, <4>1, <4>2
    <3> QED
      BY <2>2, <2>3, <3>1, <3>2, <3>3 DEF StartsOwned
  <2>6. LinksGood'
    <3>1. starts' >= starts
      BY <2>1
    <3>2. \A s \in RunIds : receipts[s] # NoReceipt =>
            receipts'[s] # NoReceipt /\ receipts'[s].start >= receipts[s].start
      BY <2>3, <2>4
    <3>3. \A s \in RunIds, p \in Nat : GoodLink(s, p) => GoodLink(s, p)'
      BY <2>2, <3>1, <3>2, LinkKept
    <3>4. \A s \in RunIds : pc'[s] = "tip" => pc[s] = "tip"
      BY <2>3
    <3> QED
      BY <2>3, <3>3, <3>4 DEF LinksGood
  <2> QED
    BY <2>5, <2>6
<1>2. ASSUME NEW r \in RunIds, Process(r), ~ Plan(r) PROVE LinkInv'
  <2> USE <1>0
  <2>1. starts' = starts /\ owner' = owner /\ born' = born /\ starts \in Nat
    BY <1>2 DEF Process, WriteEvidence, ReadTip, Attest, LockLedger, AppendEntry, EntryFails,
                WaveFails, TypeOK
  <2>2. \A s \in RunIds : Active(s)' => Active(s)
    BY <1>2 DEF Process, WriteEvidence, ReadTip, Attest, LockLedger, AppendEntry, EntryFails,
                WaveFails, TypeOK, Goto, Active, Ended
  <2>3. \A s \in RunIds \ {r} :
          pc'[s] = pc[s] /\ link'[s] = link[s] /\ receipts'[s] = receipts[s]
    BY <1>2, OthersKept
  <2>4. \/ receipts'[r] = receipts[r]
        \/ /\ receipts'[r] # NoReceipt
           /\ receipts'[r].start = born[r] /\ receipts'[r].prev = link[r]
           /\ pc[r] = "tip"
    <3>1. CASE Attest(r)
      <4> DEFINE c == [start |-> born[r], wave |-> wave[r], prev |-> link[r]]
      <4>1. c \in [start : Nat, wave : Nat, prev : Nat]
        BY DEF TypeOK
      <4>2. c # NoReceipt
        BY <4>1, WaveEvidenceAssumption
      <4>3. receipts'[r] = c /\ pc[r] = "tip"
        BY <3>1 DEF Attest, TypeOK
      <4> QED
        BY <4>2, <4>3
    <3>2. CASE ~ Attest(r)
      BY <1>2, <3>2 DEF Process, WriteEvidence, ReadTip, LockLedger, AppendEntry, EntryFails,
                        WaveFails, TypeOK
    <3> QED
      BY <3>1, <3>2
  <2>5. \A s \in RunIds : born[s] \in Nat
    BY DEF TypeOK
  <2>6. pc[r] = "tip" => born[r] \in 1 .. starts /\ owner[born[r]] = r
    BY DEF StartsOwned, Active, Ended
  <2>7. StartsOwned'
    <3>1. ASSUME NEW s \in RunIds, receipts'[s] # NoReceipt
          PROVE  /\ receipts'[s].start \in 1 .. starts
                 /\ owner[receipts'[s].start] = s
                 /\ receipts'[s].start <= born[s]
      <4>1. CASE receipts'[s] = receipts[s]
        BY <3>1, <4>1 DEF StartsOwned
      <4>2. CASE receipts'[s] # receipts[s]
        <5>1. s = r /\ pc[r] = "tip" /\ receipts'[s].start = born[s]
          BY <2>3, <2>4, <4>2
        <5> QED
          BY <2>5, <2>6, <5>1
      <4> QED
        BY <4>1, <4>2
    <3> QED
      BY <2>1, <2>2, <3>1 DEF StartsOwned
  <2>8. \A s \in RunIds : receipts[s] # NoReceipt =>
          receipts'[s] # NoReceipt /\ receipts'[s].start >= receipts[s].start
    <3> SUFFICES ASSUME NEW s \in RunIds, receipts[s] # NoReceipt
                 PROVE  receipts'[s] # NoReceipt /\ receipts'[s].start >= receipts[s].start
      OBVIOUS
    <3>1. receipts[s].start \in Nat /\ receipts[s].start <= born[s]
      BY DEF StartsOwned, TypeOK, Receipt
    <3>2. CASE receipts'[s] = receipts[s]
      BY <3>1, <3>2
    <3>3. CASE receipts'[s] # receipts[s]
      <4>1. s = r /\ receipts'[s] # NoReceipt /\ receipts'[s].start = born[s]
        BY <2>3, <2>4, <3>3
      <4> QED
        BY <2>5, <3>1, <4>1
    <3> QED
      BY <3>2, <3>3
  <2>9. \A s \in RunIds, p \in Nat : GoodLink(s, p) => GoodLink(s, p)'
    <3>1. starts' >= starts /\ \A i \in 1 .. starts : owner'[i] = owner[i]
      BY <2>1
    <3> QED
      BY <2>8, <3>1, LinkKept
  <2>10. pc'[r] = "tip" => (pc[r] = "tip" /\ link'[r] = link[r]) \/ ReadTip(r)
    BY <1>2 DEF Process, WriteEvidence, Attest, LockLedger, AppendEntry, EntryFails,
                WaveFails, TypeOK, Goto
  <2>11. ReadTip(r) => GoodLink(r, ChainTip(r)) /\ link'[r] = ChainTip(r)
    <3> SUFFICES ASSUME ReadTip(r), ChainTip(r) # 0
                 PROVE  GoodLink(r, ChainTip(r)) /\ link'[r] = ChainTip(r)
      BY DEF GoodLink, ReadTip, TypeOK
    <3>1. PICK s \in RunIds \ {r} : receipts[s] # NoReceipt /\ ChainTip(r) = receipts[s].start
      BY ChainTipType DEF Receipts
    <3>2. receipts[s].start \in 1 .. starts /\ owner[receipts[s].start] = s
      BY <3>1 DEF StartsOwned
    <3>3. receipts[s].start >= receipts[s].start
      BY <3>2
    <3>4. GoodLink(r, receipts[s].start)
      BY <3>1, <3>2, <3>3 DEF GoodLink
    <3> QED
      BY <3>1, <3>4 DEF ReadTip, TypeOK
  <2>12. ChainTip(r) \in Nat
    BY ChainTipType
  <2>13. LinksGood'
    <3> SUFFICES ASSUME NEW s \in RunIds, NEW p \in Nat
                 PROVE  /\ pc'[s] = "tip" /\ link'[s] = p => GoodLink(s, p)'
                        /\ receipts'[s] # NoReceipt /\ receipts'[s].prev = p => GoodLink(s, p)'
      BY DEF LinksGood
    <3>1. pc'[s] = "tip" /\ link'[s] = p => GoodLink(s, p)
      BY <2>3, <2>10, <2>11 DEF LinksGood
    <3>2. receipts'[s] # NoReceipt /\ receipts'[s].prev = p => GoodLink(s, p)
      BY <2>3, <2>4 DEF LinksGood
    <3> QED
      BY <2>9, <3>1, <3>2
  <2> QED
    BY <2>7, <2>13
<1>3. CASE UNCHANGED vars
  BY <1>3 DEF vars, StartsOwned, LinksGood, GoodLink, Active
<1> QED
  BY <1>1, <1>2, <1>3 DEF Next, Process

(* When run_wave returns, its receipt, its evidence and its ledger entry are
   of one start, or a cut line inside the ledger accounts for the entry.    *)
THEOREM RecordedReconciles == Spec => []RecordedWaveReconciles
<1>1. Init => RecordInv
  BY DEF Init, RecordInv, EvidenceWritten, ReceiptWritten, EntryWritten, Attested
<1>2. TypeOK /\ RecordInv /\ [Next]_vars => RecordInv'
  BY RecordStep
<1>3. RecordInv => RecordedWaveReconciles
  BY DEF RecordInv, EvidenceWritten, ReceiptWritten, EntryWritten, Attested, IsEntryOf,
         RecordedWaveReconciles, Matches
<1> QED
  BY <1>1, <1>2, <1>3, TypeCorrect, PTL DEF Spec

LEMMA LinkInvariant == Spec => []LinkInv
<1>1. Init => LinkInv
  BY DEF Init, LinkInv, StartsOwned, LinksGood, Active, Ended
<1>2. LedgerInv /\ LedgerInv' /\ LinkInv /\ [Next]_vars => LinkInv'
  BY LinkStep
<1> QED
  BY <1>1, <1>2, LedgerInvariant, PTL DEF Spec

(* The receipt _chain_tip found stays the receipt of another run id, of the
   same start or a later one, whatever waves overlap.                       *)
THEOREM LinksOutlive == Spec => []LinksOutliveOverlap
<1>1. LedgerInv /\ LinkInv => LinksOutliveOverlap
  <2> SUFFICES ASSUME LedgerInv, LinkInv, NEW r \in RunIds, receipts[r] # NoReceipt,
                      receipts[r].prev # 0
               PROVE  GoodLink(r, receipts[r].prev)
    BY DEF LinksOutliveOverlap, GoodLink
  <2>1. receipts[r].prev \in Nat
    BY DEF LedgerInv, TypeOK, Receipt
  <2> QED
    BY <2>1 DEF LinkInv, LinksGood
<1> QED
  BY <1>1, LedgerInvariant, LinkInvariant, PTL

-------------------------------------------------------------------------------
(* A start has no entry before it is through, and no number is used twice.  *)
EntriesOfStarts ==
  /\ starts <= MaxStarts
  /\ \A i \in DOMAIN ledger : ledger[i].start \in 1 .. starts
  /\ \A r \in RunIds : Active(r) => \A i \in DOMAIN ledger : ledger[i].start # born[r]

(* What a step may do to the ledger: nothing, or one line of its own.       *)
AddsLine(r) ==
  /\ pc[r] = "locked" /\ AddLine(r)
  /\ pc' \in {[pc EXCEPT ![r] = "recorded"], [pc EXCEPT ![r] = "failed"]}
  /\ UNCHANGED <<starts, born>>

LeavesLedger(r) ==
  /\ Active(r)
  /\ \E there \in PCs \ {"recorded"} : pc' = [pc EXCEPT ![r] = there]
  /\ UNCHANGED <<ledger, starts, born>>
  /\ "inside" \in torn' <=> "inside" \in torn

LEMMA StepKinds ==
  ASSUME NEW r \in RunIds, Process(r), ~ Plan(r) PROVE AddsLine(r) \/ LeavesLedger(r)
<1> USE DEF Goto, PCs, Active, Ended
<1>1. CASE WriteEvidence(r) \/ ReadTip(r) \/ Attest(r) \/ LockLedger(r) \/ WaveFails(r)
  <2>1. /\ pc[r] \in {"wave", "evidence", "tip", "attested"}
        /\ UNCHANGED <<ledger, starts, born, torn>>
    BY <1>1 DEF WriteEvidence, ReadTip, Attest, LockLedger, WaveFails
  <2>2. \E there \in {"evidence", "tip", "attested", "locked", "failed"} :
          pc' = [pc EXCEPT ![r] = there]
    BY <1>1, Zenon DEF WriteEvidence, ReadTip, Attest, LockLedger, WaveFails
  <2> QED
    BY <2>1, <2>2 DEF LeavesLedger
<1>3. CASE AppendEntry(r)
  BY <1>3 DEF AppendEntry, AddsLine
<1>4. CASE EntryFails(r)
  <2>1. /\ pc' = [pc EXCEPT ![r] = "failed"] /\ UNCHANGED <<starts, born>>
        /\ pc[r] \in {"attested", "locked"}
    BY <1>4 DEF EntryFails
  <2>2. CASE pc[r] = "locked" /\ AddLine(r)
    BY <2>1, <2>2 DEF AddsLine
  <2>3. CASE ledger' = ledger /\ (torn' = torn \/ torn' = torn \cup {"tail"})
    <3>1. "inside" \in torn' <=> "inside" \in torn
      BY <2>3
    <3>2. "failed" \in PCs \ {"recorded"} /\ Active(r)
      BY <2>1
    <3> QED
      BY <2>1, <2>3, <3>1, <3>2 DEF LeavesLedger
  <2> QED
    BY <1>4, <2>2, <2>3 DEF EntryFails
<1> QED
  BY <1>1, <1>3, <1>4 DEF Process

(* The start of a process at work is its own.                               *)
LEMMA OwnStart ==
  ASSUME LinkInv, NEW r \in RunIds, Active(r)
  PROVE  /\ born[r] \in 1 .. starts
         /\ \A s \in RunIds : Active(s) /\ born[s] = born[r] => s = r
  BY DEF LinkInv, StartsOwned

LEMMA EntriesStep ==
  ASSUME LedgerInv, LinkInv, EntriesOfStarts, [Next]_vars PROVE EntriesOfStarts'
<1> USE DEF LedgerInv, TypeOK
<1>0. starts \in Nat /\ MaxStarts \in Nat
  BY WaveEvidenceAssumption
<1>1. CASE UNCHANGED vars
  BY <1>1 DEF vars, EntriesOfStarts, Active
<1>2. ASSUME NEW r \in RunIds, Plan(r) PROVE EntriesOfStarts'
  <2>1. /\ starts < MaxStarts /\ starts' = starts + 1 /\ ledger' = ledger
        /\ born'[r] = starts + 1
        /\ \A s \in RunIds \ {r} : born'[s] = born[s] /\ pc'[s] = pc[s]
    BY <1>2 DEF Plan, Goto
  <2>2. \A i \in DOMAIN ledger : ledger[i].start \in 1 .. starts
    BY DEF EntriesOfStarts
  <2>3. \A n \in 1 .. starts : n \in 1 .. starts + 1 /\ n # starts + 1
    BY <1>0
  <2>4. \A s \in RunIds : Active(s)' => \A i \in DOMAIN ledger : ledger[i].start # born'[s]
    BY <2>1, <2>2, <2>3 DEF EntriesOfStarts, Active
  <2>5. starts + 1 <= MaxStarts
    BY <1>0, <2>1
  <2> HIDE DEF LedgerInv, TypeOK
  <2> QED
    BY <2>1, <2>2, <2>3, <2>4, <2>5 DEF EntriesOfStarts
<1>3. ASSUME NEW r \in RunIds, LeavesLedger(r) PROVE EntriesOfStarts'
  <2>1. \A s \in RunIds : Active(s)' => Active(s)
    BY <1>3 DEF LeavesLedger, Active
  <2> QED
    BY <1>3, <2>1 DEF LeavesLedger, EntriesOfStarts
<1>4. ASSUME NEW r \in RunIds, AddsLine(r) PROVE EntriesOfStarts'
  <2>1. /\ \A s \in RunIds : Active(s)' => Active(s) /\ s # r
        /\ UNCHANGED <<starts, born>> /\ Active(r)
    BY <1>4 DEF AddsLine, Active, Ended
  <2> DEFINE e == EntryOf(r)
  <2>2. e \in Entry /\ e.start = born[r]
    BY DEF EntryOf, Entry
  <2>3. ledger' = ledger \/ ledger' = Append(ledger, e)
    BY <1>4 DEF AddsLine, AddLine
  <2> HIDE DEF e
  <2>4. \A i \in DOMAIN ledger' : (i \in DOMAIN ledger /\ ledger'[i] = ledger[i]) \/ ledger'[i] = e
    <3>1. CASE ledger' = ledger
      BY <3>1
    <3>2. CASE ledger' = Append(ledger, e)
      <4>1. ledger \in Seq(Entry) /\ Len(ledger) \in Nat
        OBVIOUS
      <4>2. DOMAIN ledger = 1 .. Len(ledger) /\ DOMAIN ledger' = 1 .. Len(ledger) + 1
        BY <2>2, <3>2, <4>1
      <4>3. ledger'[Len(ledger) + 1] = e /\ \A i \in DOMAIN ledger : ledger'[i] = ledger[i]
        BY <2>2, <3>2, <4>1
      <4> SUFFICES ASSUME NEW i \in DOMAIN ledger'
                   PROVE  (i \in DOMAIN ledger /\ ledger'[i] = ledger[i]) \/ ledger'[i] = e
        OBVIOUS
      <4>4. i \in DOMAIN ledger \/ i = Len(ledger) + 1
        <5> HIDE DEF LedgerInv, TypeOK
        <5> QED
          BY <4>1, <4>2
      <4> QED
        BY <4>3, <4>4
    <3> QED
      BY <2>3, <3>1, <3>2
  <2>5. born[r] \in 1 .. starts /\ \A s \in RunIds : Active(s) /\ born[s] = born[r] => s = r
    BY <2>1, OwnStart
  <2>6. \A i \in DOMAIN ledger' : ledger'[i].start \in 1 .. starts
    BY <2>2, <2>4, <2>5 DEF EntriesOfStarts
  <2>7. ASSUME NEW s \in RunIds, Active(s)', NEW i \in DOMAIN ledger'
        PROVE  ledger'[i].start # born[s]
    BY <2>1, <2>2, <2>4, <2>5, <2>7 DEF EntriesOfStarts
  <2> QED
    BY <2>1, <2>6, <2>7 DEF EntriesOfStarts
<1> QED
  BY <1>1, <1>2, <1>3, <1>4, StepKinds DEF Next

(* A line that is added is an entry of ChainedLedger, or is lost in a line  *)
(* that cannot be read.                                                     *)
LEMMA LineIsEntry ==
  ASSUME LedgerInv, LinkInv, EntriesOfStarts, NEW r \in RunIds, pc[r] = "locked", AddLine(r),
         NEW s, s = born[r]
  PROVE  Chained!Enter(r, s) \/ Chained!Lose
<1> USE DEF LedgerInv, TypeOK
<1>1. CASE "tail" \in torn
  BY <1>1 DEF AddLine, Chained!Lose
<1>2. CASE "tail" \notin torn
  <2>1. ledger' = Append(ledger, EntryOf(r)) /\ torn' = torn
    BY <1>2 DEF AddLine
  <2>2. Active(r) /\ ltip[r] = Len(ledger)
    BY DEF Active, Ended, LockHeld
  <2>3. EntryOf(r) = [run |-> r, wave |-> wave[r], start |-> s, prev |-> Len(ledger)]
    BY <2>2 DEF EntryOf
  <2>4. \A i \in DOMAIN ledger : ledger[i].start # s
    BY <2>2 DEF EntriesOfStarts
  <2>5. PICK K \in Nat : LastIs(K) /\ wave[r] \in 1 .. K + 1
    BY <2>2 DEF NumberGiven
  <2>6. Chained!Waves = 1 .. K
    BY <2>5 DEF LastIs, RecordedWaves, Chained!Waves
  <2>7. wave[r] \in {1} \cup (1 .. K) \cup {m + 1 : m \in 1 .. K}
    <3>1. CASE wave[r] \in 1 .. K
      BY <3>1
    <3>2. CASE wave[r] = K + 1
      <4>1. CASE K = 0
        BY <3>2, <4>1
      <4>2. CASE K # 0
        <5>1. K \in 1 .. K
          BY <4>2
        <5> QED
          BY <3>2, <5>1
      <4> QED
        BY <4>1, <4>2
    <3>3. wave[r] \in 1 .. K \/ wave[r] = K + 1
      <4> HIDE DEF LedgerInv, TypeOK
      <4> QED
        BY <2>5
    <3> QED
      BY <3>1, <3>2, <3>3
  <2>8. \A i \in Chained!Entries(r) : ledger[i].wave < wave[r]
    BY <2>2 DEF NumberFresh, Chained!Entries
  <2>9. wave[r] \in Chained!Numbers(r)
    BY <2>6, <2>7, <2>8 DEF Chained!Numbers
  <2> QED
    BY <2>1, <2>3, <2>4, <2>9 DEF Chained!Enter
<1> QED
  BY <1>1, <1>2

LEMMA ChainedStep ==
  ASSUME LedgerInv, LinkInv, EntriesOfStarts, [Next]_vars
  PROVE  [Chained!Next]_(Chained!vars)
<1> DEFINE returned == [r \in RunIds |-> IF pc[r] = "recorded" THEN born[r] ELSE 0]
<1> USE DEF LedgerInv, TypeOK
<1>1. ASSUME UNCHANGED <<ledger, returned>>, "inside" \in torn' <=> "inside" \in torn
      PROVE  UNCHANGED Chained!vars
  BY <1>1 DEF Chained!vars
<1>2. CASE UNCHANGED vars
  BY <1>1, <1>2 DEF vars
<1>3. ASSUME NEW r \in RunIds, Plan(r) PROVE Chained!Restart(r)
  <2>1. /\ pc' = [pc EXCEPT ![r] = "wave"] /\ born' = [born EXCEPT ![r] = starts + 1]
        /\ UNCHANGED <<ledger, torn>>
    BY <1>3 DEF Plan, Goto
  <2>2. returned' = [returned EXCEPT ![r] = 0]
    BY <2>1
  <2> QED
    BY <2>1, <2>2 DEF Chained!Restart
<1>4. ASSUME NEW r \in RunIds, LeavesLedger(r) PROVE UNCHANGED Chained!vars
  <2>1. returned' = returned
    BY <1>4 DEF LeavesLedger, Active, Ended
  <2> QED
    BY <1>1, <1>4, <2>1 DEF LeavesLedger
<1>5. ASSUME NEW r \in RunIds, AddsLine(r)
      PROVE  \E s \in 1 .. MaxStarts : Chained!Record(r, s)
  <2>1. pc[r] = "locked" /\ AddLine(r) /\ born' = born
    BY <1>5 DEF AddsLine
  <2>2. Active(r) /\ starts \in Nat /\ MaxStarts \in Nat /\ starts <= MaxStarts
    BY <2>1, WaveEvidenceAssumption DEF Active, Ended, EntriesOfStarts
  <2>3. PICK s \in 1 .. MaxStarts : s = born[r]
    BY <2>2, OwnStart
  <2>4. returned[r] = 0
    BY <2>1
  <2>5. returned' \in {returned, [returned EXCEPT ![r] = s]}
    <3>1. CASE pc' = [pc EXCEPT ![r] = "recorded"]
      BY <2>1, <2>3, <3>1
    <3>2. CASE pc' = [pc EXCEPT ![r] = "failed"]
      BY <2>1, <3>2
    <3> QED
      BY <1>5, <3>1, <3>2 DEF AddsLine
  <2>6. Chained!Enter(r, s) \/ Chained!Lose
    BY <2>1, <2>3, LineIsEntry
  <2>7. Chained!Record(r, s)
    BY <2>4, <2>5, <2>6 DEF Chained!Record
  <2> QED
    BY <2>7
<1> HIDE DEF LedgerInv, TypeOK
<1>6. ASSUME NEW r \in RunIds, Process(r) PROVE Chained!Next \/ UNCHANGED Chained!vars
  <2>1. CASE Plan(r)
    BY <1>3, <2>1 DEF Chained!Next
  <2>2. CASE LeavesLedger(r)
    BY <1>4, <2>2
  <2>3. CASE AddsLine(r)
    BY <1>5, <2>3 DEF Chained!Next
  <2> QED
    BY <1>6, <2>1, <2>2, <2>3, StepKinds
<1> QED
  BY <1>1, <1>2, <1>6 DEF Next

(* run_wave and the number main gives it implement ChainedLedger, although  *)
(* number, tip and line are read and written at different times by          *)
(* processes that overlap, repeat and die: each start is recorded at one    *)
(* instant and once, and one that returns is recorded.                      *)
THEOREM LedgerRefinement == Spec => ImplementsChainedLedger
<1>1. Init => Chained!Init /\ EntriesOfStarts
  BY WaveEvidenceAssumption
     DEF Init, Chained!Init, EntriesOfStarts, Active, Ended
<1>2. LedgerInv /\ LinkInv /\ EntriesOfStarts /\ [Next]_vars => EntriesOfStarts'
  BY EntriesStep
<1>3. LedgerInv /\ LinkInv /\ EntriesOfStarts /\ [Next]_vars => [Chained!Next]_(Chained!vars)
  BY ChainedStep
<1> QED
  BY <1>1, <1>2, <1>3, LedgerInvariant, LinkInvariant, PTL
     DEF Spec, ImplementsChainedLedger, Chained!Spec
===============================================================================
