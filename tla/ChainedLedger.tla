---------------------------- MODULE ChainedLedger ----------------------------
(***************************************************************************)
(* What the gates and the next orchestrator rely on when they read the     *)
(* wave ledger: entries appear one at a time, each at one instant, chained *)
(* to the entry before it, once for each start and with a number that is   *)
(* new for its run id and leaves no gap; nothing is ever taken out. A      *)
(* start that has returned has its entry, or the ledger is broken where    *)
(* everybody can see it. WaveEvidence is shown to implement this module.   *)
(***************************************************************************)
EXTENDS Naturals, Sequences

CONSTANTS
  RunIds,  \* that share the ledger
  Starts   \* the numbers of their starts

VARIABLES
  ledger,    \* the entries
  broken,    \* whether a line inside the ledger cannot be read
  returned   \* the last start of each run id, once it has returned (0: not yet)

vars == <<ledger, broken, returned>>

Waves == {ledger[i].wave : i \in DOMAIN ledger}
Entries(r) == {i \in DOMAIN ledger : ledger[i].run = r}

Init ==
  /\ ledger = << >>
  /\ broken = FALSE
  /\ returned = [r \in RunIds |-> 0]

(* The number of a wave is one that is there or the next, but no number the *)
(* run id has had.                                                          *)
Numbers(r) ==
  {n \in {1} \cup Waves \cup {m + 1 : m \in Waves} :
     \A i \in Entries(r) : ledger[i].wave < n}

Enter(r, s) ==
  /\ \A i \in DOMAIN ledger : ledger[i].start # s
  /\ \E n \in Numbers(r) :
       ledger' = Append(ledger, [run |-> r, wave |-> n, start |-> s, prev |-> Len(ledger)])
  /\ UNCHANGED broken

Lose ==
  /\ broken' = TRUE
  /\ UNCHANGED ledger

(* A start is recorded, and returns or dies.                                *)
Record(r, s) ==
  /\ returned[r] = 0
  /\ Enter(r, s) \/ Lose
  /\ returned' \in {returned, [returned EXCEPT ![r] = s]}

(* A run id is used again.                                                  *)
Restart(r) ==
  /\ returned' = [returned EXCEPT ![r] = 0]
  /\ UNCHANGED <<ledger, broken>>

Next == \E r \in RunIds : Restart(r) \/ \E s \in Starts : Record(r, s)

Spec == Init /\ [][Next]_vars
==============================================================================
