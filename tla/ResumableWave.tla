---------------------------- MODULE ResumableWave ----------------------------
(***************************************************************************)
(* What whoever runs a wave again under the same run id relies on: a run   *)
(* owes an outcome for exactly the tickets without a recorded success,     *)
(* sends an agent out for no other ticket and a limited number of times,   *)
(* records at most one outcome for each, a failure only when no attempt is *)
(* left, and reports when it owes nothing any more, and then what is       *)
(* recorded. An error at a record may come after the record was made: the  *)
(* run then leaves the ticket alone and reports nothing. A run may be      *)
(* stopped at any moment, which loses no record. Dispatch is shown to      *)
(* implement this module.                                                  *)
(***************************************************************************)
EXTENDS Naturals

CONSTANTS
  Tickets,
  MaxAttempts  \* at a ticket, in one run

VARIABLES
  running,  \* whether a run of the wave is on
  last,     \* the recorded outcome of each ticket
  owed,     \* the tickets without an outcome in this run
  broken,   \* whether an error at a record has spoiled this run
  tries,    \* the attempts it made at each
  report    \* what the run that finished last reported, until it exits

vars == <<running, last, owed, broken, tries, report>>

Nothing == [t \in Tickets |-> "none"]

Init ==
  /\ running = FALSE
  /\ last = Nothing
  /\ owed = {} /\ broken = FALSE
  /\ tries = [t \in Tickets |-> 0]
  /\ report = Nothing

Start ==
  /\ ~running /\ report = Nothing
  /\ running' = TRUE
  /\ owed' = {t \in Tickets : last[t] # "ok"}
  /\ tries' = [t \in Tickets |-> 0]
  /\ UNCHANGED <<last, broken, report>>

Attempt(t) ==
  /\ running /\ t \in owed
  /\ tries[t] < MaxAttempts
  /\ tries' = [tries EXCEPT ![t] = @ + 1]
  /\ UNCHANGED <<running, last, owed, broken, report>>

Justified(t, s) ==
  /\ running /\ t \in owed
  /\ tries[t] > 0
  /\ s = "ok" \/ tries[t] = MaxAttempts

Record(t, s) ==
  /\ Justified(t, s)
  /\ last' = [last EXCEPT ![t] = s]
  /\ owed' = owed \ {t}
  /\ UNCHANGED <<running, broken, tries, report>>

Stumble(t, s) ==
  /\ Justified(t, s)
  /\ last' \in {last, [last EXCEPT ![t] = s]}
  /\ owed' = owed \ {t}
  /\ broken' = TRUE
  /\ UNCHANGED <<running, tries, report>>

Finish ==
  /\ running /\ owed = {} /\ ~broken
  /\ running' = FALSE
  /\ report' = last
  /\ UNCHANGED <<last, owed, broken, tries>>

(* A run fails or is killed, or it exits after its report.                  *)
Stop ==
  /\ running' = FALSE
  /\ owed' = {} /\ broken' = FALSE
  /\ report' = Nothing
  /\ UNCHANGED <<last, tries>>

Next ==
  \/ Start \/ Finish \/ Stop
  \/ \E t \in Tickets : Attempt(t) \/ \E s \in {"ok", "failed", "timeout"} : Record(t, s) \/ Stumble(t, s)

Spec == Init /\ [][Next]_vars
==============================================================================
