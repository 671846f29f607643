--------------------------------- MODULE Quota ---------------------------------
(***************************************************************************)
(* tools/a2a/quota.py reserve, as tools/a2a/endpoint.py calls it: a sliding *)
(* window of calls for each principal, in one file that every caller reads *)
(* and replaces under the lock of scripts/filelock.py. The moment a call   *)
(* is charged for is taken before it waits for the lock, so calls may be   *)
(* charged in another order than their moments.                            *)
(***************************************************************************)
EXTENDS Naturals, FiniteSets

CONSTANTS
  Callers,    \* the processes and threads that serve calls
  Principals, \* those who are charged
  Limit,      \* max_calls of the policy in force
  Window,     \* window_seconds
  Patience,   \* seconds a caller waits for the lock at most
  MaxTime,    \* bound on the clock
  MaxCalls    \* bound on the calls charged

ASSUME QuotaAssumption ==
  /\ Limit \in Nat \ {0}
  /\ Window \in Nat \ {0}
  /\ Patience \in Nat
  /\ MaxTime \in Nat
  /\ MaxCalls \in Nat

(* A stamp is a moment; its number tells equal moments apart in the list.   *)
Stamp == (1 .. MaxCalls) \X (0 .. MaxTime)

Nothing == [p \in Principals |-> {}]

VARIABLES
  clock,    \* the wall clock, which does not go back
  at,       \* where each caller is
  who,      \* the principal it serves
  moment,   \* the moment of its call
  holder,   \* the callers that hold the lock of the file
  turn,     \* history: when the lock was last taken
  seen,     \* what each holder has read
  calls,    \* the file: the stamps of each principal
  charged,  \* how many calls were charged
  grants    \* history: all stamps a principal was granted

state == <<calls, charged, grants>>
qvars == <<clock, at, who, moment, holder, turn, seen, state>>

QPCs == {"idle", "waiting", "locked", "granted", "refused"}

QInit ==
  /\ clock = 0
  /\ at = [c \in Callers |-> "idle"]
  /\ who \in [Callers -> Principals]
  /\ moment = [c \in Callers |-> 0]
  /\ holder = {}
  /\ turn = 0
  /\ calls = Nothing
  /\ seen = [c \in Callers |-> Nothing]
  /\ charged = 0
  /\ grants = Nothing

QGoto(c, there) == at' = [at EXCEPT ![c] = there]

(* reserve is left, and its local variables with it.                        *)
Leave(c) ==
  /\ QGoto(c, "idle")
  /\ moment' = [moment EXCEPT ![c] = 0]
  /\ seen' = [seen EXCEPT ![c] = Nothing]

-------------------------------------------------------------------------------
(* The call has passed the checks before it, and takes its moment.          *)
Call(c, p) ==
  /\ at[c] = "idle"
  /\ charged < MaxCalls
  /\ who' = [who EXCEPT ![c] = p]
  /\ moment' = [moment EXCEPT ![c] = clock]
  /\ QGoto(c, "waiting")
  /\ UNCHANGED <<clock, holder, turn, seen, state>>

LockShared(c) ==   \* mutant: the file is read without the lock
  /\ at[c] = "waiting"
  /\ holder' = holder \cup {c}
  /\ turn' = clock
  /\ seen' = [seen EXCEPT ![c] = calls]
  /\ QGoto(c, "locked")
  /\ UNCHANGED <<clock, who, moment, state>>

(* exclusive_lock, and the read that follows it.                            *)
Lock(c) ==
  /\ at[c] = "waiting"
  /\ holder = {}
  /\ holder' = {c}
  /\ turn' = clock
  /\ seen' = [seen EXCEPT ![c] = calls]
  /\ QGoto(c, "locked")
  /\ UNCHANGED <<clock, who, moment, state>>

(* LockTimeout, which reserve and the endpoint pass on.                     *)
GiveUp(c) ==
  /\ at[c] = "waiting"
  /\ holder # {}
  /\ clock >= moment[c] + Patience
  /\ Leave(c)
  /\ UNCHANGED <<clock, who, holder, turn, state>>

(* The stamps of the call's principal that its window has not passed.       *)
Recent(c) == {s \in seen[c][who[c]] : s[2] + Window > moment[c]}

ReplaceAll(c, stamps) ==   \* mutant: the other principals are left out
  /\ calls' = [p \in Principals |-> IF p = who[c] THEN stamps ELSE {}]
  /\ holder' = holder \ {c}

(* The replacement of the file, with what was read of the other principals. *)
Replace(c, stamps) ==
  /\ calls' = [seen[c] EXCEPT ![who[c]] = stamps]
  /\ holder' = holder \ {c}

Grant(c) ==
  /\ at[c] = "locked"
  /\ Cardinality(Recent(c)) < Limit
  /\ charged < MaxCalls
  /\ LET s == <<charged + 1, moment[c]>> IN
       /\ Replace(c, Recent(c) \cup {s})
       /\ grants' = [grants EXCEPT ![who[c]] = @ \cup {s}]
  /\ charged' = charged + 1
  /\ QGoto(c, "granted")
  /\ UNCHANGED <<clock, who, moment, turn, seen>>

DeclineStamped(c) ==   \* mutant: a refused call is stamped like any other
  /\ at[c] = "locked"
  /\ Cardinality(Recent(c)) >= Limit
  /\ charged < MaxCalls
  /\ Replace(c, Recent(c) \cup {<<charged + 1, moment[c]>>})
  /\ charged' = charged + 1
  /\ QGoto(c, "refused")
  /\ UNCHANGED <<clock, who, moment, turn, seen, grants>>

Decline(c) ==
  /\ at[c] = "locked"
  /\ Cardinality(Recent(c)) >= Limit
  /\ Replace(c, Recent(c))
  /\ QGoto(c, "refused")
  /\ UNCHANGED <<clock, who, moment, turn, seen, charged, grants>>

(* The endpoint answers; a charge stays, whatever admission says of it.     *)
Answer(c) ==
  /\ at[c] \in {"granted", "refused"}
  /\ Leave(c)
  /\ UNCHANGED <<clock, who, holder, turn, state>>

(* A kill: before the replacement it charges nothing, after it the charge   *)
(* stays unanswered. The flock goes with the process.                       *)
Die(c) ==
  /\ at[c] # "idle"
  /\ Leave(c)
  /\ holder' = holder \ {c}
  /\ UNCHANGED <<clock, who, turn, state>>

(* Nobody waits longer than its patience.                                   *)
Tick ==
  /\ clock < MaxTime
  /\ \A c \in Callers : at[c] = "waiting" => clock < moment[c] + Patience
  /\ clock' = clock + 1
  /\ UNCHANGED <<at, who, moment, holder, turn, seen, state>>

Step(c) == Lock(c) \/ GiveUp(c) \/ Grant(c) \/ Decline(c) \/ Answer(c) \/ Die(c)

QNext == Tick \/ \E c \in Callers : Step(c) \/ \E p \in Principals : Call(c, p)

QSpec == QInit /\ [][QNext]_qvars

-------------------------------------------------------------------------------
QTypeOK ==
  /\ clock \in 0 .. MaxTime
  /\ at \in [Callers -> QPCs]
  /\ who \in [Callers -> Principals]
  /\ moment \in [Callers -> 0 .. MaxTime]
  /\ holder \in SUBSET Callers
  /\ turn \in 0 .. MaxTime
  /\ seen \in [Callers -> [Principals -> SUBSET Stamp]]
  /\ calls \in [Principals -> SUBSET Stamp]
  /\ charged \in 0 .. MaxCalls
  /\ grants \in [Principals -> SUBSET Stamp]

(* However calls overtake one another on the way to the lock, no stretch of *)
(* time that is shorter than the window by the patience of a caller has     *)
(* more than Limit calls granted to a principal.                            *)
GrantedBetween(p, x) == {s \in grants[p] : x < s[2] /\ s[2] + Patience <= x + Window}

WithinQuota ==
  \A p \in Principals, x \in 0 .. MaxTime : Cardinality(GrantedBetween(p, x)) <= Limit

(* A grant that is inside the window now is in the file: no update of any   *)
(* principal, and no death, loses it.                                       *)
RecentGrantsKept ==
  \A p \in Principals : \A s \in grants[p] : s[2] + Window > clock => s \in calls[p]

(* A call is refused only for calls of its own principal, granted within    *)
(* its window: not for those of another, nor for refused or dead ones.      *)
RefusalJustified ==
  \A c \in Callers : at[c] = "refused" =>
    Cardinality({s \in grants[who[c]] : s[2] + Window > moment[c]}) >= Limit
===============================================================================
