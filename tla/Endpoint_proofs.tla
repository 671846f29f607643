---------------------------- MODULE Endpoint_proofs ----------------------------
(***************************************************************************)
(* The two ends of a call from outside: the quota it is charged to, for    *)
(* any callers, principals, limit, window and patience, and the inbox its  *)
(* goal lands in, for any set of requests and any clock.                   *)
(*                                                                         *)
(* A name in the inbox is looked for before it is created, so nothing      *)
(* keeps two requests from one name; the proof is that those who share one *)
(* know no third, and are all in raced.                                    *)
(***************************************************************************)
EXTENDS Quota, GoalInbox, FiniteSetTheorems, TLAPS

-------------------------------------------------------------------------------
(* Quota                                                                     *)

(* A caller that waits is not out of patience, and one that holds the lock
   took it within its patience.                                             *)
Timely ==
  /\ turn <= clock
  /\ \A c \in Callers :
       /\ moment[c] <= clock
       /\ at[c] = "waiting" => clock <= moment[c] + Patience
       /\ at[c] = "locked" => moment[c] <= turn /\ turn <= moment[c] + Patience

(* What a holder has read is what the file still is.                        *)
LockHeld == \A c \in Callers : at[c] = "locked" => holder = {c} /\ seen[c] = calls

(* Stamps are of grants, and leave the file only when a window has passed
   them at the time the lock was taken.                                     *)
StampsOfGrants == \A p \in Principals : calls[p] \subseteq grants[p]
PrunedInTime ==
  \A p \in Principals : \A s \in grants[p] : s \in calls[p] \/ s[2] + Window <= turn

QuotaInv ==
  QTypeOK /\ Timely /\ LockHeld /\ StampsOfGrants /\ PrunedInTime
  /\ WithinQuota /\ RefusalJustified

-------------------------------------------------------------------------------
LEMMA StampsFinite == ASSUME NEW S \in SUBSET Stamp PROVE IsFiniteSet(S) /\ Cardinality(S) \in Nat
<1>1. IsFiniteSet(1 .. MaxCalls) /\ IsFiniteSet(0 .. MaxTime)
  BY QuotaAssumption, FS_Interval
<1>2. IsFiniteSet(Stamp)
  BY <1>1, FS_Product DEF Stamp
<1> QED
  BY <1>2, FS_Subset, FS_CardinalityType

LEMMA InitQuota == ASSUME QInit PROVE QuotaInv
<1> USE QuotaAssumption DEF QInit, Nothing
<1>1. QTypeOK
  BY DEF QTypeOK, QPCs
<1>2. Timely /\ LockHeld /\ StampsOfGrants /\ PrunedInTime /\ RefusalJustified
  BY DEF Timely, LockHeld, StampsOfGrants, PrunedInTime, RefusalJustified
<1>3. \A p \in Principals, x \in 0 .. MaxTime : GrantedBetween(p, x) = {}
  BY DEF GrantedBetween
<1>4. WithinQuota
  <2> SUFFICES ASSUME NEW p \in Principals, NEW x \in 0 .. MaxTime
               PROVE  Cardinality(GrantedBetween(p, x)) <= Limit
    BY DEF WithinQuota
  <2>1. Cardinality(GrantedBetween(p, x)) = 0
    BY <1>3, FS_EmptySet
  <2> QED
    BY <2>1
<1> QED
  BY <1>1, <1>2, <1>4 DEF QuotaInv

(* The step that decides: under the lock, with the file as it is.           *)
LEMMA GrantKeepsQuota ==
  ASSUME QuotaInv, NEW c \in Callers, Grant(c)
  PROVE  WithinQuota'
<1> USE DEF QuotaInv, QTypeOK
<1> DEFINE s == <<charged + 1, moment[c]>>
           q == who[c]
<1>1. q \in Principals /\ at[c] = "locked" /\ seen[c] = calls /\ turn <= moment[c] + Patience
  BY DEF Grant, LockHeld, Timely
<1>2. grants' = [grants EXCEPT ![q] = @ \cup {s}] /\ s \in Stamp
  BY QuotaAssumption DEF Grant, Stamp
<1>3. Recent(c) \in SUBSET Stamp /\ Cardinality(Recent(c)) < Limit
  BY <1>1 DEF Grant, Recent
<1> SUFFICES ASSUME NEW p \in Principals, NEW x \in 0 .. MaxTime
             PROVE  Cardinality(GrantedBetween(p, x)') <= Limit
  BY DEF WithinQuota
<1> DEFINE S == GrantedBetween(p, x)
<1>4. Cardinality(S) <= Limit /\ S \in SUBSET Stamp
  BY DEF WithinQuota, GrantedBetween
<1>5. CASE p = q /\ x < moment[c] /\ moment[c] + Patience <= x + Window
  <2>1. GrantedBetween(p, x)' = S \cup {s}
    BY <1>2, <1>5 DEF GrantedBetween
  <2>2. S \subseteq Recent(c)
    <3> SUFFICES ASSUME NEW u \in S PROVE u \in Recent(c)
      OBVIOUS
    <3>1. u \in grants[q] /\ x < u[2] /\ u[2] \in Nat
      BY <1>5, QuotaAssumption DEF GrantedBetween, Stamp
    <3>2. ~ (u[2] + Window <= turn)
      BY <1>1, <1>5, <3>1, QuotaAssumption
    <3>3. u \in calls[q]
      BY <1>1, <3>1, <3>2 DEF PrunedInTime
    <3>4. u[2] + Window > moment[c]
      BY <1>5, <3>1, QuotaAssumption
    <3> QED
      BY <1>1, <3>3, <3>4 DEF Recent
  <2>3. Cardinality(S) <= Cardinality(Recent(c)) /\ Cardinality(Recent(c)) \in Nat
    BY <1>3, <2>2, StampsFinite, FS_Subset
  <2>4. IsFiniteSet(S) /\ Cardinality(S) \in Nat
    BY <1>4, StampsFinite
  <2>5. Cardinality(S \cup {s}) \in Nat
    BY <1>2, <1>4, StampsFinite
  <2> HIDE DEF S, s
  <2>6. Cardinality(S \cup {s}) <= Cardinality(S) + 1
    <3>1. Cardinality(S \cup {s}) = IF s \in S THEN Cardinality(S) ELSE Cardinality(S) + 1
      BY <2>4, FS_AddElement
    <3> QED
      BY <2>4, <3>1
  <2> QED
    BY <1>3, <2>1, <2>3, <2>4, <2>5, <2>6, QuotaAssumption
<1>6. CASE ~ (p = q /\ x < moment[c] /\ moment[c] + Patience <= x + Window)
  <2>1. GrantedBetween(p, x)' = S
    BY <1>1, <1>2, <1>6 DEF GrantedBetween
  <2> QED
    BY <1>4, <2>1
<1> QED
  BY <1>5, <1>6

(* Grants are never taken back, so that a refusal stays justified.          *)
LEMMA RefusalKept ==
  ASSUME QuotaInv, QTypeOK', \A p \in Principals : grants[p] \subseteq grants'[p],
         \A c \in Callers : at'[c] = "refused" =>
           at[c] = "refused" /\ who'[c] = who[c] /\ moment'[c] = moment[c]
  PROVE  RefusalJustified'
<1> SUFFICES ASSUME NEW c \in Callers, at'[c] = "refused"
             PROVE  Cardinality({s \in grants'[who'[c]] : s[2] + Window > moment'[c]}) >= Limit
  BY DEF RefusalJustified
<1> DEFINE S == {s \in grants[who[c]] : s[2] + Window > moment[c]}
           T == {s \in grants'[who[c]] : s[2] + Window > moment[c]}
<1>1. who[c] \in Principals /\ at[c] = "refused"
  BY DEF QuotaInv, QTypeOK
<1>2. Cardinality(S) >= Limit
  BY <1>1 DEF QuotaInv, RefusalJustified
<1>3. S \subseteq T /\ T \in SUBSET Stamp /\ S \in SUBSET Stamp
  BY <1>1 DEF QuotaInv, QTypeOK
<1>4. Cardinality(S) <= Cardinality(T) /\ Cardinality(T) \in Nat /\ Cardinality(S) \in Nat
  BY <1>3, StampsFinite, FS_Subset
<1>5. T = {s \in grants'[who'[c]] : s[2] + Window > moment'[c]}
  OBVIOUS
<1> HIDE DEF S, T
<1> QED
  BY <1>2, <1>4, <1>5, QuotaAssumption

LEMMA QuotaStep == ASSUME QuotaInv, [QNext]_qvars PROVE QuotaInv'
<1> USE QuotaAssumption DEF QuotaInv
<1>1. CASE Tick
  <2> USE <1>1 DEF Tick, state
  <2>1. QTypeOK'
    BY DEF QTypeOK
  <2>2. Timely' /\ LockHeld' /\ StampsOfGrants' /\ PrunedInTime'
    BY DEF QTypeOK, Timely, LockHeld, StampsOfGrants, PrunedInTime
  <2>3. WithinQuota' /\ RefusalJustified'
    BY DEF WithinQuota, GrantedBetween, RefusalJustified
  <2> QED
    BY <2>1, <2>2, <2>3
<1>2. ASSUME NEW c \in Callers,
             Lock(c) \/ GiveUp(c) \/ Answer(c) \/ Die(c) \/ \E p \in Principals : Call(c, p)
      PROVE  QuotaInv'
  <2>1. QTypeOK' /\ Timely'
    <3>1. CASE \E p \in Principals : Call(c, p)
      <4>1. PICK p \in Principals : Call(c, p)
        BY <3>1
      <4> QED
        BY <4>1 DEF Call, QGoto, state, QTypeOK, Timely, QPCs
    <3>2. CASE Lock(c)
      <4>1. /\ at[c] = "waiting" /\ holder = {} /\ at' = [at EXCEPT ![c] = "locked"]
            /\ seen' = [seen EXCEPT ![c] = calls] /\ holder' = {c} /\ turn' = clock
            /\ UNCHANGED <<clock, who, moment, calls, charged, grants>>
        BY <3>2 DEF Lock, QGoto, state
      <4>2. QTypeOK'
        BY <4>1 DEF QTypeOK, QPCs
      <4>3. Timely'
        BY <4>1 DEF QTypeOK, Timely, LockHeld
      <4> QED
        BY <4>2, <4>3
    <3>3. CASE GiveUp(c) \/ Answer(c) \/ Die(c)
      <4>1. /\ at' = [at EXCEPT ![c] = "idle"] /\ moment' = [moment EXCEPT ![c] = 0]
            /\ seen' = [seen EXCEPT ![c] = Nothing]
            /\ UNCHANGED <<clock, who, turn, calls, charged, grants>>
            /\ (holder' = holder \/ holder' = holder \ {c})
        BY <3>3 DEF GiveUp, Answer, Die, Leave, QGoto, state
      <4>2. Nothing \in [Principals -> SUBSET Stamp]
        BY DEF Nothing
      <4>3. QTypeOK'
        BY <4>1, <4>2 DEF QTypeOK, QPCs
      <4>4. Timely'
        BY <4>1 DEF QTypeOK, Timely
      <4> QED
        BY <4>3, <4>4
    <3> QED
      BY <1>2, <3>1, <3>2, <3>3
  <2> USE <1>2 DEF Lock, GiveUp, Answer, Die, Call, Leave, QGoto, state
  <2>2. UNCHANGED <<calls, grants, clock>> /\ turn' \in {turn, clock}
    OBVIOUS
  <2>4. LockHeld'
    BY DEF QTypeOK, LockHeld
  <2>5. StampsOfGrants' /\ WithinQuota'
    BY <2>2 DEF StampsOfGrants, WithinQuota, GrantedBetween
  <2>6. PrunedInTime'
    <3>1. \A p \in Principals : \A s \in grants[p] : s[2] \in Nat
      BY DEF QTypeOK, Stamp
    <3> QED
      BY <2>2, <3>1 DEF PrunedInTime, QTypeOK, Timely
  <2>7. RefusalJustified'
    <3>1. \A d \in Callers : at'[d] = "refused" =>
            at[d] = "refused" /\ who'[d] = who[d] /\ moment'[d] = moment[d]
      BY DEF QTypeOK
    <3> QED
      BY <2>1, <2>2, <3>1, RefusalKept
  <2> QED
    BY <2>1, <2>2, <2>4, <2>5, <2>6, <2>7
<1>3. ASSUME NEW c \in Callers, Grant(c) \/ Decline(c) PROVE QuotaInv'
  <2> DEFINE s == <<charged + 1, moment[c]>>
             q == who[c]
  <2>1. /\ at[c] = "locked" /\ holder = {c} /\ seen[c] = calls /\ q \in Principals
        /\ moment[c] <= turn
    BY <1>3 DEF Grant, Decline, LockHeld, QTypeOK, Timely
  <2>2. PICK kept \in SUBSET Stamp :
          /\ calls' = [calls EXCEPT ![q] = kept]
          /\ kept \subseteq grants'[q] /\ Recent(c) \subseteq kept
          /\ \A p \in Principals : grants[p] \subseteq grants'[p]
          /\ \A p \in Principals : \A t \in grants'[p] : t \in grants[p] \/ (p = q /\ t \in kept)
          /\ grants' \in [Principals -> SUBSET Stamp] /\ charged' \in 0 .. MaxCalls
    <3>1. Recent(c) \in SUBSET Stamp /\ Recent(c) \subseteq grants[q]
      BY <2>1 DEF Recent, QTypeOK, StampsOfGrants
    <3>2. CASE Grant(c)
      <4>1. s \in Stamp /\ grants' = [grants EXCEPT ![q] = @ \cup {s}]
            /\ charged' \in 0 .. MaxCalls
        BY <3>2 DEF Grant, Stamp, QTypeOK
      <4>2. calls' = [calls EXCEPT ![q] = Recent(c) \cup {s}]
        BY <2>1, <3>2 DEF Grant, Replace
      <4>3. Recent(c) \cup {s} \in SUBSET Stamp
        BY <3>1, <4>1
      <4> HIDE DEF s, q
      <4> WITNESS Recent(c) \cup {s} \in SUBSET Stamp
      <4> QED
        BY <2>1, <3>1, <4>1, <4>2 DEF QTypeOK
    <3>3. CASE Decline(c)
      <4>1. calls' = [calls EXCEPT ![q] = Recent(c)] /\ UNCHANGED <<grants, charged>>
        BY <2>1, <3>3 DEF Decline, Replace
      <4> HIDE DEF s, q
      <4>2. Recent(c) \in SUBSET Stamp
        BY <3>1
      <4> WITNESS Recent(c) \in SUBSET Stamp
      <4> QED
        BY <2>1, <3>1, <4>1 DEF QTypeOK
    <3> QED
      BY <1>3, <3>2, <3>3
  <2>3. /\ holder' = {} /\ UNCHANGED <<clock, who, moment, turn, seen>>
        /\ \A d \in Callers \ {c} : at'[d] = at[d]
        /\ at' \in [Callers -> QPCs] /\ at'[c] \in {"granted", "refused"}
    BY <1>3, <2>1 DEF Grant, Decline, Replace, QGoto, QTypeOK, QPCs
  <2>4. QTypeOK'
    BY <2>2, <2>3 DEF QTypeOK
  <2>5. Timely'
    BY <2>3 DEF Timely
  <2>6. LockHeld'
    BY <2>1, <2>3 DEF LockHeld
  <2>7. StampsOfGrants'
    BY <2>1, <2>2 DEF StampsOfGrants, QTypeOK
  <2>8. PrunedInTime'
    <3> SUFFICES ASSUME NEW p \in Principals, NEW t \in grants'[p], t \notin calls'[p]
                 PROVE  t[2] + Window <= turn
      BY <2>3 DEF PrunedInTime
    <3>1. t \in grants[p] /\ t[2] \in Nat
      BY <2>1, <2>2 DEF QTypeOK, Stamp
    <3>2. CASE t \notin calls[p]
      BY <3>1, <3>2 DEF PrunedInTime
    <3>3. CASE t \in calls[p]
      <4>1. p = q /\ t \notin Recent(c)
        BY <2>2, <3>3 DEF QTypeOK
      <4>2. ~ (t[2] + Window > moment[c])
        BY <2>1, <3>3, <4>1 DEF Recent
      <4> QED
        BY <2>1, <3>1, <4>2 DEF QTypeOK
    <3> QED
      BY <3>2, <3>3
  <2>9. WithinQuota'
    <3>1. CASE Grant(c)
      BY <3>1, GrantKeepsQuota
    <3>2. CASE Decline(c)
      BY <3>2 DEF Decline, WithinQuota, GrantedBetween
    <3> QED
      BY <1>3, <3>1, <3>2
  <2>10. RefusalJustified'
    <3>1. CASE Grant(c)
      <4>1. \A d \in Callers : at'[d] = "refused" =>
              at[d] = "refused" /\ who'[d] = who[d] /\ moment'[d] = moment[d]
        BY <3>1 DEF Grant, QGoto, QTypeOK
      <4> QED
        BY <2>2, <2>4, <4>1, RefusalKept
    <3>2. CASE Decline(c)
      <4> SUFFICES ASSUME NEW d \in Callers, at'[d] = "refused"
                   PROVE  Cardinality({u \in grants[who[d]] : u[2] + Window > moment[d]}) >= Limit
        BY <2>3, <3>2 DEF RefusalJustified, Decline
      <4>1. CASE d # c
        BY <2>3, <4>1 DEF RefusalJustified
      <4>2. CASE d = c
        <5> DEFINE T == {u \in grants[q] : u[2] + Window > moment[c]}
        <5>1. Recent(c) \subseteq T /\ T \in SUBSET Stamp /\ Recent(c) \in SUBSET Stamp
          BY <2>1 DEF Recent, StampsOfGrants, QTypeOK
        <5>2. Cardinality(Recent(c)) <= Cardinality(T)
              /\ Cardinality(T) \in Nat /\ Cardinality(Recent(c)) \in Nat
          BY <5>1, StampsFinite, FS_Subset
        <5>3. Cardinality(Recent(c)) >= Limit
          BY <3>2 DEF Decline
        <5> HIDE DEF T
        <5>4. Cardinality(T) >= Limit
          BY <5>2, <5>3
        <5> QED
          BY <4>2, <5>4 DEF T
      <4> QED
        BY <4>1, <4>2
    <3> QED
      BY <1>3, <3>1, <3>2
  <2> QED
    BY <2>4, <2>5, <2>6, <2>7, <2>8, <2>9, <2>10
<1>4. CASE UNCHANGED qvars
  BY <1>4 DEF qvars, state, QTypeOK, Timely, LockHeld, StampsOfGrants, PrunedInTime,
              WithinQuota, GrantedBetween, RefusalJustified
<1> QED
  BY <1>1, <1>2, <1>3, <1>4 DEF QNext, Step

-------------------------------------------------------------------------------
LEMMA QuotaInvariant == QSpec => []QuotaInv
<1>1. QInit => QuotaInv
  BY InitQuota
<1>2. QuotaInv /\ [QNext]_qvars => QuotaInv'
  BY QuotaStep
<1> QED
  BY <1>1, <1>2, PTL DEF QSpec

(* reserve keeps the type of the file and of all it holds.                  *)
THEOREM QuotaTyped == QSpec => []QTypeOK
<1>1. QuotaInv => QTypeOK
  BY DEF QuotaInv
<1> QED
  BY <1>1, QuotaInvariant, PTL

(* No stretch of the window less the patience holds more than max_calls
   grants of a principal, in whatever order callers reach the lock.         *)
THEOREM QuotaHolds == QSpec => []WithinQuota
<1>1. QuotaInv => WithinQuota
  BY DEF QuotaInv
<1> QED
  BY <1>1, QuotaInvariant, PTL

(* A grant inside the window is in the file, whoever replaces it or dies.   *)
THEOREM GrantsAreKept == QSpec => []RecentGrantsKept
<1>1. QuotaInv => RecentGrantsKept
  <2> SUFFICES ASSUME QuotaInv, NEW p \in Principals, NEW s \in grants[p], s[2] + Window > clock
               PROVE  s \in calls[p]
    BY DEF RecentGrantsKept
  <2>1. s[2] \in Nat /\ turn <= clock /\ turn \in Nat /\ clock \in Nat
    BY QuotaAssumption DEF QuotaInv, QTypeOK, Timely, Stamp
  <2>2. ~ (s[2] + Window <= turn)
    BY <2>1, QuotaAssumption
  <2> QED
    BY <2>2 DEF QuotaInv, PrunedInTime
<1> QED
  BY <1>1, QuotaInvariant, PTL

(* A refused call has max_calls grants of its own principal in its window.  *)
THEOREM RefusalsAreJustified == QSpec => []RefusalJustified
<1>1. QuotaInv => RefusalJustified
  BY DEF QuotaInv
<1> QED
  BY <1>1, QuotaInvariant, PTL

-------------------------------------------------------------------------------
(* GoalInbox                                                                 *)

Writes(r) == Kind[r] # "gate"

(* The requests whose name must stay theirs.                                *)
Claims(r) == Writes(r) /\ (pc[r] \in {"open", "fill", "audit", "answered"} \/ r \in audited)

KindsApart ==
  \A r \in Requests :
    /\ pc[r] \in {"probe", "open", "fill"} => Writes(r)
    /\ pc[r] \in {"decide", "append"} => ~Writes(r)

AuditComesLast == \A r \in audited : pc[r] \in {"answered", "error"}

ClaimsExist ==
  \A r \in Requests : Claims(r) /\ pc[r] # "open" => Name(r) \in DOMAIN files

ClaimsApart ==
  \A r, q \in Requests :
    r # q /\ Claims(r) /\ Claims(q) /\ Name(r) = Name(q) => r \in raced

TextsKept ==
  \A r \in Requests : Claims(r) /\ r \notin raced =>
    /\ pc[r] = "fill" => files[Name(r)] = {}
    /\ pc[r] \notin {"open", "fill"} => files[Name(r)] = {r}

NothingYet ==
  \A r \in Requests : pc[r] \in {"idle", "refused", "decide"} =>
    \A f \in DOMAIN files : r \notin files[f]

InboxInv ==
  /\ KindsApart /\ AuditComesLast /\ ClaimsExist /\ ClaimsApart
  /\ TextsKept /\ NothingYet

(* The ledger: half a line is of a request that failed or was killed, and   *)
(* the next line takes it away; an approval that a handler knows of is in   *)
(* the ledger, or glued to such a half.                                     *)
HalvesAreOver ==
  /\ \A q \in cut : pc[q] \in {"error", "dead"}
  /\ \A g \in glued : pc[g[1]] \in {"error", "dead"} /\ g[1] # g[2] /\ g[1] \notin cut

OneLossEach == \A g, h \in glued : g[1] = h[1] => g = h

ApprovalsKept ==
  \A r \in Requests :
    ~Writes(r) /\ (pc[r] = "audit" \/ r \in audited) =>
      r \in approvals \/ \E q \in Requests : <<q, r>> \in glued

NoLineYet ==
  \A r \in Requests : pc[r] \in {"idle", "refused", "decide"} => r \notin approvals \cup cut

LedgerInv == HalvesAreOver /\ OneLossEach /\ ApprovalsKept /\ NoLineYet

-------------------------------------------------------------------------------
(* Every variable keeps its type; a file is never removed, and what is      *)
(* written has been opened.                                                 *)
Opened == \A r \in Requests : pc[r] = "fill" => Name(r) \in DOMAIN files

THEOREM InboxTyped == Spec => []TypeOK
<1> DEFINE TypeInv == TypeOK /\ Opened
<1>1. Init => TypeInv
  BY DEF Init, TypeOK, Opened, AtWork, Ended
<1>2. TypeInv /\ [Next]_vars => TypeInv'
  <2> SUFFICES ASSUME TypeOK, Opened, [Next]_vars  PROVE TypeOK' /\ Opened'
    OBVIOUS
  <2> USE DEF TypeOK, Opened, AtWork, Ended, Goto, written, ledger
  <2>1. CASE UNCHANGED vars
    BY <2>1 DEF vars, Name
  <2>2. ASSUME NEW r \in Requests, Refuse(r) \/ Accept(r) \/ Probe(r) \/ ProbeNext(r)
               \/ Decide(r) \/ Append(r) \/ Audit(r)
        PROVE  TypeOK' /\ Opened'
    <3>1. TypeOK'
      BY <2>2 DEF Refuse, Accept, Probe, Rivals, ProbeNext, Decide, Append, Line, Audit
    <3>2. Opened'
      BY <2>2 DEF Refuse, Accept, Probe, Rivals, ProbeNext, Decide, Append, Audit, Name
    <3> QED
      BY <3>1, <3>2
  <2>3. ASSUME NEW r \in Requests  PROVE Name(r) \in Names
    BY GoalInboxAssumption, <2>3 DEF Name, Names, Inbox
  <2>4. ASSUME NEW r \in Requests, Open(r)  PROVE TypeOK' /\ Opened'
    <3>1. Put(Name(r), {})
      BY <2>4 DEF Open
    <3>2. /\ DOMAIN files' = DOMAIN files \cup {Name(r)}
          /\ files' \in [DOMAIN files' -> SUBSET Requests]
      BY <3>1 DEF Put
    <3>3. TypeOK'
      BY <2>3, <2>4, <3>2 DEF Open
    <3>4. Opened'
      BY <2>4, <3>2 DEF Open, Name
    <3> QED
      BY <3>3, <3>4
  <2>5. ASSUME NEW r \in Requests, Fill(r)  PROVE TypeOK' /\ Opened'
    <3>1. PICK rest \in {{}, files[Name(r)]} : Put(Name(r), {r} \cup rest)
      BY <2>5 DEF Fill
    <3>2. Name(r) \in DOMAIN files
      BY <2>5 DEF Fill
    <3>3. {r} \cup rest \in SUBSET Requests
      BY <3>1, <3>2
    <3>4. /\ DOMAIN files' = DOMAIN files
          /\ files' \in [DOMAIN files' -> SUBSET Requests]
      BY <3>1, <3>2, <3>3 DEF Put
    <3>5. TypeOK'
      BY <2>5, <3>4 DEF Fill
    <3>6. Opened'
      BY <2>5, <3>4 DEF Fill, Name
    <3> QED
      BY <3>5, <3>6
  <2>6. ASSUME NEW r \in Requests, Fail(r)  PROVE TypeOK' /\ Opened'
    <3>1. DOMAIN files' = DOMAIN files /\ files' \in [DOMAIN files' -> SUBSET Requests]
      BY <2>6 DEF Fail
    <3>2. TypeOK'
      BY <2>6, <3>1 DEF Fail, Line, Half
    <3>3. Opened'
      BY <2>6, <3>1 DEF Fail, Name
    <3> QED
      BY <3>2, <3>3
  <2>7. ASSUME NEW process \in SUBSET Requests, Kill(process)  PROVE TypeOK' /\ Opened'
    BY <2>7 DEF Kill, Half, Name
  <2>8. CASE Configure
    BY <2>8 DEF Configure, Name
  <2> QED
    BY <2>1, <2>2, <2>4, <2>5, <2>6, <2>7, <2>8 DEF Next, Work, Outside
<1> QED
  BY <1>1, <1>2, PTL DEF Spec

-------------------------------------------------------------------------------
(* The steps that touch no file, and name no one.                           *)
LEMMA QuietSteps ==
  ASSUME TypeOK, InboxInv,
         \/ \E r \in Requests : Refuse(r) \/ Decide(r)
         \/ \E process : Kill(process)
         \/ Configure \/ UNCHANGED vars
  PROVE  InboxInv'
<1> USE DEF TypeOK, AtWork, Ended, Goto, written, Claims, Writes, Name
<1>1. UNCHANGED <<second, counter, files, audited, raced>>
  BY DEF Refuse, Decide, Kill, Configure, vars
<1>2. \A r \in Requests :
        \/ pc'[r] = pc[r]
        \/ pc[r] \in AtWork /\ pc'[r] = "dead"
        \/ pc[r] = "idle" /\ pc'[r] = "refused"
        \/ pc[r] = "decide" /\ pc'[r] \in {"append", "refused"}
  BY DEF Refuse, Decide, Kill, Configure, vars
<1>3. KindsApart'
  BY <1>1, <1>2 DEF InboxInv, KindsApart
<1>4. AuditComesLast'
  BY <1>1, <1>2 DEF InboxInv, AuditComesLast
<1>5. ClaimsExist'
  BY <1>1, <1>2 DEF InboxInv, ClaimsExist, AuditComesLast
<1>6. ClaimsApart'
  BY <1>1, <1>2 DEF InboxInv, ClaimsApart
<1>7. TextsKept'
  BY <1>1, <1>2 DEF InboxInv, TextsKept, AuditComesLast
<1>8. NothingYet'
  BY <1>1, <1>2 DEF InboxInv, NothingYet
<1> QED
  BY <1>3, <1>4, <1>5, <1>6, <1>7, <1>8 DEF InboxInv

(* The steps up to the choice of a name.                                    *)
LEMMA NamingSteps ==
  ASSUME TypeOK, InboxInv, NEW r \in Requests, Accept(r) \/ Probe(r) \/ ProbeNext(r)
  PROVE  InboxInv'
<1> USE DEF TypeOK, AtWork, Ended, Goto, written, Claims, Writes
<1>1. UNCHANGED <<files, audited>> /\ raced \subseteq raced'
  BY DEF Accept, Probe, ProbeNext
<1>2. /\ pc[r] \in {"idle", "probe"} /\ pc'[r] \in {"probe", "open", "decide"}
      /\ pc'[r] = "decide" => ~Writes(r) /\ pc[r] = "idle"
      /\ pc'[r] \in {"probe", "open"} => Writes(r)
      /\ \A q \in Requests \ {r} : pc'[q] = pc[q]
  BY DEF Accept, Probe, ProbeNext, InboxInv, KindsApart
<1>3. \A q \in Requests \ {r} : Name(q)' = Name(q)
  BY DEF Accept, Probe, ProbeNext, Name
<1>4. pc'[r] = "open" => Name(r)' = Name(r) /\ Name(r) \notin DOMAIN files
  BY DEF Accept, Probe, ProbeNext, Name
<1>4r. pc'[r] = "open" => \A o \in Rivals(r) : r \in raced' /\ o \in raced'
  BY DEF Accept, Probe, ProbeNext
<1>5. r \notin audited
  BY <1>2 DEF InboxInv, AuditComesLast
<1>6. KindsApart'
  BY <1>2 DEF InboxInv, KindsApart
<1>7. AuditComesLast'
  BY <1>1, <1>2, <1>5 DEF InboxInv, AuditComesLast
<1>8. ClaimsExist'
  BY <1>1, <1>2, <1>3, <1>5 DEF InboxInv, ClaimsExist
<1>9. ClaimsApart'
  <2> SUFFICES ASSUME NEW p \in Requests, NEW q \in Requests, p # q,
                      Claims(p)', Claims(q)', Name(p)' = Name(q)'
               PROVE  p \in raced'
    BY DEF ClaimsApart
  <2>1. CASE p # r /\ q # r
    BY <1>1, <1>2, <1>3, <2>1 DEF InboxInv, ClaimsApart
  <2>2. ASSUME NEW o \in Requests \ {r}, Claims(o), Name(o) = Name(r), pc'[r] = "open"
        PROVE  r \in raced' /\ o \in raced'
    <3>1. pc[o] = "open"
      BY <1>4, <2>2 DEF InboxInv, ClaimsExist
    <3>2. o \in Rivals(r)
      BY <2>2, <3>1 DEF Rivals
    <3> QED
      BY <1>4r, <2>2, <3>2
  <2>3. CASE p = r
    <3>1. pc'[r] = "open"
      BY <1>1, <1>2, <1>5, <2>3
    <3>2. Claims(q)
      BY <1>1, <1>2, <2>3
    <3>3. Name(q)' = Name(q) /\ Name(r)' = Name(r)
      BY <1>3, <1>4, <2>3, <3>1
    <3>4. Name(q) = Name(r)
      BY <2>3, <3>3
    <3> QED
      BY <2>2, <2>3, <3>1, <3>2, <3>4
  <2>4. CASE q = r
    <3>1. pc'[r] = "open"
      BY <1>1, <1>2, <1>5, <2>4
    <3>2. Claims(p)
      BY <1>1, <1>2, <2>4
    <3>3. Name(p)' = Name(p) /\ Name(r)' = Name(r)
      BY <1>3, <1>4, <2>4, <3>1
    <3>4. Name(p) = Name(r)
      BY <2>4, <3>3
    <3> QED
      BY <2>2, <2>4, <3>1, <3>2, <3>4
  <2> QED
    BY <2>1, <2>3, <2>4
<1>10. TextsKept'
  BY <1>1, <1>2, <1>3, <1>5 DEF InboxInv, TextsKept
<1>11. NothingYet'
  BY <1>1, <1>2 DEF InboxInv, NothingYet
<1> QED
  BY <1>6, <1>7, <1>8, <1>9, <1>10, <1>11 DEF InboxInv

(* The two steps that write a file: what they put there spoils no text but  *)
(* one of a request that shares the name.                                   *)
LEMMA WritingSteps ==
  ASSUME TypeOK, InboxInv, NEW r \in Requests, Open(r) \/ Fill(r)
  PROVE  InboxInv'
<1> USE DEF TypeOK, AtWork, Ended, Goto, Claims, Writes
<1> DEFINE n == Name(r)
<1>1. /\ UNCHANGED <<second, counter, audited, raced>>
      /\ pc[r] \in {"open", "fill"} /\ Writes(r) /\ r \notin audited
      /\ pc'[r] = IF pc[r] = "open" THEN "fill" ELSE "audit"
      /\ \A q \in Requests \ {r} : pc'[q] = pc[q]
  BY DEF Open, Fill, InboxInv, KindsApart, AuditComesLast
<1>2. \A q \in Requests : Name(q)' = Name(q)
  BY <1>1 DEF Name
<1>3. pc[r] = "fill" => n \in DOMAIN files /\ (r \notin raced => files[n] = {})
  BY <1>1 DEF InboxInv, ClaimsExist, TextsKept
<1>4. PICK text \in SUBSET Requests :
        /\ Put(n, text)
        /\ pc[r] = "open" => text = {}
        /\ pc[r] = "fill" => text = {r} \/ text = {r} \cup files[n]
  <2>1. CASE pc[r] = "open"
    BY <2>1 DEF Open, Fill
  <2>2. CASE pc[r] = "fill"
    <3>1. PICK rest \in {{}, files[n]} : Put(n, {r} \cup rest)
      BY <2>2 DEF Open, Fill
    <3>2. {r} \cup rest \in SUBSET Requests
      BY <1>3, <2>2, <3>1
    <3> QED
      BY <2>2, <3>1, <3>2
  <2> QED
    BY <1>1, <2>1, <2>2
<1>5. /\ DOMAIN files' = DOMAIN files \cup {n}
      /\ files'[n] = text
      /\ \A f \in DOMAIN files \ {n} : files'[f] = files[f]
  BY <1>4 DEF Put
<1>6. \A q \in Requests \ {r} : Claims(q) /\ Name(q) = n => q \in raced
  BY <1>1 DEF InboxInv, ClaimsApart
<1> HIDE DEF n
<1>7. KindsApart'
  BY <1>1 DEF InboxInv, KindsApart
<1>8. AuditComesLast'
  BY <1>1 DEF InboxInv, AuditComesLast
<1>9. ClaimsExist'
  <2> SUFFICES ASSUME NEW q \in Requests, Claims(q)', pc'[q] # "open"
               PROVE  Name(q)' \in DOMAIN files'
    BY DEF ClaimsExist
  <2>1. CASE q = r
    BY <1>2, <1>5, <2>1 DEF n
  <2>2. CASE q # r
    <3>1. Name(q) \in DOMAIN files
      BY <1>1, <2>2 DEF InboxInv, ClaimsExist
    <3> QED
      BY <1>2, <1>5, <3>1
  <2> QED
    BY <2>1, <2>2
<1>10. ClaimsApart'
  <2> SUFFICES ASSUME NEW p \in Requests, NEW q \in Requests, p # q,
                      Claims(p)', Claims(q)', Name(p)' = Name(q)'
               PROVE  p \in raced
    BY <1>1 DEF ClaimsApart
  <2>1. Claims(p) /\ Claims(q)
    BY <1>1
  <2>2. Name(p) = Name(q)
    BY <1>2
  <2> QED
    BY <2>1, <2>2 DEF InboxInv, ClaimsApart
<1>11. TextsKept'
  <2> SUFFICES ASSUME NEW q \in Requests, Claims(q)', q \notin raced
               PROVE  /\ pc'[q] = "fill" => files'[Name(q)'] = {}
                      /\ pc'[q] \notin {"open", "fill"} => files'[Name(q)'] = {q}
    BY <1>1 DEF TextsKept
  <2>0. Name(q)' = Name(q)
    BY <1>2
  <2>1. CASE q = r
    <3>1. files'[Name(q)'] = text
      BY <1>5, <2>0, <2>1 DEF n
    <3> QED
      BY <1>1, <1>3, <1>4, <2>1, <3>1
  <2>2. CASE q # r /\ pc[q] # "open"
    <3>1. Claims(q) /\ pc'[q] = pc[q]
      BY <1>1, <2>2
    <3>2. Name(q) \in DOMAIN files \ {n}
      BY <1>6, <2>2, <3>1 DEF InboxInv, ClaimsExist
    <3>3. files'[Name(q)'] = files[Name(q)]
      BY <1>5, <2>0, <3>2
    <3> QED
      BY <3>1, <3>3 DEF InboxInv, TextsKept
  <2>3. CASE q # r /\ pc[q] = "open"
    BY <1>1, <2>3
  <2> QED
    BY <2>1, <2>2, <2>3
<1>12. NothingYet'
  BY <1>1, <1>3, <1>4, <1>5 DEF InboxInv, NothingYet
<1> QED
  BY <1>7, <1>8, <1>9, <1>10, <1>11, <1>12 DEF InboxInv

(* The steps after which a request claims no more than before, and the text *)
(* of no one else is touched unless the name is shared.                     *)
LEMMA EndingSteps ==
  ASSUME TypeOK, InboxInv, NEW r \in Requests, Append(r) \/ Audit(r) \/ Fail(r)
  PROVE  InboxInv'
<1> USE DEF TypeOK, AtWork, Ended, Goto, Claims, Writes
<1> DEFINE n == Name(r)
<1>1. /\ UNCHANGED <<second, counter, raced>>
      /\ \A q \in Requests \ {r} : pc'[q] = pc[q]
      /\ pc[r] \in {"open", "fill", "append", "audit"} /\ r \notin audited
      /\ pc'[r] \in {"audit", "answered", "error"}
      /\ pc'[r] = "audit" => pc[r] = "append"
      /\ audited \subseteq audited' /\ audited' \subseteq audited \cup {r}
      /\ audited' # audited => pc[r] = "audit"
      /\ pc'[r] = "answered" => pc[r] = "audit"
  BY DEF Append, Audit, Fail, InboxInv, AuditComesLast
<1>2. /\ pc[r] \in {"open", "fill"} => Writes(r)
      /\ pc[r] = "append" => ~Writes(r)
  BY DEF Append, Audit, Fail, InboxInv, KindsApart
<1>3. \A q \in Requests : Name(q)' = Name(q)
  BY <1>1 DEF Name
<1>4. /\ DOMAIN files' = DOMAIN files
      /\ \A f \in DOMAIN files : files'[f] = files[f] \/ (f = n /\ pc[r] = "fill" /\ files'[f] = {})
  BY DEF Append, Audit, Fail
<1>5. \A q \in Requests : Claims(q)' => Claims(q)
  BY <1>1, <1>2
<1>6. pc[r] = "fill" =>
        \A q \in Requests \ {r} : Claims(q) /\ Name(q) = n => q \in raced
  BY <1>2 DEF InboxInv, ClaimsApart
<1> HIDE DEF n
<1>7. KindsApart'
  BY <1>1 DEF InboxInv, KindsApart
<1>8. AuditComesLast'
  <2>1. audited' # audited => pc'[r] \in {"answered", "error"}
    BY <1>1
  <2> QED
    BY <1>1, <2>1 DEF InboxInv, AuditComesLast
<1>9. ClaimsExist'
  <2> SUFFICES ASSUME NEW q \in Requests, Claims(q)', pc'[q] # "open"
               PROVE  Name(q)' \in DOMAIN files'
    BY DEF ClaimsExist
  <2>1. Claims(q) /\ pc[q] # "open"
    BY <1>1, <1>5
  <2> QED
    BY <1>3, <1>4, <2>1 DEF InboxInv, ClaimsExist
<1>10. ClaimsApart'
  <2> SUFFICES ASSUME NEW p \in Requests, NEW q \in Requests, p # q,
                      Claims(p)', Claims(q)', Name(p)' = Name(q)'
               PROVE  p \in raced
    BY <1>1 DEF ClaimsApart
  <2>1. Claims(p) /\ Claims(q)
    BY <1>5
  <2>2. Name(p) = Name(q)
    BY <1>3
  <2> QED
    BY <2>1, <2>2 DEF InboxInv, ClaimsApart
<1>11. TextsKept'
  <2> SUFFICES ASSUME NEW q \in Requests, Claims(q)', q \notin raced
               PROVE  /\ pc'[q] = "fill" => files'[Name(q)'] = {}
                      /\ pc'[q] \notin {"open", "fill"} => files'[Name(q)'] = {q}
    BY <1>1 DEF TextsKept
  <2>0. Name(q)' = Name(q) /\ Claims(q)
    BY <1>3, <1>5
  <2>1. CASE pc[q] = "open"
    BY <1>1, <2>1
  <2>2. CASE pc[q] # "open"
    <3>1. Name(q) \in DOMAIN files
      BY <2>0, <2>2 DEF InboxInv, ClaimsExist
    <3>2. Name(q) # n \/ pc[r] # "fill"
      BY <1>1, <1>6, <2>0
    <3>3. files'[Name(q)'] = files[Name(q)]
      BY <1>4, <2>0, <3>1, <3>2
    <3>4. pc'[q] = pc[q] \/ (q = r /\ pc[q] = "audit" /\ pc'[q] \notin {"open", "fill"})
      BY <1>1, <1>2
    <3> QED
      BY <2>0, <3>3, <3>4 DEF InboxInv, TextsKept
  <2> QED
    BY <2>1, <2>2
<1>12. NothingYet'
  BY <1>1, <1>4 DEF InboxInv, NothingYet
<1> QED
  BY <1>7, <1>8, <1>9, <1>10, <1>11, <1>12 DEF InboxInv

-------------------------------------------------------------------------------
(* The ledger. A line is written by a request that is appending, and takes  *)
(* the halves before it away.                                               *)
LEMMA LineStep ==
  ASSUME TypeOK, InboxInv, LedgerInv, NEW r \in Requests, pc[r] = "append", Line(r),
         pc' = [pc EXCEPT ![r] = pc'[r]], pc'[r] \in {"audit", "error"},
         audited' = audited
  PROVE  LedgerInv'
<1> USE DEF TypeOK, Writes
<1>1. r \notin cut /\ r \notin audited
  BY DEF LedgerInv, HalvesAreOver, InboxInv, AuditComesLast
<1>2. \A g \in glued : g[1] # r
  BY DEF LedgerInv, HalvesAreOver
<1>3. \A g \in glued' : g \in glued \/ (g[1] \in cut /\ g[2] = r /\ g = <<g[1], r>>)
  BY DEF Line
<1>4. HalvesAreOver'
  BY <1>1, <1>2, <1>3 DEF LedgerInv, HalvesAreOver, Line
<1>5. OneLossEach'
  BY <1>3 DEF LedgerInv, HalvesAreOver, OneLossEach
<1>6. ApprovalsKept'
  <2>1. glued \subseteq glued' /\ approvals \subseteq approvals'
    BY DEF Line
  <2>2. r \in approvals' \/ \E q \in Requests : <<q, r>> \in glued'
    BY DEF Line
  <2> QED
    BY <2>1, <2>2 DEF LedgerInv, ApprovalsKept
<1>7. NoLineYet'
  BY DEF Line, LedgerInv, NoLineYet
<1> QED
  BY <1>4, <1>5, <1>6, <1>7 DEF LedgerInv

(* Half a line is left by a request that is appending and then over.        *)
LEMMA HalfStep ==
  ASSUME TypeOK, InboxInv, LedgerInv, NEW r \in Requests, pc[r] = "append", Half(r),
         pc'[r] \in {"error", "dead"},
         \A q \in Requests : pc'[q] = pc[q] \/ (pc[q] \in AtWork /\ pc'[q] \in {"error", "dead"}),
         audited' = audited
  PROVE  LedgerInv'
<1> USE DEF TypeOK, Writes, AtWork
<1>1. \A g \in glued : g[1] # r /\ g[1] \in Requests
  BY DEF LedgerInv, HalvesAreOver
<1>2. HalvesAreOver'
  BY <1>1 DEF LedgerInv, HalvesAreOver, Half
<1>3. OneLossEach' /\ NoLineYet'
  BY DEF LedgerInv, OneLossEach, NoLineYet, Half
<1>4. ApprovalsKept'
  BY DEF LedgerInv, ApprovalsKept, Half
<1> QED
  BY <1>2, <1>3, <1>4 DEF LedgerInv

(* The other steps leave the ledger alone.                                  *)
LEMMA NoLineStep ==
  ASSUME TypeOK, InboxInv, LedgerInv, UNCHANGED ledger,
         \A q \in Requests :
           /\ pc[q] \in {"error", "dead"} => pc'[q] = pc[q]
           /\ pc'[q] \in {"idle", "refused", "decide"} => pc[q] \in {"idle", "refused", "decide"}
           /\ pc'[q] = "audit" => pc[q] = "audit" \/ Writes(q)
           /\ q \in audited' => q \in audited \/ pc[q] = "audit"
  PROVE  LedgerInv'
<1> USE DEF TypeOK, Writes, ledger
<1>1. \A g \in glued : g[1] \in Requests
  OBVIOUS
<1>2. HalvesAreOver'
  BY <1>1 DEF LedgerInv, HalvesAreOver
<1>3. OneLossEach' /\ NoLineYet'
  BY DEF LedgerInv, OneLossEach, NoLineYet
<1>4. ApprovalsKept'
  BY DEF LedgerInv, ApprovalsKept
<1> QED
  BY <1>2, <1>3, <1>4 DEF LedgerInv

LEMMA LedgerStep ==
  ASSUME TypeOK, InboxInv, LedgerInv, [Next]_vars  PROVE LedgerInv'
<1> USE DEF TypeOK, AtWork, Ended, Goto, written, Writes
<1>1. CASE UNCHANGED vars
  BY <1>1, NoLineStep DEF vars
<1>2. ASSUME NEW r \in Requests, Refuse(r) \/ Accept(r) \/ Decide(r)  PROVE LedgerInv'
  BY <1>2, NoLineStep DEF Refuse, Accept, Decide
<1>3. ASSUME NEW r \in Requests, Probe(r) \/ ProbeNext(r) \/ Open(r)  PROVE LedgerInv'
  BY <1>3, NoLineStep DEF Probe, ProbeNext, Open
<1>4. ASSUME NEW r \in Requests, Fill(r) \/ Audit(r)  PROVE LedgerInv'
  BY <1>4, NoLineStep DEF Fill, Audit, InboxInv, KindsApart
<1>5. ASSUME NEW r \in Requests, Append(r)  PROVE LedgerInv'
  BY <1>5, LineStep DEF Append
<1>6. ASSUME NEW r \in Requests, Fail(r)  PROVE LedgerInv'
  <2>1. CASE UNCHANGED ledger
    BY <1>6, <2>1, NoLineStep DEF Fail
  <2>2. CASE pc[r] = "append" /\ Line(r)
    BY <1>6, <2>2, LineStep DEF Fail
  <2>3. CASE pc[r] = "append" /\ Half(r)
    BY <1>6, <2>3, HalfStep DEF Fail
  <2> QED
    BY <1>6, <2>1, <2>2, <2>3 DEF Fail
<1>7. ASSUME NEW process \in SUBSET Requests, Kill(process)  PROVE LedgerInv'
  <2>1. CASE UNCHANGED ledger
    BY <1>7, <2>1, NoLineStep DEF Kill
  <2>2. ASSUME NEW r \in process, pc[r] = "append", Half(r)  PROVE LedgerInv'
    BY <1>7, <2>2, HalfStep DEF Kill
  <2> QED
    BY <1>7, <2>1, <2>2 DEF Kill
<1>8. CASE Configure
  BY <1>8, NoLineStep DEF Configure
<1>9. Kill(Outside) \/ Kill(Requests \ Outside) => LedgerInv'
  <2>1. Outside \in SUBSET Requests /\ Requests \ Outside \in SUBSET Requests
    BY DEF Outside
  <2> QED
    BY <1>7, <2>1
<1> QED
  BY <1>1, <1>2, <1>3, <1>4, <1>5, <1>6, <1>8, <1>9 DEF Next, Work

-------------------------------------------------------------------------------
(* Both invariants hold, and with them both promises to the caller.             *)
THEOREM InvHolds == Spec => [](InboxInv /\ LedgerInv)
<1>1. Init => InboxInv
  BY DEF Init, InboxInv, KindsApart, AuditComesLast, ClaimsExist, ClaimsApart, TextsKept,
         NothingYet, Claims
<1>2. Init => LedgerInv
  BY DEF Init, LedgerInv, HalvesAreOver, OneLossEach, ApprovalsKept, NoLineYet
<1>3. TypeOK /\ InboxInv /\ [Next]_vars => InboxInv'
  BY QuietSteps, NamingSteps, WritingSteps, EndingSteps DEF Next, Work
<1> QED
  BY <1>1, <1>2, <1>3, LedgerStep, InboxTyped, PTL DEF Spec

(* A goal or an intent that was answered for is in its inbox, whole and     *)
(* under a name of its own, unless it was raced for its name.               *)
THEOREM AcceptedStays == Spec => []AcceptedIsKept
<1>1. InboxInv => AcceptedIsKept
  BY DEF InboxInv, AcceptedIsKept, Kept, ClaimsExist, TextsKept, Claims, Writes
<1> QED
  BY <1>1, InvHolds, PTL

(* No allow line of what was not done, but an approval that was glued to    *)
(* the half line of one that failed, and one at most to each; nothing left  *)
(* of what was refused.                                                     *)
THEOREM AuditIsHonest == Spec => []AuditedIsDone
<1>1. ASSUME TypeOK, InboxInv, LedgerInv  PROVE AuditedIsDone
  <2>1. ASSUME NEW r \in audited, Kind[r] = "gate"  PROVE r \in approvals \/ Lost(r)
    BY <1>1, <2>1 DEF TypeOK, LedgerInv, HalvesAreOver, ApprovalsKept, Writes, Lost
  <2>2. ASSUME NEW r \in audited, Kind[r] # "gate"  PROVE Kept(r) \/ r \in raced
    BY <1>1, <2>2 DEF TypeOK, InboxInv, Kept, AuditComesLast, ClaimsExist, TextsKept,
         Claims, Writes
  <2>3. \A r \in Requests : pc[r] = "refused" =>
          r \notin approvals \cup cut /\ \A f \in DOMAIN files : r \notin files[f]
    BY <1>1 DEF InboxInv, NothingYet, LedgerInv, NoLineYet
  <2> QED
    BY <1>1, <2>1, <2>2, <2>3 DEF AuditedIsDone, LedgerInv, OneLossEach
<1> QED
  BY <1>1, InboxTyped, InvHolds, PTL
===============================================================================
