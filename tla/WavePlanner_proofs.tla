--------------------------- MODULE WavePlanner_proofs ---------------------------
(***************************************************************************)
(* For any board, any number of waves at a time and any wave size: agents  *)
(* at work have zones of their own, and all their tickets depend on is     *)
(* done.                                                                   *)
(***************************************************************************)
EXTENDS WavePlanner, FiniteSetTheorems, TLAPS

(* The types without the size of a plan.                                    *)
Types ==
  /\ field \in [Tickets -> Frontmatter]
  /\ status \in [Tickets -> Statuses]
  /\ pc \in [Waves -> {"idle", "planning", "running"}]
  /\ snap \in [Waves -> [Tickets -> Statuses]]
  /\ taken \in [Waves -> SUBSET Nat]
  /\ plan \in [Waves -> SUBSET Tickets]
  /\ left \in [Waves -> SUBSET Tickets]

(* Agents are at work for the plan of a wave that runs, and the plan of one *)
(* that is idle is gone.                                                    *)
LeftIsPlanned ==
  \A w \in Waves :
    /\ left[w] \subseteq plan[w]
    /\ pc[w] # "running" => left[w] = {}
    /\ pc[w] = "idle" => plan[w] = {}

OnePlanner ==
  \A v, w \in Waves : pc[v] = "planning" /\ pc[w] = "planning" => v = w

(* A planner regards as taken every zone at work and every zone it gave out, *)
(* and gave no zone twice, nor one at work.                                 *)
ZonesTaken ==
  \A w \in Waves : pc[w] = "planning" =>
    /\ ZonesAtWork \subseteq taken[w]
    /\ \A t \in plan[w] : EffectiveZone(t) \in taken[w] \ ZonesAtWork

PlanExclusive ==
  \A w \in Waves : \A t, u \in plan[w] : EffectiveZone(t) = EffectiveZone(u) => t = u

(* What a plan saw done is done on the board.                               *)
SnapshotHolds ==
  \A w \in Waves : pc[w] = "planning" =>
    \A t \in Tickets : snap[w][t] = "done" => status[t] = "done"

PlanMet ==
  \A w \in Waves : \A t \in plan[w] : \A d \in field[t].deps : d # 0 /\ status[d] = "done"

PlannerInv ==
  /\ Types /\ LeftIsPlanned /\ OnePlanner /\ ZonesTaken /\ PlanExclusive
  /\ ZoneExclusive /\ SnapshotHolds /\ PlanMet

-------------------------------------------------------------------------------
(* The operators on tickets only look at the tickets' fields.               *)
LEMMA AtWorkIs ==
  ASSUME Types
  PROVE  /\ \A w \in Waves, t \in Tickets : <<w, t>> \in AtWork <=> t \in left[w]
         /\ \A z : z \in ZonesAtWork <=>
              \E w \in Waves : \E t \in left[w] : z = EffectiveZone(t)
<1>1. \A a : a \in AtWork <=> \E w \in Waves, t \in Tickets : a = <<w, t>> /\ t \in left[w]
  BY DEF AtWork
<1>2. \A w \in Waves : left[w] \subseteq Tickets
  BY DEF Types
<1>3. \A z : z \in ZonesAtWork <=> \E a \in AtWork : z = EffectiveZone(a[2])
  BY DEF ZonesAtWork
<1>4. \A w \in Waves, t \in Tickets : <<w, t>> \in AtWork <=> t \in left[w]
  BY <1>1
<1>5. ASSUME NEW z PROVE z \in ZonesAtWork <=>
                          \E w \in Waves : \E t \in left[w] : z = EffectiveZone(t)
  <2>1. ASSUME z \in ZonesAtWork
        PROVE  \E w \in Waves : \E t \in left[w] : z = EffectiveZone(t)
    <3>1. PICK a \in AtWork : z = EffectiveZone(a[2])
      BY <1>3, <2>1
    <3>2. PICK w \in Waves, t \in Tickets : a = <<w, t>> /\ t \in left[w]
      BY <1>1, <3>1
    <3>3. a[2] = t
      BY <3>2
    <3> QED
      BY <3>1, <3>2, <3>3
  <2>2. ASSUME NEW w \in Waves, NEW t \in left[w], z = EffectiveZone(t)
        PROVE  z \in ZonesAtWork
    <3>1. <<w, t>> \in AtWork /\ <<w, t>>[2] = t
      BY <1>2, <1>4
    <3> QED
      BY <1>3, <2>2, <3>1
  <2> QED
    BY <2>1, <2>2
<1> QED
  BY <1>4, <1>5

(* Zones at work, said without pairs.                                       *)
Exclusive ==
  \A v, w \in Waves : \A t \in left[v] : \A u \in left[w] :
    EffectiveZone(t) = EffectiveZone(u) => v = w /\ t = u

LEMMA ExclusiveIs == ASSUME Types PROVE ZoneExclusive <=> Exclusive
<1>1. \A w \in Waves : left[w] \subseteq Tickets
  BY DEF Types
<1>2. \A a : a \in AtWork <=> \E w \in Waves, t \in Tickets : a = <<w, t>> /\ t \in left[w]
  BY DEF AtWork
<1>3. ASSUME Exclusive PROVE ZoneExclusive
  <2> SUFFICES ASSUME NEW a \in AtWork, NEW b \in AtWork,
                      EffectiveZone(a[2]) = EffectiveZone(b[2])
               PROVE  a = b
    BY DEF ZoneExclusive
  <2>a. /\ \E v \in Waves, t \in Tickets : a = <<v, t>> /\ t \in left[v]
        /\ \E w \in Waves, u \in Tickets : b = <<w, u>> /\ u \in left[w]
    BY <1>2
  <2>1. PICK v \in Waves, t \in Tickets : a = <<v, t>> /\ t \in left[v]
    BY <2>a
  <2>2. PICK w \in Waves, u \in Tickets : b = <<w, u>> /\ u \in left[w]
    BY <2>a
  <2>3. a[2] = t /\ b[2] = u
    BY <2>1, <2>2
  <2>4. v = w /\ t = u
    BY <1>3, <2>1, <2>2, <2>3 DEF Exclusive
  <2> QED
    BY <2>1, <2>2, <2>4
<1>4. ASSUME ZoneExclusive PROVE Exclusive
  <2> SUFFICES ASSUME NEW v \in Waves, NEW w \in Waves, NEW t \in left[v], NEW u \in left[w],
                      EffectiveZone(t) = EffectiveZone(u)
               PROVE  v = w /\ t = u
    BY DEF Exclusive
  <2>1. <<v, t>> \in AtWork /\ <<w, u>> \in AtWork
    BY <1>1, <1>2
  <2>2. <<v, t>>[2] = t /\ <<w, u>>[2] = u
    OBVIOUS
  <2>3. <<v, t>> = <<w, u>>
    BY <1>4, <2>1, <2>2 DEF ZoneExclusive
  <2> QED
    BY <2>3
<1> QED
  BY <1>3, <1>4

LEMMA InitPlanner == ASSUME Init PROVE PlannerInv
<1> USE DEF Init, NoSnapshot
<1>1. Types
  BY WavePlannerAssumption DEF Types, Statuses
<1>2. LeftIsPlanned /\ OnePlanner /\ ZonesTaken /\ PlanExclusive /\ SnapshotHolds /\ PlanMet
  BY DEF LeftIsPlanned, OnePlanner, ZonesTaken, PlanExclusive, SnapshotHolds, PlanMet
<1>3. ZoneExclusive
  BY <1>1, ExclusiveIs DEF Exclusive
<1> QED
  BY <1>1, <1>2, <1>3 DEF PlannerInv

(* Where agents only stop working, the zones at work only get fewer.        *)
LEMMA FewerZones ==
  ASSUME Types, Types', UNCHANGED field, \A w \in Waves : left'[w] \subseteq left[w]
  PROVE  /\ ZonesAtWork' \subseteq ZonesAtWork
         /\ ZoneExclusive => ZoneExclusive'
<1>1. AtWork' \subseteq AtWork
  BY DEF AtWork
<1>2. \A t : EffectiveZone(t)' = EffectiveZone(t)
  BY DEF EffectiveZone
<1>3. ZonesAtWork' \subseteq ZonesAtWork
  <2> SUFFICES ASSUME NEW z \in ZonesAtWork' PROVE z \in ZonesAtWork
    OBVIOUS
  <2>1. PICK a \in AtWork' : z = EffectiveZone(a[2])'
    BY DEF ZonesAtWork
  <2> QED
    BY <1>1, <1>2, <2>1 DEF ZonesAtWork
<1>4. ZoneExclusive => ZoneExclusive'
  BY <1>1, <1>2 DEF ZoneExclusive
<1> QED
  BY <1>3, <1>4

(* A change of the board alone that reopens nothing.                        *)
LEMMA BoardStep ==
  ASSUME PlannerInv, UNCHANGED <<field, pc, snap, taken, plan>>,
         status' \in [Tickets -> Statuses],
         \A d \in Tickets : status[d] = "done" => status'[d] = "done",
         left' \in [Waves -> SUBSET Tickets], \A w \in Waves : left'[w] \subseteq left[w]
  PROVE  PlannerInv'
<1> USE DEF PlannerInv
<1>1. Types'
  BY DEF Types
<1>2. LeftIsPlanned' /\ OnePlanner' /\ PlanExclusive'
  BY DEF LeftIsPlanned, OnePlanner, PlanExclusive, EffectiveZone
<1>3. ZoneExclusive' /\ ZonesAtWork' \subseteq ZonesAtWork
  BY <1>1, FewerZones
<1>4. ZonesTaken'
  BY <1>3 DEF ZonesTaken, EffectiveZone
<1>5. SnapshotHolds'
  BY DEF SnapshotHolds
<1>6. PlanMet'
  <2> SUFFICES ASSUME NEW w \in Waves, NEW t \in plan[w], NEW d \in field[t].deps
               PROVE  d # 0 /\ status'[d] = "done"
    BY DEF PlanMet
  <2>1. d # 0 /\ status[d] = "done"
    BY DEF PlanMet
  <2>2. d \in Tickets
    <3>1. t \in Tickets
      BY DEF Types
    <3>2. field[t].deps \subseteq 0 .. N
      BY <3>1 DEF Types, Frontmatter
    <3> QED
      BY <2>1, <3>2, WavePlannerAssumption DEF Tickets
  <2> QED
    BY <2>1, <2>2
<1> QED
  BY <1>1, <1>2, <1>3, <1>4, <1>5, <1>6
-------------------------------------------------------------------------------
LEMMA ZoneTypes == ASSUME Types PROVE
  /\ \A t \in Tickets : EffectiveZone(t) \in Nat
  /\ ZonesAtWork \subseteq Nat
<1>1. ASSUME NEW t \in Tickets PROVE EffectiveZone(t) \in Nat
  <2>1. field[t].zone \in Nat
    BY DEF Types, Frontmatter
  <2> QED
    BY <2>1, WavePlannerAssumption DEF EffectiveZone, Tickets
<1>2. \A a \in AtWork : a[2] \in Tickets
  BY DEF AtWork
<1> QED
  BY <1>1, <1>2 DEF ZonesAtWork

(* A step of a planner that leaves every agent where it is.                 *)
LEMMA SameZones ==
  ASSUME UNCHANGED <<field, left>>
  PROVE  /\ ZonesAtWork' = ZonesAtWork
         /\ ZoneExclusive' = ZoneExclusive
         /\ \A t : EffectiveZone(t)' = EffectiveZone(t)
<1>1. AtWork' = AtWork
  BY DEF AtWork
<1>2. \A t : EffectiveZone(t)' = EffectiveZone(t)
  BY DEF EffectiveZone
<1> QED
  BY <1>1, <1>2 DEF ZonesAtWork, ZoneExclusive

LEMMA LoadStep == ASSUME PlannerInv, NEW w \in Waves, Load(w) PROVE PlannerInv'
<1> USE DEF PlannerInv, Load, board
<1>1. ZonesAtWork' = ZonesAtWork /\ ZoneExclusive' /\ ZonesAtWork \subseteq Nat
  BY SameZones, ZoneTypes
<1>2. Types'
  BY <1>1 DEF Types
<1>3. LeftIsPlanned' /\ OnePlanner'
  BY DEF LeftIsPlanned, OnePlanner, Types
<1>4. ZonesTaken'
  <2>1. plan'[w] = {} /\ taken'[w] = ZonesAtWork
    BY DEF LeftIsPlanned, Types
  <2>2. \A v \in Waves : pc'[v] = "planning" => v = w
    BY DEF Types
  <2> QED
    BY <1>1, <2>1, <2>2 DEF ZonesTaken
<1>5. PlanExclusive' /\ PlanMet'
  BY DEF PlanExclusive, PlanMet, EffectiveZone
<1>6. SnapshotHolds'
  BY DEF SnapshotHolds, Types
<1> QED
  BY <1>1, <1>2, <1>3, <1>4, <1>5, <1>6

LEMMA RefuseStep ==
  ASSUME PlannerInv, NEW w \in Waves, NEW t \in Tickets, Refuse(w, t) PROVE PlannerInv'
<1> UNCHANGED <<field, status, pc, snap, taken, plan, left>>
  BY DEF Refuse, See, board
<1> QED
  BY BoardStep DEF PlannerInv, Types

LEMMA TakeStep ==
  ASSUME PlannerInv, NEW w \in Waves, NEW t \in Tickets, Take(w, t) PROVE PlannerInv'
<1> USE DEF PlannerInv, Take, See, board
<1>1. /\ ZonesAtWork' = ZonesAtWork /\ ZoneExclusive' /\ EffectiveZone(t) \in Nat
      /\ \A u : EffectiveZone(u)' = EffectiveZone(u)
  BY SameZones, ZoneTypes
<1>2. /\ taken' = [taken EXCEPT ![w] = taken[w] \cup {EffectiveZone(t)}]
      /\ plan' = [plan EXCEPT ![w] = plan[w] \cup {t}]
      /\ UNCHANGED <<field, status, pc, snap, left>> /\ pc[w] = "planning"
  OBVIOUS
<1>3. EffectiveZone(t) \notin taken[w] /\ UnmetDependencies(w, t) = {}
  <2>1. Applies(w, t) = {}
    OBVIOUS
  <2> QED
    BY <2>1 DEF Applies
<1>4. /\ plan'[w] = plan[w] \cup {t} /\ taken'[w] = taken[w] \cup {EffectiveZone(t)}
      /\ \A v \in Waves \ {w} : plan'[v] = plan[v] /\ taken'[v] = taken[v]
  BY <1>2 DEF Types
<1> HIDE DEF Take, See
<1>5. Types'
  BY <1>1, <1>2 DEF Types
<1>6. LeftIsPlanned' /\ OnePlanner' /\ SnapshotHolds'
  BY <1>2, <1>4 DEF LeftIsPlanned, OnePlanner, SnapshotHolds
<1>7. ZonesTaken'
  BY <1>1, <1>2, <1>3, <1>4 DEF ZonesTaken
<1>8. PlanExclusive'
  <2>1. \A u \in plan[w] : EffectiveZone(u) \in taken[w]
    BY <1>2 DEF ZonesTaken
  <2> QED
    BY <1>1, <1>3, <1>4, <2>1 DEF PlanExclusive
<1>9. PlanMet'
  <2>1. ASSUME NEW d \in field[t].deps PROVE d # 0 /\ status[d] = "done"
    <3>1. d # 0 /\ snap[w][d] = "done"
      BY <1>3 DEF UnmetDependencies
    <3>2. d \in Tickets
      BY <3>1, WavePlannerAssumption DEF Types, Frontmatter, Tickets
    <3> QED
      BY <1>2, <3>1, <3>2 DEF SnapshotHolds
  <2> QED
    BY <1>2, <1>4, <2>1 DEF PlanMet
<1> QED
  BY <1>1, <1>5, <1>6, <1>7, <1>8, <1>9

LEMMA DispatchStep == ASSUME PlannerInv, NEW w \in Waves, Dispatch(w) PROVE PlannerInv'
<1> USE DEF PlannerInv, Dispatch, board
<1>1. \A t : EffectiveZone(t)' = EffectiveZone(t)
  BY DEF EffectiveZone
<1>2. /\ left'[w] = plan[w] /\ \A v \in Waves \ {w} : left'[v] = left[v]
      /\ pc[w] = "planning" /\ UNCHANGED <<field, status, plan>>
      /\ \A v \in Waves : pc'[v] # "planning"
  BY DEF Types, OnePlanner
<1>3. Types'
  BY DEF Types, NoSnapshot, Statuses
<1>4. LeftIsPlanned' /\ OnePlanner' /\ ZonesTaken' /\ SnapshotHolds'
  BY <1>2 DEF LeftIsPlanned, OnePlanner, ZonesTaken, SnapshotHolds, Types
<1>5. PlanExclusive' /\ PlanMet'
  BY <1>1, <1>2 DEF PlanExclusive, PlanMet
<1>6. Exclusive'
  <2>1. ASSUME NEW t \in plan[w], NEW v \in Waves, NEW u \in left[v]
        PROVE  EffectiveZone(t) # EffectiveZone(u)
    BY <1>2, AtWorkIs DEF ZonesTaken
  <2>2. Exclusive
    BY ExclusiveIs
  <2> QED
    BY <1>1, <1>2, <2>1, <2>2 DEF Exclusive, PlanExclusive
<1>7. ZoneExclusive'
  <2>1. Types' => (ZoneExclusive' <=> Exclusive')
    BY ExclusiveIs, PTL
  <2> QED
    BY <1>3, <1>6, <2>1
<1> QED
  BY <1>3, <1>4, <1>5, <1>7

LEMMA ReturnStep == ASSUME PlannerInv, NEW w \in Waves, Return(w) PROVE PlannerInv'
<1> USE DEF PlannerInv, Return, board
<1>1. /\ ZonesAtWork' = ZonesAtWork /\ ZoneExclusive'
      /\ \A t : EffectiveZone(t)' = EffectiveZone(t)
  BY SameZones
<1>2. /\ plan'[w] = {} /\ \A v \in Waves \ {w} : plan'[v] = plan[v] /\ taken'[v] = taken[v]
      /\ pc'[w] = "idle" /\ \A v \in Waves \ {w} : pc'[v] = pc[v] /\ snap'[v] = snap[v]
  BY DEF Types
<1>3. Types'
  BY DEF Types, NoSnapshot, Statuses
<1>4. LeftIsPlanned' /\ OnePlanner' /\ SnapshotHolds'
  BY <1>2 DEF LeftIsPlanned, OnePlanner, SnapshotHolds
<1>5. ZonesTaken'
  BY <1>1, <1>2 DEF ZonesTaken
<1>6. PlanExclusive' /\ PlanMet'
  BY <1>1, <1>2 DEF PlanExclusive, PlanMet
<1> QED
  BY <1>1, <1>3, <1>4, <1>5, <1>6

LEMMA TicketEndsStep ==
  ASSUME PlannerInv, NEW w \in Waves, NEW t \in Tickets, TicketEnds(w, t) PROVE PlannerInv'
<1> USE DEF PlannerInv, TicketEnds
<1>1. UNCHANGED <<field, pc, snap, taken, plan>>
  OBVIOUS
<1>2. /\ status' \in [Tickets -> Statuses]
      /\ \A d \in Tickets : status[d] = "done" => status'[d] = "done"
  BY DEF Types, Statuses
<1>3. left' \in [Waves -> SUBSET Tickets] /\ \A v \in Waves : left'[v] \subseteq left[v]
  BY DEF Types
<1> QED
  BY <1>1, <1>2, <1>3, BoardStep

LEMMA EditStep == ASSUME PlannerInv, NEW t \in Tickets, Edit(t) PROVE PlannerInv'
<1> USE DEF PlannerInv, Edit, wave
<1>1. UNCHANGED <<field, pc, snap, taken, plan, left>>
  OBVIOUS
<1>2. PICK s \in Statuses : <<status[t], s>> \in Edits /\ status' = [status EXCEPT ![t] = s]
  OBVIOUS
<1>3. status[t] # "done"
  BY <1>2, WavePlannerAssumption
<1>4. /\ status' \in [Tickets -> Statuses]
      /\ \A d \in Tickets : status[d] = "done" => status'[d] = "done"
  BY <1>2, <1>3 DEF Types
<1> QED
  BY <1>1, <1>4, BoardStep DEF Types

LEMMA PlannerStep == ASSUME PlannerInv, [Next]_vars PROVE PlannerInv'
<1>1. ASSUME Next PROVE PlannerInv'
  <2> USE <1>1 DEF Next
  <2>1. CASE \E w \in Waves : Load(w) \/ Dispatch(w) \/ Return(w)
    BY <2>1, LoadStep, DispatchStep, ReturnStep
  <2>2. CASE \E w \in Waves, t \in Tickets : Refuse(w, t) \/ Take(w, t) \/ TicketEnds(w, t)
    BY <2>2, RefuseStep, TakeStep, TicketEndsStep
  <2>3. CASE \E t \in Tickets : Edit(t)
    BY <2>3, EditStep
  <2> QED
    BY <2>1, <2>2, <2>3
<1>2. ASSUME UNCHANGED vars PROVE PlannerInv'
  <2>1. UNCHANGED <<field, status, pc, snap, taken, plan, left>>
    BY <1>2 DEF vars, board, wave
  <2> QED
    BY <2>1, BoardStep DEF PlannerInv, Types
<1> QED
  BY <1>1, <1>2

LEMMA PlannerAlways == Spec => []PlannerInv
<1>1. Init => PlannerInv
  BY InitPlanner
<1>2. PlannerInv /\ [Next]_vars => PlannerInv'
  BY PlannerStep
<1> QED
  BY <1>1, <1>2, PTL DEF Spec

-------------------------------------------------------------------------------
(* Two agents at work are never in one zone nor on one ticket, for any      *)
(* board, any number of orchestrators and any edits that reopen nothing:    *)
(* occupied_zones and taken_zones of plan_wave are enough.                  *)
THEOREM ZonesAreExclusive == Spec => []ZoneExclusive
<1>1. PlannerInv => ZoneExclusive
  BY DEF PlannerInv
<1> QED
  BY <1>1, PlannerAlways, PTL

(* What an agent's ticket depends on is done on the board for as long as it *)
(* works: _unmet_dependencies, asked of a snapshot, holds of the board.     *)
THEOREM DependenciesAreMet == Spec => []DependenciesMet
<1>1. ASSUME PlannerInv PROVE DependenciesMet
  <2> SUFFICES ASSUME NEW a \in AtWork, NEW d \in field[a[2]].deps
               PROVE  d # 0 /\ status[d] = "done"
    BY DEF DependenciesMet
  <2>1. a[1] \in Waves /\ a[2] \in left[a[1]]
    BY DEF AtWork
  <2>2. a[2] \in plan[a[1]]
    BY <1>1, <2>1 DEF PlannerInv, LeftIsPlanned
  <2> QED
    BY <1>1, <2>1, <2>2 DEF PlannerInv, PlanMet
<1> QED
  BY <1>1, PlannerAlways, PTL

-------------------------------------------------------------------------------
(* A ticket that is refused is refused for a reason that applies to it.     *)
LEMMA FirstReasonApplies ==
  ASSUME field \in [Tickets -> Fields], NEW w, NEW t \in Tickets, Applies(w, t) # {}
  PROVE  /\ FirstReason(w, t) \in Applies(w, t)
         /\ FirstReason(w, t) \in {Reasons[i] : i \in DOMAIN Reasons}
         /\ FirstReason(w, t) # "none"
<1> DEFINE S == {i \in DOMAIN Reasons : Reasons[i] \in Applies(w, t)}
<1>1. DOMAIN Reasons = 1 .. 8
  BY DEF Reasons
<1>2. \A r \in Applies(w, t) : \E i \in 1 .. 8 : r = Reasons[i]
  <2>1. field[t].marks \subseteq {"deferred", "clarify_blocked", "open_predecessor_gate",
                                  "no_model_for_role"}
    BY WavePlannerAssumption DEF Frontmatter
  <2>2. Applies(w, t) \subseteq {"not_actionable", "deferred", "clarify_blocked",
            "unmet_dependency", "open_predecessor_gate", "no_model_for_role",
            "zone_conflict", "wave_full"}
    BY <2>1 DEF Applies
  <2>3. /\ Reasons[1] = "not_actionable" /\ Reasons[2] = "deferred"
        /\ Reasons[3] = "clarify_blocked" /\ Reasons[4] = "unmet_dependency"
        /\ Reasons[5] = "open_predecessor_gate" /\ Reasons[6] = "no_model_for_role"
        /\ Reasons[7] = "zone_conflict" /\ Reasons[8] = "wave_full"
    BY DEF Reasons
  <2> QED
    BY <2>2, <2>3
<1>3. S # {} /\ S \subseteq 1 .. 8
  BY <1>1, <1>2
<1>4. \E m \in S : \A i \in S : m <= i
  <2> HIDE DEF S
  <2>1. CASE 1 \in S \/ 2 \in S
    BY <1>3, <2>1
  <2>2. CASE 1 \notin S /\ 2 \notin S /\ (3 \in S \/ 4 \in S)
    BY <1>3, <2>2
  <2>3. CASE 1 \notin S /\ 2 \notin S /\ 3 \notin S /\ 4 \notin S /\ (5 \in S \/ 6 \in S)
    BY <1>3, <2>3
  <2>4. CASE 1 \notin S /\ 2 \notin S /\ 3 \notin S /\ 4 \notin S /\ 5 \notin S /\ 6 \notin S
    <3>1. CASE 7 \in S
      BY <1>3, <2>4, <3>1
    <3>2. CASE 7 \notin S
      <4>1. \A i \in S : i = 8
        BY <1>3, <2>4, <3>2
      <4>2. 8 \in S
        <5>1. PICK i \in S : TRUE
          BY <1>3
        <5> QED
          BY <4>1, <5>1
      <4> QED
        BY <4>1, <4>2
    <3> QED
      BY <3>1, <3>2
  <2> QED
    BY <2>1, <2>2, <2>3, <2>4
<1>5. Min(S) \in S
  BY <1>4 DEF Min
<1>6. FirstReason(w, t) = Reasons[Min(S)]
  BY DEF FirstReason
<1>7. \A i \in 1 .. 8 : Reasons[i] # "none"
  BY DEF Reasons
<1> QED
  BY <1>1, <1>5, <1>6, <1>7

LEMMA PlanIsFinite ==
  ASSUME TypeOK, NEW w \in Waves
  PROVE  IsFiniteSet(plan[w]) /\ Cardinality(plan[w]) \in Nat
<1>1. IsFiniteSet(1 .. N)
  BY FS_Interval, WavePlannerAssumption
<1>2. IsFiniteSet(plan[w])
  BY <1>1, FS_Subset DEF TypeOK, Tickets
<1> QED
  BY <1>2, FS_CardinalityType

LEMMA PlanGrows ==
  ASSUME TypeOK, NEW w \in Waves, NEW t \in Tickets, Take(w, t)
  PROVE  /\ Cardinality(plan[w]) \in Nat /\ Cardinality(plan[w]) < MaxSize
         /\ Cardinality(plan'[w]) <= MaxSize
<1>1. IsFiniteSet(plan[w])
  BY PlanIsFinite
<1>2. Cardinality(plan[w]) \in Nat
  BY PlanIsFinite
<1>3. Cardinality(plan[w]) < MaxSize
  BY <1>2, WavePlannerAssumption DEF Take, Applies
<1>4. Cardinality(plan[w] \cup {t}) <= Cardinality(plan[w]) + 1
  <2>1. Cardinality(plan[w] \cup {t}) =
          IF t \in plan[w] THEN Cardinality(plan[w]) ELSE Cardinality(plan[w]) + 1
    BY <1>1, FS_AddElement
  <2> QED
    BY <1>2, <2>1
<1>5. plan'[w] = plan[w] \cup {t}
  BY DEF Take, TypeOK
<1>6. Cardinality(plan'[w]) \in Nat
  BY <1>1, <1>5, FS_AddElement, FS_CardinalityType
<1> QED
  BY <1>2, <1>3, <1>4, <1>5, <1>6, WavePlannerAssumption

(* Every variable keeps its type, and no plan is larger than the limit.     *)
THEOREM TypeCorrect == Spec => []TypeOK
<1>1. Init => TypeOK
  <2> SUFFICES ASSUME Init  PROVE TypeOK
    OBVIOUS
  <2>1. Cardinality({}) = 0
    BY FS_EmptySet
  <2> QED
    BY <2>1, WavePlannerAssumption DEF Init, TypeOK, NoSnapshot, NoReasons, Statuses
<1>2. TypeOK /\ [Next]_vars => TypeOK'
  <2> SUFFICES ASSUME TypeOK, [Next]_vars  PROVE TypeOK'
    OBVIOUS
  <2> USE DEF TypeOK
  <2>1. CASE UNCHANGED vars
    BY <2>1 DEF vars, board, wave
  <2>2. ASSUME NEW w \in Waves, Load(w)  PROVE TypeOK'
    <3>1. ZonesAtWork \subseteq Nat
      BY ZoneTypes, WavePlannerAssumption DEF Types
    <3> QED
      BY <2>2, <3>1 DEF Load, board
  <2>n. /\ NoSnapshot \in [Tickets -> Statuses]
        /\ NoReasons \in [Tickets -> {"none"} \cup {Reasons[i] : i \in DOMAIN Reasons}]
    BY DEF NoSnapshot, NoReasons, Statuses
  <2>3. ASSUME NEW w \in Waves, Dispatch(w)  PROVE TypeOK'
    BY <2>3, <2>n DEF Dispatch, board
  <2>r. ASSUME NEW w \in Waves, Return(w)  PROVE TypeOK'
    <3>1. \A v \in Waves : plan'[v] = IF v = w THEN {} ELSE plan[v]
      BY <2>r DEF Return
    <3>2. Cardinality(plan'[w]) = 0
      <4>1. plan'[w] = {}
        BY <3>1
      <4> QED
        BY <4>1, FS_EmptySet, Zenon
    <3>3. \A v \in Waves \ {w} : Cardinality(plan'[v]) = Cardinality(plan[v])
      <4> SUFFICES ASSUME NEW v \in Waves \ {w}  PROVE Cardinality(plan'[v]) = Cardinality(plan[v])
        OBVIOUS
      <4>1. plan'[v] = plan[v]
        BY <2>r DEF Return
      <4> QED
        BY <4>1, Zenon
    <3>4. \A v \in Waves : Cardinality(plan'[v]) <= MaxSize
      <4> SUFFICES ASSUME NEW v \in Waves  PROVE Cardinality(plan'[v]) <= MaxSize
        OBVIOUS
      <4>1. CASE v = w
        BY <3>2, <4>1, WavePlannerAssumption
      <4>2. CASE v # w
        BY <3>3, <4>2
      <4> QED
        BY <4>1, <4>2
    <3> QED
      BY <2>r, <2>n, <3>4 DEF Return, board
  <2>4. ASSUME NEW w \in Waves, NEW t \in Tickets, Refuse(w, t)  PROVE TypeOK'
    <3>1. FirstReason(w, t) \in {Reasons[i] : i \in DOMAIN Reasons}
      BY <2>4, FirstReasonApplies DEF Refuse
    <3>2. reason' \in [Waves -> [Tickets -> {"none"} \cup {Reasons[i] : i \in DOMAIN Reasons}]]
      BY <2>4, <3>1 DEF Refuse
    <3> QED
      BY <2>4, <3>2 DEF Refuse, See, board
  <2>5. ASSUME NEW w \in Waves, NEW t \in Tickets, Take(w, t)  PROVE TypeOK'
    <3>1. EffectiveZone(t) \in Nat
      BY ZoneTypes, WavePlannerAssumption DEF Types
    <3>2. Cardinality(plan'[w]) <= MaxSize
      BY <2>5, PlanGrows
    <3>3. \A v \in Waves : Cardinality(plan'[v]) <= MaxSize
      BY <2>5, <3>2 DEF Take
    <3> QED
      BY <2>5, <3>1, <3>3 DEF Take, See, board
  <2>6. ASSUME NEW w \in Waves, NEW t \in Tickets, TicketEnds(w, t)  PROVE TypeOK'
    BY <2>6 DEF TicketEnds, Statuses
  <2>7. ASSUME NEW t \in Tickets, Edit(t)  PROVE TypeOK'
    BY <2>7 DEF Edit, wave
  <2> QED
    BY <2>1, <2>2, <2>3, <2>r, <2>4, <2>5, <2>6, <2>7 DEF Next
<1> QED
  BY <1>1, <1>2, PTL DEF Spec

-------------------------------------------------------------------------------
(* What PlanFollowsPriority says of a plan, of the tickets it has come to,  *)
(* which are those before the one it comes to next; and where the zones     *)
(* that the planner regards as taken come from.                             *)
Turned(w, t) ==
  /\ t \in plan[w] <=> reason[w][t] = "none"
  /\ reason[w][t] = "zone_conflict" =>
       \/ EffectiveZone(t) \in occupied[w]
       \/ \E u \in plan[w] : u < t /\ EffectiveZone(u) = EffectiveZone(t)
  /\ reason[w][t] = "wave_full" =>
       Cardinality(plan[w]) = MaxSize /\ \A u \in plan[w] : u < t

WaveSoFar(w) ==
  /\ pc[w] = "idle" => plan[w] = {} /\ reason[w] = NoReasons
  /\ pc[w] = "running" => toSee[w] = {}
  /\ pc[w] = "planning" =>
       \A z \in taken[w] : z \in occupied[w] \/ \E u \in plan[w] : EffectiveZone(u) = z
  /\ pc[w] # "idle" =>
       /\ \E k \in 1 .. N + 1 : toSee[w] = k .. N
       /\ \A t \in toSee[w] : t \notin plan[w] /\ reason[w][t] = "none"
       /\ \A t \in Tickets \ toSee[w] : Turned(w, t)

PlanSoFar == \A w \in Waves : WaveSoFar(w)

LEMMA SameTurned ==
  ASSUME NEW w, NEW t, Turned(w, t), UNCHANGED field, occupied'[w] = occupied[w],
         plan'[w] = plan[w], reason'[w][t] = reason[w][t]
  PROVE  Turned(w, t)'
<1>1. \A u : EffectiveZone(u)' = EffectiveZone(u)
  BY DEF EffectiveZone
<1>2. Cardinality(plan'[w]) = Cardinality(plan[w])
  BY Zenon
<1> QED
  BY <1>1, <1>2 DEF Turned

LEMMA SameWave ==
  ASSUME NEW w, WaveSoFar(w), UNCHANGED field, pc'[w] = pc[w], occupied'[w] = occupied[w],
         toSee'[w] = toSee[w], taken'[w] = taken[w], plan'[w] = plan[w],
         reason'[w] = reason[w]
  PROVE  WaveSoFar(w)'
<1>1. \A u : EffectiveZone(u)' = EffectiveZone(u)
  BY DEF EffectiveZone
<1>2. ASSUME NEW t, Turned(w, t)  PROVE Turned(w, t)'
  <2>1. reason'[w][t] = reason[w][t]
    BY Zenon
  <2> QED
    BY <1>2, <2>1, SameTurned
<1>3. pc[w] # "idle" => \A t \in Tickets \ toSee[w] : Turned(w, t)'
  BY <1>2 DEF WaveSoFar
<1>4. pc[w] # "idle" => \A t \in Tickets \ toSee'[w] : Turned(w, t)'
  BY <1>3
<1>5. Tickets' = Tickets
  BY DEF Tickets
<1> QED
  BY <1>1, <1>4, <1>5 DEF WaveSoFar

(* The tickets are taken in order.                                          *)
LEMMA NextIsFirst ==
  ASSUME NEW w, NEW k \in 1 .. N + 1, toSee[w] = k .. N, toSee[w] # {}
  PROVE  /\ NextTicket(w) = k /\ k \in Tickets
         /\ toSee[w] \ {k} = (k + 1) .. N /\ k + 1 \in 1 .. N + 1
         /\ Tickets \ (toSee[w] \ {k}) = (Tickets \ toSee[w]) \cup {k}
         /\ \A t \in Tickets \ toSee[w] : t < k
<1> USE WavePlannerAssumption DEF Tickets
<1>1. k \in toSee[w] /\ \A i \in toSee[w] : k <= i
  OBVIOUS
<1>2. NextTicket(w) = k
  <2>1. \A i \in toSee[w] : i \in Nat
    OBVIOUS
  <2>2. ASSUME NEW x \in toSee[w], \A i \in toSee[w] : x <= i  PROVE x = k
    <3>1. x <= k /\ k <= x
      BY <1>1, <2>2
    <3>2. x \in Nat /\ k \in Nat
      BY <2>1
    <3> HIDE WavePlannerAssumption
    <3> QED
      BY <3>1, <3>2
  <2> QED
    BY <1>1, <2>2 DEF NextTicket, Min
<1> QED
  BY <1>1, <1>2

LEMMA SeeStep ==
  ASSUME TypeOK, PlanSoFar, NEW w \in Waves, NEW t \in Tickets, Refuse(w, t) \/ Take(w, t)
  PROVE  PlanSoFar'
<1> USE DEF TypeOK
<1>1. /\ pc[w] = "planning" /\ toSee[w] # {} /\ t = NextTicket(w)
      /\ UNCHANGED <<field, pc, occupied>> /\ toSee'[w] = toSee[w] \ {t}
  BY DEF Refuse, Take, See, board
<1>2. \A v \in Waves \ {w} :
        /\ toSee'[v] = toSee[v] /\ taken'[v] = taken[v]
        /\ plan'[v] = plan[v] /\ reason'[v] = reason[v]
  BY DEF Refuse, Take, See
<1>3. PICK k \in 1 .. N + 1 : toSee[w] = k .. N
  BY <1>1 DEF PlanSoFar, WaveSoFar
<1>4. /\ t = k /\ toSee'[w] = (k + 1) .. N /\ k + 1 \in 1 .. N + 1
      /\ Tickets \ toSee'[w] = (Tickets \ toSee[w]) \cup {t}
      /\ t \in toSee[w] /\ \A u \in Tickets \ toSee[w] : u < t
  <2>1. t = k
    BY <1>1, <1>3, NextIsFirst
  <2>2. toSee'[w] = toSee[w] \ {k}
    BY <1>1, <2>1
  <2>3. /\ k \in Tickets /\ toSee[w] \ {k} = (k + 1) .. N /\ k + 1 \in 1 .. N + 1
        /\ Tickets \ (toSee[w] \ {k}) = (Tickets \ toSee[w]) \cup {k}
        /\ \A u \in Tickets \ toSee[w] : u < k
    BY <1>1, <1>3, NextIsFirst
  <2>4. k \in toSee[w]
    BY <1>3, <2>3 DEF Tickets
  <2> QED
    BY <2>1, <2>2, <2>3, <2>4
<1>5. \A u \in plan[w] : u \in Tickets \ toSee[w] /\ u < t
  BY <1>1, <1>4 DEF PlanSoFar, WaveSoFar
<1>6. \A u : EffectiveZone(u)' = EffectiveZone(u)
  BY <1>1 DEF EffectiveZone
<1>7. t \notin plan[w] /\ reason[w][t] = "none"
  BY <1>1, <1>4 DEF PlanSoFar, WaveSoFar
<1>8. /\ \A z \in taken'[w] :
           z \in occupied'[w] \/ \E u \in plan'[w] : EffectiveZone(u)' = z
      /\ \A u \in toSee'[w] : u \notin plan'[w] /\ reason'[w][u] = "none"
      /\ \A u \in Tickets \ toSee'[w] : Turned(w, u)'
  <2>1. CASE Refuse(w, t)
    <3>1. /\ taken' = taken /\ plan' = plan /\ reason'[w][t] = FirstReason(w, t)
          /\ \A u \in Tickets \ {t} : reason'[w][u] = reason[w][u]
      BY <2>1 DEF Refuse
    <3>2. /\ FirstReason(w, t) \in Applies(w, t) /\ FirstReason(w, t) # "none"
      BY <2>1, FirstReasonApplies DEF Refuse
    <3>3. "zone_conflict" \notin field[t].marks /\ "wave_full" \notin field[t].marks
      <4>1. field[t].marks \subseteq {"deferred", "clarify_blocked", "open_predecessor_gate",
                                      "no_model_for_role"}
        BY WavePlannerAssumption DEF Frontmatter
      <4> QED
        BY <4>1
    <3>4. FirstReason(w, t) = "zone_conflict" => EffectiveZone(t) \in taken[w]
      BY <3>2, <3>3 DEF Applies
    <3>5. FirstReason(w, t) = "wave_full" => Cardinality(plan[w]) >= MaxSize
      BY <3>2, <3>3 DEF Applies
    <3>6. Cardinality(plan[w]) \in Nat /\ MaxSize \in Nat /\ Cardinality(plan[w]) <= MaxSize
      BY PlanIsFinite, WavePlannerAssumption
    <3>7. Turned(w, t)'
      <4>1. FirstReason(w, t) = "wave_full" => Cardinality(plan[w]) = MaxSize
        <5> HIDE DEF TypeOK
        <5> QED
          BY <3>5, <3>6
      <4>2. FirstReason(w, t) = "zone_conflict" =>
              \/ EffectiveZone(t) \in occupied[w]
              \/ \E u \in plan[w] : EffectiveZone(u) = EffectiveZone(t)
        BY <1>1, <3>4 DEF PlanSoFar, WaveSoFar
      <4> QED
        BY <1>1, <1>5, <1>6, <1>7, <3>1, <3>2, <4>1, <4>2 DEF Turned
    <3>8. ASSUME NEW u \in Tickets \ toSee[w]  PROVE Turned(w, u)'
      <4>1. Turned(w, u) /\ u # t
        BY <1>1, <1>4 DEF PlanSoFar, WaveSoFar
      <4> QED
        BY <1>1, <1>6, <3>1, <4>1 DEF Turned
    <3>9. \A u \in toSee'[w] : u \in toSee[w] /\ u # t /\ u \in Tickets
      BY <1>1
    <3> QED
      BY <1>1, <1>4, <1>6, <3>1, <3>7, <3>8, <3>9 DEF PlanSoFar, WaveSoFar
  <2>2. CASE Take(w, t)
    <3>1. /\ reason' = reason /\ plan'[w] = plan[w] \cup {t}
          /\ taken'[w] = taken[w] \cup {EffectiveZone(t)}
      BY <2>2 DEF Take
    <3>2. Cardinality(plan[w]) < MaxSize /\ Cardinality(plan[w]) \in Nat
      BY <2>2, PlanGrows
    <3>3. Turned(w, t)'
      BY <1>7, <3>1 DEF Turned
    <3>4. ASSUME NEW u \in Tickets \ toSee[w]  PROVE Turned(w, u)'
      <4>1. Turned(w, u) /\ u # t
        BY <1>1, <1>4 DEF PlanSoFar, WaveSoFar
      <4>2. reason[w][u] # "wave_full"
        BY <3>2, <4>1, WavePlannerAssumption DEF Turned
      <4> QED
        BY <1>1, <1>6, <3>1, <4>1, <4>2 DEF Turned
    <3> QED
      BY <1>1, <1>4, <1>6, <3>1, <3>3, <3>4 DEF PlanSoFar, WaveSoFar
  <2> QED
    BY <2>1, <2>2
<1>9. WaveSoFar(w)'
  <2>1. Tickets' = Tickets /\ \E j \in 1 .. N + 1 : toSee'[w] = j .. N
    BY <1>4 DEF Tickets
  <2> QED
    BY <1>1, <1>8, <2>1 DEF WaveSoFar
<1>10. ASSUME NEW v \in Waves \ {w}  PROVE WaveSoFar(v)'
  BY <1>1, <1>2, SameWave DEF PlanSoFar
<1> QED
  BY <1>9, <1>10 DEF PlanSoFar

(* The plan is the one ordering_key asks for: who is turned away for a zone *)
(* or for lack of room yields to more urgent tickets only, whatever the     *)
(* board, the other waves and the size of a wave.                           *)
THEOREM PlanIsByPriority == Spec => []PlanFollowsPriority
<1>1. Init => PlanSoFar
  BY DEF Init, PlanSoFar, WaveSoFar, NoReasons
<1>2. TypeOK /\ PlanSoFar /\ [Next]_vars => PlanSoFar'
  <2> SUFFICES ASSUME TypeOK, PlanSoFar, [Next]_vars, NEW v \in Waves  PROVE WaveSoFar(v)'
    BY DEF PlanSoFar
  <2>0. WaveSoFar(v) /\ Tickets' = Tickets
    BY DEF PlanSoFar, Tickets
  <2>1. ASSUME NEW w \in Waves, Load(w), v = w  PROVE WaveSoFar(v)'
    <3>1. /\ pc'[w] = "planning" /\ toSee'[w] = 1 .. N /\ taken'[w] = occupied'[w]
          /\ plan'[w] = {} /\ reason'[w] = NoReasons
      BY <2>0, <2>1 DEF TypeOK, Load, Tickets, WaveSoFar
    <3>2. 1 \in 1 .. N + 1
      BY WavePlannerAssumption
    <3> QED
      BY <2>0, <2>1, <3>1, <3>2 DEF WaveSoFar, NoReasons, Tickets
  <2>2. ASSUME NEW w \in Waves, Dispatch(w), v = w  PROVE WaveSoFar(v)'
    <3>1. /\ UNCHANGED <<field, occupied, toSee, plan, reason>>
          /\ pc[w] = "planning" /\ pc'[w] = "running" /\ toSee[w] = {}
      BY <2>2 DEF TypeOK, Dispatch, board
    <3>2. \A t \in Tickets \ toSee[w] : Turned(w, t)'
      BY <2>0, <2>2, <3>1, SameTurned DEF WaveSoFar
    <3> QED
      BY <2>0, <2>2, <3>1, <3>2 DEF WaveSoFar
  <2>3. ASSUME NEW w \in Waves, Return(w), v = w  PROVE WaveSoFar(v)'
    <3>1. pc'[w] = "idle" /\ plan'[w] = {} /\ reason'[w] = NoReasons
      BY <2>3 DEF TypeOK, Return
    <3> QED
      BY <2>3, <3>1 DEF WaveSoFar, NoReasons
  <2>4. ASSUME NEW w \in Waves, Load(w) \/ Dispatch(w) \/ Return(w), v # w  PROVE WaveSoFar(v)'
    <3>1. /\ UNCHANGED field /\ pc'[v] = pc[v] /\ occupied'[v] = occupied[v]
          /\ toSee'[v] = toSee[v] /\ taken'[v] = taken[v] /\ plan'[v] = plan[v]
          /\ reason'[v] = reason[v]
      BY <2>4 DEF TypeOK, Load, Dispatch, Return, board
    <3> QED
      BY <2>0, <3>1, SameWave
  <2>5. ASSUME NEW w \in Waves, NEW t \in Tickets, Refuse(w, t) \/ Take(w, t)
        PROVE  WaveSoFar(v)'
    BY <2>5, SeeStep DEF PlanSoFar
  <2>6. ASSUME UNCHANGED vars \/ (\E w \in Waves, t \in Tickets : TicketEnds(w, t))
               \/ (\E t \in Tickets : Edit(t))
        PROVE  WaveSoFar(v)'
    <3>1. UNCHANGED <<field, pc, occupied, toSee, taken, plan, reason>>
      BY <2>6 DEF TicketEnds, Edit, vars, board, wave
    <3> QED
      BY <2>0, <3>1, SameWave
  <2> QED
    BY <2>1, <2>2, <2>3, <2>4, <2>5, <2>6 DEF Next
<1>3. PlanSoFar => PlanFollowsPriority
  BY DEF PlanSoFar, WaveSoFar, PlanFollowsPriority, Turned
<1> QED
  BY <1>1, <1>2, <1>3, TypeCorrect, PTL DEF Spec

-------------------------------------------------------------------------------
(* No plan holds a ticket that is marked or is a container: the planner     *)
(* looks at both before it takes the ticket, and they never change.         *)
HeldTickets == {t \in Tickets : field[t].marks # {} \/ t \in ParentTickets}
PlanFree == \A w \in Waves : plan[w] \cap HeldTickets = {}

LEMMA PlanFreeStep ==
  ASSUME Types, PlanFree, [Next]_vars PROVE PlanFree' /\ UNCHANGED field
<1> USE DEF Types
<1>1. ASSUME UNCHANGED field PROVE HeldTickets' = HeldTickets
  BY <1>1 DEF HeldTickets, ParentTickets
<1>2. ASSUME UNCHANGED <<field, plan>> PROVE PlanFree'
  BY <1>1, <1>2 DEF PlanFree
<1>3. ASSUME NEW w \in Waves, Load(w) \/ Dispatch(w) PROVE UNCHANGED <<field, plan>>
  BY <1>3 DEF Load, Dispatch, board
<1>4. ASSUME NEW w \in Waves, NEW t \in Tickets, Refuse(w, t) \/ TicketEnds(w, t)
      PROVE  UNCHANGED <<field, plan>>
  BY <1>4 DEF Refuse, See, TicketEnds, board
<1>5. ASSUME NEW t \in Tickets, Edit(t) PROVE UNCHANGED <<field, plan>>
  BY <1>5 DEF Edit, wave
<1>6. CASE UNCHANGED vars
  BY <1>2, <1>6 DEF vars, board, wave
<1>7. ASSUME NEW w \in Waves, Return(w) PROVE PlanFree' /\ UNCHANGED field
  <2>1. UNCHANGED field /\ plan' = [plan EXCEPT ![w] = {}]
    BY <1>7 DEF Return, board
  <2> QED
    BY <1>1, <2>1 DEF PlanFree
<1>8. ASSUME NEW w \in Waves, NEW t \in Tickets, Take(w, t)
      PROVE  PlanFree' /\ UNCHANGED field
  <2>1. UNCHANGED field /\ plan' = [plan EXCEPT ![w] = plan[w] \cup {t}] /\ Applies(w, t) = {}
    BY <1>8 DEF Take, See, board
  <2>2. t \notin HeldTickets
    BY <2>1 DEF Applies, HeldTickets
  <2> QED
    BY <1>1, <2>1, <2>2 DEF PlanFree
<1> QED
  BY <1>2, <1>3, <1>4, <1>5, <1>6, <1>7, <1>8 DEF Next

(* A plan is dispatched: at that moment it is a wave of AtomicPlanning.     *)
LEMMA DispatchIsStart ==
  ASSUME PlannerInv, PlannerInv', PlanFree, TypeOK, NEW w \in Waves, Dispatch(w)
  PROVE  Atomic!Start(w)
<1> USE DEF PlannerInv
<1>1. /\ pc[w] = "planning" /\ plan[w] # {} /\ plan[w] \subseteq Tickets
      /\ left' = [left EXCEPT ![w] = plan[w]] /\ UNCHANGED <<field, status>>
      /\ left[w] = {}
  BY DEF Dispatch, board, Types, LeftIsPlanned
<1> DEFINE zones == [t \in Tickets |-> EffectiveZone(t)]
           finished == {t \in Tickets : status[t] = "done"}
<1>2. plan[w] \in SUBSET (Tickets \ HeldTickets) /\ Cardinality(plan[w]) <= MaxSize
  BY <1>1 DEF PlanFree, TypeOK
<1>3. ASSUME NEW t \in plan[w]
      PROVE  /\ field[t].deps \subseteq finished
             /\ \A v \in Waves : \A u \in left[v] : zones[u] # zones[t]
  <2>1. t \in Tickets /\ field[t].deps \subseteq 0 .. N
    BY <1>1 DEF Types, Frontmatter
  <2>2. \A d \in field[t].deps : d # 0 /\ status[d] = "done"
    BY DEF PlanMet
  <2>3. field[t].deps \subseteq finished
    BY <2>1, <2>2, WavePlannerAssumption DEF Tickets
  <2>4. ASSUME NEW v \in Waves, NEW u \in left[v] PROVE zones[u] # zones[t]
    <3>1. u \in Tickets /\ EffectiveZone(u) \in ZonesAtWork
      BY AtWorkIs DEF Types
    <3>2. EffectiveZone(t) \notin ZonesAtWork
      BY <1>1 DEF ZonesTaken
    <3> QED
      BY <2>1, <3>1, <3>2
  <2> QED
    BY <2>3, <2>4
<1>4. \A t, u \in plan[w] : zones[t] = zones[u] => t = u
  BY <1>1 DEF PlanExclusive
<1>c. Atomic!Cardinality(plan[w]) = Cardinality(plan[w])
  BY Zenon DEF Atomic!Cardinality, Cardinality
<1>5. zones' = zones /\ finished' = finished /\ HeldTickets' = HeldTickets
      /\ [t \in Tickets |-> field[t].deps]' = [t \in Tickets |-> field[t].deps]
  BY <1>1 DEF EffectiveZone, HeldTickets, ParentTickets
<1>6. \A t \in plan[w] :
        /\ [u \in Tickets |-> field[u].deps][t] \subseteq finished
        /\ \A v \in Waves : \A u \in left[v] : zones[u] # zones[t]
  BY <1>1, <1>3
<1> HIDE DEF zones, finished, PlannerInv
<1> QED
  BY <1>1, <1>2, <1>4, <1>5, <1>6, <1>c
     DEF Atomic!Start, Atomic!ZoneFree, Atomic!fields, zones, finished, HeldTickets

LEMMA AtomicStep ==
  ASSUME PlannerInv, PlannerInv', PlanFree, TypeOK, [Next]_vars
  PROVE  [Atomic!Next]_(Atomic!vars)
<1> DEFINE zones == [t \in Tickets |-> EffectiveZone(t)]
           needs == [t \in Tickets |-> field[t].deps]
           finished == {t \in Tickets : status[t] = "done"}
<1>1. UNCHANGED field
  BY PlanFreeStep DEF PlannerInv
<1>2. zones' = zones /\ needs' = needs /\ HeldTickets' = HeldTickets
  BY <1>1 DEF EffectiveZone, HeldTickets, ParentTickets
<1>3. UNCHANGED Atomic!fields
  BY <1>2 DEF Atomic!fields, HeldTickets
<1>4. ASSUME UNCHANGED <<status, left>> PROVE UNCHANGED Atomic!vars
  BY <1>3, <1>4 DEF Atomic!vars
<1>5. ASSUME NEW w \in Waves, Load(w) \/ Return(w) PROVE UNCHANGED <<status, left>>
  BY <1>5 DEF Load, Return, board
<1>6. ASSUME NEW w \in Waves, NEW t \in Tickets, Refuse(w, t) \/ Take(w, t)
      PROVE  UNCHANGED <<status, left>>
  BY <1>6 DEF Refuse, Take, See, board
<1>7. ASSUME NEW w \in Waves, NEW t \in Tickets, TicketEnds(w, t) PROVE Atomic!End(w, t)
  <2>1. /\ t \in left[w] /\ left' = [left EXCEPT ![w] = left[w] \ {t}]
        /\ \E s : status' = [status EXCEPT ![t] = IF status[t] = "done" THEN status[t] ELSE s]
    BY <1>7 DEF TicketEnds
  <2>2. status \in [Tickets -> Statuses]
    BY DEF PlannerInv, Types
  <2>3. finished' \in {finished, finished \cup {t}}
    BY <2>1, <2>2
  <2> QED
    BY <1>3, <2>1, <2>3 DEF Atomic!End
<1>8. ASSUME NEW t \in Tickets, Edit(t)
      PROVE  Atomic!Complete(t) \/ UNCHANGED Atomic!vars
  <2>1. left' = left /\ \E s : status' = [status EXCEPT ![t] = s] /\ status[t] # "done"
    BY <1>8, WavePlannerAssumption DEF Edit, wave
  <2>2. status \in [Tickets -> Statuses]
    BY DEF PlannerInv, Types
  <2>3. finished' \in {finished, finished \cup {t}}
    BY <2>1, <2>2
  <2> QED
    BY <1>3, <2>1, <2>3 DEF Atomic!Complete, Atomic!vars
<1>9. CASE UNCHANGED vars
  BY <1>4, <1>9 DEF vars, board, wave
<1> HIDE DEF PlannerInv, PlanFree, TypeOK, zones, needs, finished
<1> QED
  BY <1>4, <1>5, <1>6, <1>7, <1>8, <1>9, DispatchIsStart DEF Next, Atomic!Next

(* plan_wave and the dispatch of its plan implement AtomicPlanning: however *)
(* long a plan takes and whatever changes meanwhile, the wave it starts is  *)
(* one that could have been planned from the board and the agents at work   *)
(* of the moment it starts.                                                 *)
THEOREM PlanningIsAtomic == Spec => PlansAtOneInstant
<1>1. Init => Atomic!Init /\ PlanFree
  <2> SUFFICES ASSUME Init PROVE Atomic!Init /\ PlanFree
    OBVIOUS
  <2>1. Types
    BY InitPlanner DEF PlannerInv
  <2>2. [t \in Tickets |-> EffectiveZone(t)] \in [Tickets -> Nat]
    BY <2>1, ZoneTypes
  <2>3. Atomic!Init
    BY <2>2 DEF Init, Atomic!Init
  <2>4. PlanFree
    BY DEF Init, PlanFree
  <2> QED
    BY <2>3, <2>4
<1>2. PlannerInv /\ PlanFree /\ [Next]_vars => PlanFree'
  BY PlanFreeStep DEF PlannerInv
<1>3. PlannerInv /\ PlannerInv' /\ PlanFree /\ TypeOK /\ [Next]_vars
        => [Atomic!Next]_(Atomic!vars)
  BY AtomicStep
<1> QED
  BY <1>1, <1>2, <1>3, PlannerAlways, TypeCorrect, PTL
     DEF Spec, PlansAtOneInstant, Atomic!Spec
===============================================================================
