------------------------------ MODULE WavePlanner ------------------------------
(***************************************************************************)
(* scripts/wave_planner.py plan_wave, over the life of a board: waves are  *)
(* planned from a snapshot of the board and the zones the operator says    *)
(* are occupied, run, and end, several at a time, while agents and people  *)
(* change the statuses on the board. A plan is made one ticket at a time,  *)
(* in the order of ordering_key; tickets are numbered in that order.       *)
(***************************************************************************)
EXTENDS Naturals, Sequences, FiniteSets, FiniteSetsExt

CONSTANTS
  N,         \* tickets on the board
  Waves,     \* the orchestrators that may be at work at the same time
  MaxSize,   \* max_wave_size (N when there is no limit)
  Fields,    \* the frontmatters a ticket may have
  Edits      \* the status changes people make, pairs; nobody reopens a done one

Tickets == 1 .. N

(* A status that is actionable, one that satisfies a dependency, or neither. *)
Statuses == {"todo", "done", "other"}

(* zone 0 and parent 0 are blank fields; dependency 0 names no known ticket. *)
Frontmatter ==
  [zone : Nat, deps : SUBSET (0 .. N), parent : 0 .. N,
   marks : SUBSET {"deferred", "clarify_blocked", "open_predecessor_gate",
                   "no_model_for_role"}]

ASSUME WavePlannerAssumption ==
  /\ N \in Nat
  /\ MaxSize \in Nat
  /\ Fields \subseteq Frontmatter
  /\ Edits \subseteq (Statuses \ {"done"}) \X Statuses

VARIABLES
  field,     \* the frontmatter of each ticket
  status,    \* its status on the board
  pc,        \* "idle", "planning" or "running"
  snap,      \* the statuses each wave's plan is made from
  occupied,  \* the zones its operator named
  toSee,     \* the tickets its planner has not come to
  taken,     \* the zones its planner regards as taken
  plan,      \* the tickets it dispatches
  reason,    \* why a ticket is refused
  left       \* the tickets whose agents are still at work

board == <<field, status>>
wave == <<snap, occupied, toSee, taken, plan, reason, left>>
vars == <<board, pc, wave>>

NoSnapshot == [t \in Tickets |-> "other"]
NoReasons == [t \in Tickets |-> "none"]

Init ==
  /\ field \in [Tickets -> Fields]
  /\ status \in [Tickets -> Statuses]
  /\ pc = [w \in Waves |-> "idle"]
  /\ snap = [w \in Waves |-> NoSnapshot]
  /\ occupied = [w \in Waves |-> {}]
  /\ toSee = [w \in Waves |-> {}]
  /\ taken = [w \in Waves |-> {}]
  /\ plan = [w \in Waves |-> {}]
  /\ reason = [w \in Waves |-> NoReasons]
  /\ left = [w \in Waves |-> {}]

-------------------------------------------------------------------------------
(* What the planner asks of one ticket.                                     *)

EffectiveZone(t) == IF field[t].zone = 0 THEN t ELSE field[t].zone

ParentTickets == {field[t].parent : t \in Tickets} \ {0}

UnmetOfKnown(w, t) ==   \* mutant: a dependency read as met unless it is to do
  {d \in field[t].deps : d # 0 /\ snap[w][d] = "todo"}

UnmetUnnormalized(w, t) ==   \* mutant: no status on the board satisfies one
  field[t].deps

UnmetDependencies(w, t) ==
  {d \in field[t].deps : d = 0 \/ snap[w][d] # "done"}

(* In the order plan_wave tests them.                                       *)
Reasons ==
  <<"not_actionable", "deferred", "clarify_blocked", "unmet_dependency",
    "open_predecessor_gate", "no_model_for_role", "zone_conflict", "wave_full">>

Applies(w, t) ==
  field[t].marks
  \cup (IF t \in ParentTickets \/ snap[w][t] # "todo" THEN {"not_actionable"} ELSE {})
  \cup (IF UnmetDependencies(w, t) # {} THEN {"unmet_dependency"} ELSE {})
  \cup (IF EffectiveZone(t) \in taken[w] THEN {"zone_conflict"} ELSE {})
  \cup (IF Cardinality(plan[w]) >= MaxSize THEN {"wave_full"} ELSE {})

FirstReason(w, t) == Reasons[Min({i \in DOMAIN Reasons : Reasons[i] \in Applies(w, t)})]

-------------------------------------------------------------------------------
(* build_plan_from_board: the board is read, and plan_wave is given the     *)
(* zones the operator names with --occupied-zone: those of every ticket     *)
(* still at work. The operator does not start a plan next to another one.   *)
AtWork == {at \in Waves \X Tickets : at[2] \in left[at[1]]}
ZonesAtWork == {EffectiveZone(at[2]) : at \in AtWork}

Load(w) ==
  /\ pc[w] = "idle"
  /\ \A v \in Waves : pc[v] # "planning"
  /\ pc' = [pc EXCEPT ![w] = "planning"]
  /\ snap' = [snap EXCEPT ![w] = status]
  /\ occupied' = [occupied EXCEPT ![w] = ZonesAtWork]
  /\ toSee' = [toSee EXCEPT ![w] = Tickets]
  /\ taken' = [taken EXCEPT ![w] = ZonesAtWork]
  /\ UNCHANGED <<board, plan, reason, left>>

LastTicket(w) == Max(toSee[w])   \* mutant: the least urgent ticket first

NextTicket(w) == Min(toSee[w])

See(w, t) ==
  /\ pc[w] = "planning" /\ toSee[w] # {} /\ t = NextTicket(w)
  /\ toSee' = [toSee EXCEPT ![w] = @ \ {t}]
  /\ UNCHANGED <<board, pc, snap, occupied, left>>

Refuse(w, t) ==
  /\ See(w, t)
  /\ Applies(w, t) # {}
  /\ reason' = [reason EXCEPT ![w][t] = FirstReason(w, t)]
  /\ UNCHANGED <<taken, plan>>

TakeNoZone(w, t) ==   \* mutant: the zone stays free for the next ticket
  /\ See(w, t)
  /\ Applies(w, t) = {}
  /\ plan' = [plan EXCEPT ![w] = @ \cup {t}]
  /\ UNCHANGED <<taken, reason>>

Take(w, t) ==
  /\ See(w, t)
  /\ Applies(w, t) = {}
  /\ taken' = [taken EXCEPT ![w] = @ \cup {EffectiveZone(t)}]
  /\ plan' = [plan EXCEPT ![w] = @ \cup {t}]
  /\ UNCHANGED reason

(* plan_wave returns: the statuses and the zones it worked with are gone.   *)
Dispatch(w) ==
  /\ pc[w] = "planning" /\ toSee[w] = {} /\ plan[w] # {}
  /\ pc' = [pc EXCEPT ![w] = "running"]
  /\ left' = [left EXCEPT ![w] = plan[w]]
  /\ snap' = [snap EXCEPT ![w] = NoSnapshot]
  /\ taken' = [taken EXCEPT ![w] = {}]
  /\ UNCHANGED <<board, occupied, toSee, plan, reason>>

(* The orchestrator returns: after its wave, or at once with an empty plan. *)
Return(w) ==
  /\ pc[w] # "idle" /\ toSee[w] = {} /\ left[w] = {}
  /\ pc[w] = "planning" => plan[w] = {}
  /\ pc' = [pc EXCEPT ![w] = "idle"]
  /\ snap' = [snap EXCEPT ![w] = NoSnapshot]
  /\ occupied' = [occupied EXCEPT ![w] = {}]
  /\ taken' = [taken EXCEPT ![w] = {}]
  /\ plan' = [plan EXCEPT ![w] = {}]
  /\ reason' = [reason EXCEPT ![w] = NoReasons]
  /\ UNCHANGED <<board, toSee, left>>

(* The agent of a ticket is through, and what it made of it is on the board. *)
TicketEnds(w, t) ==
  /\ t \in left[w]
  /\ left' = [left EXCEPT ![w] = @ \ {t}]
  /\ \E s \in {status[t], "done", "other"} :
       status' = [status EXCEPT ![t] = IF @ = "done" THEN @ ELSE s]
  /\ UNCHANGED <<field, pc, snap, occupied, toSee, taken, plan, reason>>

(* People edit the board at any time, while a wave is planned included.     *)
Edit(t) ==
  /\ \E s \in Statuses : <<status[t], s>> \in Edits /\ status' = [status EXCEPT ![t] = s]
  /\ UNCHANGED <<field, pc, wave>>

Next ==
  \/ \E w \in Waves : Load(w) \/ Dispatch(w) \/ Return(w)
  \/ \E w \in Waves, t \in Tickets : Refuse(w, t) \/ Take(w, t) \/ TicketEnds(w, t)
  \/ \E t \in Tickets : Edit(t)

Spec == Init /\ [][Next]_vars

-------------------------------------------------------------------------------
TypeOK ==
  /\ field \in [Tickets -> Fields]
  /\ status \in [Tickets -> Statuses]
  /\ pc \in [Waves -> {"idle", "planning", "running"}]
  /\ snap \in [Waves -> [Tickets -> Statuses]]
  /\ occupied \in [Waves -> SUBSET Nat]
  /\ toSee \in [Waves -> SUBSET Tickets]
  /\ taken \in [Waves -> SUBSET Nat]
  /\ plan \in [Waves -> SUBSET Tickets]
  /\ \A w \in Waves : Cardinality(plan[w]) <= MaxSize
  /\ left \in [Waves -> SUBSET Tickets]
  /\ reason \in [Waves -> [Tickets -> {"none"} \cup {Reasons[i] : i \in DOMAIN Reasons}]]

(* Two agents at work are never in one zone, whether in one wave or in two, *)
(* nor on one ticket: a ticket that is at work is still actionable on the   *)
(* board, and only its zone keeps the next plan from dispatching it again.  *)
ZoneExclusive ==
  \A a, b \in AtWork : a # b => EffectiveZone(a[2]) # EffectiveZone(b[2])

(* An agent at work never waits for another ticket's: all its ticket        *)
(* depends on is done, on the board as it is now and not only as the plan   *)
(* read it before the wave.                                                 *)
DependenciesMet ==
  \A a \in AtWork : \A d \in field[a[2]].deps : d # 0 /\ status[d] = "done"

(* The plan is the one ordering_key asks for: a ticket turned away for its  *)
(* zone or for lack of room yields to more urgent ones only, and every      *)
(* ticket of the board is either dispatched or refused, for a reason.       *)
PlanFollowsPriority ==
  \A w \in Waves : pc[w] = "running" => \A t \in Tickets :
    /\ t \in plan[w] <=> reason[w][t] = "none"
    /\ reason[w][t] = "zone_conflict" =>
         \/ EffectiveZone(t) \in occupied[w]
         \/ \E u \in plan[w] : u < t /\ EffectiveZone(u) = EffectiveZone(t)
    /\ reason[w][t] = "wave_full" =>
         Cardinality(plan[w]) = MaxSize /\ \A u \in plan[w] : u < t

-------------------------------------------------------------------------------
(* The operator starts waves for ever, the people unblock what is blocked,  *)
(* an agent ends, and one given its ticket often enough completes it.       *)
Completes(t) == \E w \in Waves : TicketEnds(w, t) /\ status'[t] = "done"

FairSpec ==
  /\ Spec
  /\ \A w \in Waves :
       WF_vars(Load(w) \/ Dispatch(w) \/ Return(w)
               \/ \E t \in Tickets : Refuse(w, t) \/ Take(w, t) \/ TicketEnds(w, t))
  /\ \A t \in Tickets : WF_vars(Edit(t)) /\ SF_vars(Completes(t))

(* Nothing in the tickets' fields holds them back: no flag, no container, no *)
(* dependency that is not on the board or comes round to the ticket itself. *)
Workable ==
  /\ MaxSize > 0 /\ ParentTickets = {}
  /\ \A t \in Tickets : field[t].marks = {} /\ field[t].deps \subseteq 1 .. t - 1

(* Then every ticket is done in the end: none is starved by the zone of more *)
(* urgent tickets that fail and are tried again, nor by the size of a wave. *)
EveryTicketIsDone == Workable ~> \A t \in Tickets : status[t] = "done"

-------------------------------------------------------------------------------
(* A plan is made ticket by ticket while agents end and people edit, from a *)
(* snapshot and from zones named before: yet the wave it dispatches is one  *)
(* that could have been planned from the board at the moment it starts.     *)
Atomic == INSTANCE AtomicPlanning WITH
  zone <- [t \in Tickets |-> EffectiveZone(t)],
  needs <- [t \in Tickets |-> field[t].deps],
  held <- {t \in Tickets : field[t].marks # {} \/ t \in ParentTickets},
  done <- {t \in Tickets : status[t] = "done"},
  working <- left

PlansAtOneInstant == Atomic!Spec
===============================================================================
