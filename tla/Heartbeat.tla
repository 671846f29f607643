------------------------------- MODULE Heartbeat -------------------------------
(***************************************************************************)
(* scripts/loop_controller.py tick, with scripts/flow_router.py and        *)
(* scripts/break_glass.py: the heartbeat that decides, from what it reads  *)
(* one file after the other, whether the next wave may start, next to the  *)
(* waves it has started and to a person who pulls the break glass. The     *)
(* scheduler runs one tick at a time and starts a wave when it says so.    *)
(***************************************************************************)
EXTENDS WaveTrail

CONSTANT MaxConcurrent   \* max_concurrent_waves of board/schedule.yaml

ASSUME HeartbeatAssumption == MaxConcurrent \in Nat \ {0}

VARIABLES
  tick,      \* how far the tick is: what it has read of the rails, its decision
  override,  \* the break glass: "lost" if its event is glued to half a line
  under      \* history: the tick began while an override was in force

hvars == <<vars, tick, override, under>>

Ticks == {"idle", "asked", "clear", "held", "dispatch"}

HInit == Init /\ tick = "idle" /\ override = "off" /\ under = FALSE

(* actionable_work_exists and the trigger: the handlers that want a wave.    *)
Ask ==
  /\ tick = "idle"
  /\ tick' = "asked"
  /\ under' = (override = "on")
  /\ UNCHANGED <<vars, override>>

ReadRailsClear ==   \* mutant: the break glass is not asked
  /\ tick = "asked"
  /\ tick' \in {"clear", "held"}
  /\ UNCHANGED <<vars, override, under>>

(* is_active, then quiet hours, the day's budget and the month's credit. An   *)
(* override counts at the moment the tick began: one pulled since is not seen. *)
ReadRails ==
  /\ tick = "asked"
  /\ tick' \in {"held"} \cup (IF override = "on" /\ under THEN {} ELSE {"clear"})
  /\ UNCHANGED <<vars, override, under>>

WaveInFlight == Cardinality(InFlight) >= MaxConcurrent

(* route_from_store reads the store again, for the runs in flight: there are *)
(* none in a store that cannot be read.                                       *)
Route ==
  /\ tick \in {"clear", "held"}
  /\ tick' \in IF tick = "held" THEN {"idle"}
              ELSE {"dispatch"} \cup (IF WaveInFlight THEN {"idle"} ELSE {})
  /\ UNCHANGED <<vars, override, under>>

(* The scheduler acts on the decision.                                       *)
Launch(r) ==
  /\ tick = "dispatch"
  /\ Begin(r)
  /\ tick' = "idle"
  /\ UNCHANGED <<override, under>>

(* break_glass activate appends to the event store; the override runs out.   *)
Activate ==
  /\ override = "off"
  /\ override' = IF "store" \in cut THEN "lost" ELSE "on"
  /\ AppendOther
  /\ UNCHANGED <<tick, under>>

Expire ==
  /\ override # "off"
  /\ override' = "off"
  /\ under' = FALSE
  /\ UNCHANGED <<vars, tick>>

WaveStep(r) == (Step(r) \/ Death(r)) /\ UNCHANGED <<tick, override, under>>

HNext ==
  \/ Ask \/ ReadRails \/ Route \/ Activate \/ Expire
  \/ \E r \in RunIds : Launch(r) \/ WaveStep(r)

HSpec == HInit /\ [][HNext]_hvars

-------------------------------------------------------------------------------
HTypeOK ==
  /\ TypeOK
  /\ tick \in Ticks
  /\ override \in {"off", "on", "lost"}
  /\ under \in BOOLEAN

(* A tick that begins under an override in force starts no wave while the    *)
(* override lasts, although it reads the store several times over.           *)
OverrideStopsLaterTicks == under => tick # "dispatch"

(* flow_router.py, line 101, board/schedule.yaml, line 4: a wave in flight   *)
(* withholds the next one, max_concurrent_waves at a time.                   *)
OneWaveInFlight == Cardinality({r \in RunIds : pc[r] # "off"}) <= MaxConcurrent
===============================================================================
