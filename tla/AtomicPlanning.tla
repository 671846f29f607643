--------------------------- MODULE AtomicPlanning ---------------------------
(***************************************************************************)
(* What those who start waves rely on: a wave is dispatched at one         *)
(* instant, as if its plan had been made from the board of that instant.   *)
(* None of its agents shares a zone with an agent at work or with another  *)
(* of its wave, and none has to wait for a ticket that is not done. How a  *)
(* plan is made, and from what, is not said. WavePlanner is shown to       *)
(* implement this module.                                                  *)
(***************************************************************************)
EXTENDS Naturals, FiniteSets

CONSTANTS
  Tickets,  \* of the board
  Waves,    \* that may be at work at the same time
  MaxSize   \* of a wave

VARIABLES
  zone,     \* where the agent of each ticket works
  needs,    \* what each ticket depends on
  held,     \* the tickets no wave may dispatch
  done,     \* the tickets that are done
  working   \* the tickets of each wave whose agents are at work

fields == <<zone, needs, held>>
vars == <<fields, done, working>>

Init ==
  /\ zone \in [Tickets -> Nat]
  /\ DOMAIN needs = Tickets
  /\ held \subseteq Tickets /\ done \subseteq Tickets
  /\ working = [w \in Waves |-> {}]

ZoneFree(t) == \A w \in Waves : \A u \in working[w] : zone[u] # zone[t]

(* A wave starts: its tickets are free to be worked on, each by itself and  *)
(* all of them together.                                                    *)
Start(w) ==
  /\ working[w] = {}
  /\ \E S \in SUBSET (Tickets \ held) :
       /\ S # {} /\ Cardinality(S) <= MaxSize
       /\ \A t \in S : needs[t] \subseteq done /\ ZoneFree(t)
       /\ \A t, u \in S : zone[t] = zone[u] => t = u
       /\ working' = [working EXCEPT ![w] = S]
  /\ UNCHANGED <<fields, done>>

(* An agent is through, and its ticket is done or will be tried again.      *)
End(w, t) ==
  /\ t \in working[w]
  /\ working' = [working EXCEPT ![w] = @ \ {t}]
  /\ done' \in {done, done \cup {t}}
  /\ UNCHANGED fields

(* Somebody else completes a ticket.                                        *)
Complete(t) ==
  /\ done' = done \cup {t}
  /\ UNCHANGED <<fields, working>>

Next ==
  \/ \E w \in Waves : Start(w)
  \/ \E w \in Waves, t \in Tickets : End(w, t)
  \/ \E t \in Tickets : Complete(t)

Spec == Init /\ [][Next]_vars
=============================================================================
