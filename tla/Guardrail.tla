------------------------------- MODULE Guardrail -------------------------------
(***************************************************************************)
(* scripts/guardrail_dispatch.py: the output guardrail of a ticket. A call *)
(* runs the agent until its output passes, writes what was wrong into the  *)
(* ticket, and hands the ticket to a reviewer when the retries are used up *)
(* or the ticket is halted. Calls of several waves, agents and people work *)
(* on one ticket: the calls under the lock of scripts/filelock.py, agents  *)
(* and people without it.                                                  *)
(***************************************************************************)
EXTENDS Naturals, FiniteSets

CONSTANTS
  Calls,    \* the calls of guardrail_dispatch on the ticket
  Retries,  \* max_retries
  Roles,    \* the roles of the org model
  NoRole,   \* "the Board", which is no role
  Boss      \* reports_to of each role

ASSUME GuardrailAssumption ==
  /\ Retries \in Nat
  /\ NoRole \notin Roles
  /\ Boss \in [Roles -> Roles \cup {NoRole}]
  /\ \A r \in Roles : Boss[r] # r

VARIABLES
  pc,        \* where each call is
  role,      \* the role it dispatches: the assignee when it began
  attempt,   \* the number of its attempt
  text,      \* the text of the ticket it has read under the lock
  holder,    \* the calls that hold the lock of the ticket
  status,    \* of the ticket
  assignee,  \* of the ticket
  author,    \* of the ticket
  notes,     \* the entries the calls have made in the ticket
  late,      \* history: the ticket was edited while a call held the lock
  extra,     \* history: agents run on the ticket since it was blocked
  blind      \* history: looks since then that could not read the ticket

ticket == <<status, assignee, notes>>
halts == <<late, extra, blind>>
vars == <<pc, role, attempt, text, holder, ticket, author, halts>>

Ended == {"input_rejected", "passed", "escalated", "error", "dead"}
PCs == {"idle", "run", "output", "look", "retry", "halt", "escalate", "replace"} \cup Ended
Statuses == {"open", "blocked", "in_review"}
Note == Calls \X {"retry", "halt", "escalation"} \X (0 .. Retries)
Text == [status : Statuses, assignee : Roles, notes : SUBSET Note]

Goto(c, there) == pc' = [pc EXCEPT ![c] = there]
Current == [status |-> status, assignee |-> assignee, notes |-> notes]

Init ==
  /\ pc = [c \in Calls |-> "idle"]
  /\ assignee \in Roles /\ author \in Roles
  /\ role = [c \in Calls |-> assignee]
  /\ attempt = [c \in Calls |-> 0]
  /\ status \in {"open", "blocked"}
  /\ notes = {}
  /\ text = [c \in Calls |-> Current]
  /\ holder = {}
  /\ late = FALSE
  /\ extra = [c \in Calls |-> 0]
  /\ blind = [c \in Calls |-> 0]

-------------------------------------------------------------------------------
(* build_context, then the input guardrail, which may refuse the ticket.    *)
Begin(c) ==
  /\ pc[c] = "idle"
  /\ role' = [role EXCEPT ![c] = assignee]
  /\ Goto(c, "run") \/ Goto(c, "input_rejected")
  /\ UNCHANGED <<attempt, text, holder, ticket, author, halts>>

(* The agent, which may block the ticket that it works on.                  *)
RunAgent(c) ==
  /\ pc[c] = "run"
  /\ extra' = [extra EXCEPT ![c] = IF status = "blocked" THEN @ + 1 ELSE @]
  /\ status' \in {status, "blocked"}
  /\ late' = (late \/ (status' # status /\ holder # {}))
  /\ Goto(c, "output")
  /\ UNCHANGED <<role, attempt, text, holder, assignee, author, notes, blind>>

Judge(c) ==
  /\ pc[c] = "output"
  /\ Goto(c, "passed") \/ Goto(c, "look")
  /\ UNCHANGED <<role, attempt, text, holder, ticket, author, halts>>

LookBack(c) ==   \* mutant: the status is taken from the text of the last read
  /\ pc[c] = "look"
  /\ Goto(c, IF text[c].status = "blocked" THEN "halt" ELSE "retry")
  /\ UNCHANGED <<role, attempt, text, holder, ticket, author, halts>>

(* halted_status reads the ticket, without the lock. A ticket that cannot be
   read counts as one that is not halted.                                    *)
LookSees(c) ==
  /\ Goto(c, IF status = "blocked" THEN "halt" ELSE "retry")
  /\ UNCHANGED blind

LookMisses(c) ==
  /\ Goto(c, "retry")
  /\ blind' = [blind EXCEPT ![c] = IF status = "blocked" THEN @ + 1 ELSE @]

Look(c) ==
  /\ pc[c] = "look"
  /\ LookSees(c) \/ LookMisses(c)
  /\ UNCHANGED <<role, attempt, text, holder, ticket, author, late, extra>>

(* locked_append_text: one write under the lock.                            *)
Append(c, kind) ==
  /\ holder = {}
  /\ notes' = notes \cup {<<c, kind, attempt[c]>>}
  /\ UNCHANGED <<role, text, holder, status, assignee, author, halts>>

RetrySame(c) ==   \* mutant: attempts are not counted
  /\ pc[c] = "retry"
  /\ Append(c, "retry")
  /\ Goto(c, "run")
  /\ UNCHANGED attempt

(* The feedback is written after the last attempt, too.                     *)
Retry(c) ==
  /\ pc[c] = "retry"
  /\ Append(c, "retry")
  /\ Goto(c, IF attempt[c] < Retries THEN "run" ELSE "escalate")
  /\ attempt' = [attempt EXCEPT ![c] = IF @ < Retries THEN @ + 1 ELSE @]

Halt(c) ==
  /\ pc[c] = "halt"
  /\ Append(c, "halt")
  /\ Goto(c, "escalate")
  /\ UNCHANGED attempt

(* escalation_target: the boss of the role, and above the author.           *)
TargetNear(r) == Boss[r]   \* mutant: the author is not avoided

Target(r) ==
  IF Boss[r] # NoRole /\ Boss[r] = author /\ Boss[author] # NoRole
  THEN Boss[author]
  ELSE Boss[r]

EscalateAhead(c) ==   \* mutant: the ticket is read before the lock is taken
  /\ pc[c] = "escalate"
  /\ text' = [text EXCEPT ![c] = Current]
  /\ Goto(c, "replace")
  /\ UNCHANGED <<role, attempt, holder, ticket, author, halts>>

(* escalate_in_ticket: the text is read, changed and replaced under the lock. *)
Escalate(c) ==
  /\ pc[c] = "escalate"
  /\ holder = {}
  /\ holder' = {c}
  /\ text' = [text EXCEPT ![c] = Current]
  /\ late' = FALSE
  /\ Goto(c, "replace")
  /\ UNCHANGED <<role, attempt, ticket, author, extra, blind>>

StatusAlways(read) == "in_review"   \* mutant: a halt is overwritten

StatusAfter(read) == IF read = "blocked" THEN "blocked" ELSE "in_review"

Replace(c) ==
  /\ pc[c] = "replace"
  /\ notes' = text[c].notes \cup {<<c, "escalation", attempt[c]>>}
  /\ IF Target(role[c]) = NoRole
     THEN /\ status' = text[c].status
          /\ assignee' = text[c].assignee
     ELSE /\ status' = StatusAfter(text[c].status)
          /\ assignee' = Target(role[c])
  /\ holder' = holder \ {c}
  /\ extra' = IF status' = "blocked" THEN extra ELSE [d \in Calls |-> 0]
  /\ blind' = IF status' = "blocked" THEN blind ELSE [d \in Calls |-> 0]
  /\ Goto(c, "escalated")
  /\ UNCHANGED <<role, attempt, text, author, late>>

(* A lock that is not free for too long, a ticket that cannot be appended to,
   or not be read or replaced under the lock: run_wave notes the error and
   goes on to the next ticket.                                               *)
Fail(c) ==
  /\ pc[c] \notin {"idle"} \cup Ended
  /\ Goto(c, "error")
  /\ holder' = holder \ {c}
  /\ UNCHANGED <<role, attempt, text, ticket, author, halts>>

(* A kill: the lock goes with the process, the replacement is not made.     *)
Die(c) ==
  /\ pc[c] \notin {"idle"} \cup Ended
  /\ Goto(c, "dead")
  /\ holder' = holder \ {c}
  /\ UNCHANGED <<role, attempt, text, ticket, author, halts>>

(* People and other agents block the ticket and take it up again.           *)
Edit ==
  /\ status' \in {"open", "blocked"} \ {status}
  /\ late' = (late \/ holder # {})
  /\ extra' = [c \in Calls |-> 0]
  /\ blind' = [c \in Calls |-> 0]
  /\ UNCHANGED <<pc, role, attempt, text, holder, assignee, author, notes>>

Work(c) ==
  \/ Begin(c) \/ RunAgent(c) \/ Judge(c) \/ Look(c) \/ Retry(c) \/ Halt(c)
  \/ Escalate(c) \/ Replace(c) \/ Fail(c)

Next == Edit \/ \E c \in Calls : Work(c) \/ Die(c)

Spec == Init /\ [][Next]_vars

(* A call goes on: run_wave replays an output it has, and waits for locks
   with a deadline.                                                          *)
FairSpec == Spec /\ \A c \in Calls : WF_vars(Work(c))

-------------------------------------------------------------------------------
TypeOK ==
  /\ pc \in [Calls -> PCs]
  /\ role \in [Calls -> Roles]
  /\ attempt \in [Calls -> 0 .. Retries]
  /\ text \in [Calls -> Text]
  /\ holder \in SUBSET Calls
  /\ status \in Statuses /\ assignee \in Roles /\ author \in Roles
  /\ notes \in SUBSET Note
  /\ late \in BOOLEAN
  /\ extra \in [Calls -> Nat] /\ blind \in [Calls -> Nat]

(* What a call has written into the ticket stays: an agent that is run      *)
(* again finds the feedback of every attempt before, whatever other calls   *)
(* append or replace meanwhile, and an escalation leaves its entry.         *)
FeedbackIsKept ==
  \A c \in Calls :
    /\ \A k \in 0 .. attempt[c] : k < attempt[c] => <<c, "retry", k>> \in notes
    /\ pc[c] = "escalated" => <<c, "escalation", attempt[c]>> \in notes

(* A halted ticket costs a call at most one more run of its agent, the one  *)
(* that it had decided on before it could see the halt, and one for each    *)
(* time it looked at the halted ticket and could not read it                *)
(* (halted_status).                                                         *)
HaltCostsOneRun == \A c \in Calls : extra[c] <= 1 + blind[c]

(* No call takes a ticket out of "blocked", unless the ticket was blocked   *)
(* while the call was replacing its text.                                   *)
HaltIsKept ==
  [][pc' # pc /\ status = "blocked" => status' = "blocked" \/ late]_vars

(* A ticket in review is with its author only if nobody is above the author. *)
SelfReviewOnlyAtTop ==
  status = "in_review" /\ assignee = author => Boss[author] = NoRole

(* Every call that begins ends, with a verdict or an error.                 *)
CallsEnd == \A c \in Calls : pc[c] = "run" ~> pc[c] \in Ended
===============================================================================
