------------------------------ MODULE GoalInbox ------------------------------
(***************************************************************************)
(* What is handed to the company from outside: goals and run intents that  *)
(* tools/control_plane/app.py writes into board/goal-inbox and run-inbox,  *)
(* goals that scripts/a2a_intake/intake.py writes into the same goal-inbox *)
(* from another process, and the Founder's gate approvals, which           *)
(* scripts/rbac.py appends to a ledger. The requests of the control plane  *)
(* are handled by the threads of a pool, none of them under a lock.        *)
(***************************************************************************)
EXTENDS Naturals, FiniteSets

CONSTANTS
  Requests,  \* the requests made, each once; a caller's retry is another
  Kind,      \* "goal", "run", "gate", or "a2a" for a goal by way of the intake
  Subject,   \* the slug of its title or target, or the ticket of the gate
  Seconds    \* what the clock may read, whatever it read before

Kinds == {"goal", "run", "gate", "a2a"}

ASSUME GoalInboxAssumption ==
  /\ IsFiniteSet(Requests)
  /\ Kind \in [Requests -> Kinds]
  /\ Subject \in [Requests -> Nat]

Inbox(r) == IF Kind[r] = "run" THEN "run-inbox" ELSE "goal-inbox"
Names == {"run-inbox", "goal-inbox"} \X Nat \X Seconds \X Nat

VARIABLES
  pc,         \* where the handler of each request is
  second,     \* the stamp in the name it tries
  counter,    \* the counter in the name it tries
  files,      \* the requests whose text a file holds, {} for a text cut short
  approvals,  \* the gate approvals that a reader of the ledger finds
  cut,        \* the approvals whose half lines end the ledger
  glued,      \* history: <<q, r>> where r's line was written behind q's half
  audited,    \* the requests whose "allow" line is in an audit log
  granted,    \* whether the RBAC config lets the Founder approve gates
  raced       \* history: requests that chose one name at once

ledger == <<approvals, cut, glued>>
written == <<files, ledger, audited>>
vars == <<pc, second, counter, written, granted, raced>>

AtWork == {"probe", "open", "fill", "decide", "append", "audit"}
Ended == {"refused", "answered", "error", "dead"}

Name(r) == <<Inbox(r), Subject[r], second[r], counter[r]>>

Goto(r, there) == pc' = [pc EXCEPT ![r] = there]

Init ==
  /\ pc = [r \in Requests |-> "idle"]
  /\ second \in [Requests -> Seconds]
  /\ counter = [r \in Requests |-> 1]
  /\ files = [f \in {} |-> {}]
  /\ approvals = {} /\ cut = {} /\ glued = {}
  /\ audited = {}
  /\ granted \in BOOLEAN
  /\ raced = {}

-------------------------------------------------------------------------------
(* The flag, the token and the permission; for the intake, the flag, the    *)
(* shape of the submission and its screening. All of them may turn it down. *)
Refuse(r) ==
  /\ pc[r] = "idle"
  /\ Goto(r, "refused")
  /\ UNCHANGED <<second, counter, written, granted, raced>>

Accept(r) ==
  /\ pc[r] = "idle"
  /\ Kind[r] = "gate" => granted
  /\ IF Kind[r] = "gate"
     THEN Goto(r, "decide") /\ UNCHANGED second
     ELSE Goto(r, "probe") /\ \E s \in Seconds : second' = [second EXCEPT ![r] = s]
  /\ UNCHANGED <<counter, written, granted, raced>>

(* write_goal, write_run_intent, intake_goal_proposal: the first name of the
   second that does not exist, by asking for one after the other.            *)
Rivals(r) == {q \in Requests \ {r} : pc[q] = "open" /\ Name(q) = Name(r)}

ProbeNot(r) ==   \* mutant: the first name is taken unseen
  /\ pc[r] = "probe"
  /\ raced' = IF Rivals(r) = {} THEN raced ELSE raced \cup {r} \cup Rivals(r)
  /\ Goto(r, "open")
  /\ UNCHANGED <<second, counter, written, granted>>

Probe(r) ==
  /\ pc[r] = "probe"
  /\ Name(r) \notin DOMAIN files
  /\ raced' = IF Rivals(r) = {} THEN raced ELSE raced \cup {r} \cup Rivals(r)
  /\ Goto(r, "open")
  /\ UNCHANGED <<second, counter, written, granted>>

ProbeSame(r) ==   \* mutant: the same name is asked for again
  /\ pc[r] = "probe" /\ Name(r) \in DOMAIN files
  /\ UNCHANGED vars

ProbeNext(r) ==
  /\ pc[r] = "probe"
  /\ Name(r) \in DOMAIN files
  /\ counter' = [counter EXCEPT ![r] = @ + 1]
  /\ UNCHANGED <<pc, second, written, granted, raced>>

Put(f, text) ==
  files' = [g \in DOMAIN files \cup {f} |-> IF g = f THEN text ELSE files[g]]

(* write_text: the file is created or cut to nothing, then the text is put
   over whatever another handler has put there; what that had beyond the end
   of the text stays.                                                        *)
Open(r) ==
  /\ pc[r] = "open"
  /\ Put(Name(r), {})
  /\ Goto(r, "fill")
  /\ UNCHANGED <<second, counter, ledger, audited, granted, raced>>

Fill(r) ==
  /\ pc[r] = "fill"
  /\ \E rest \in {{}, files[Name(r)]} : Put(Name(r), {r} \cup rest)
  /\ Goto(r, "audit")
  /\ UNCHANGED <<second, counter, ledger, audited, granted, raced>>

(* append_gate_approval asks for the permission once more, then appends one
   line under a flock and syncs it. Half a line that ends the ledger is not
   looked for: the line is glued to it, and iter_gate_approvals skips both.  *)
DecideAudited(r) ==   \* mutant: the allow line comes before the approval
  /\ pc[r] = "decide"
  /\ audited' = audited \cup {r}
  /\ Goto(r, IF granted THEN "append" ELSE "refused")
  /\ UNCHANGED <<second, counter, files, ledger, granted, raced>>

Decide(r) ==
  /\ pc[r] = "decide"
  /\ Goto(r, IF granted THEN "append" ELSE "refused")
  /\ UNCHANGED <<second, counter, written, granted, raced>>

Line(r) ==
  /\ approvals' = IF cut = {} THEN approvals \cup {r} ELSE approvals
  /\ glued' = glued \cup (cut \X {r})
  /\ cut' = {}

Half(r) ==
  /\ cut' = cut \cup {r}
  /\ UNCHANGED <<approvals, glued>>

Append(r) ==
  /\ pc[r] = "append"
  /\ Line(r)
  /\ Goto(r, "audit")
  /\ UNCHANGED <<second, counter, files, audited, granted, raced>>

(* The allow line. The control plane answers without it when it cannot be
   written, the intake raises, be it before the line is written or after.    *)
Audit(r) ==
  /\ pc[r] = "audit"
  /\ audited' \in {audited, audited \cup {r}}
  /\ \/ audited' # audited /\ Goto(r, "answered")
     \/ Goto(r, IF Kind[r] = "a2a" THEN "error" ELSE "answered")
  /\ UNCHANGED <<second, counter, files, ledger, granted, raced>>

(* An OSError: a file that is not created, a text that is cut short, which
   spoils what another handler has put there, a line of which nothing, half
   or all is written when the append raises.                                 *)
Fail(r) ==
  /\ Goto(r, "error")
  /\ \/ /\ pc[r] = "open"
        /\ UNCHANGED <<files, ledger>>
     \/ /\ pc[r] = "fill"
        /\ files' = [files EXCEPT ![Name(r)] = {}]
        /\ UNCHANGED ledger
     \/ /\ pc[r] = "append"
        /\ UNCHANGED ledger \/ Half(r) \/ Line(r)
        /\ UNCHANGED files
  /\ UNCHANGED <<second, counter, audited, granted, raced>>

-------------------------------------------------------------------------------
(* A kill takes every request of the process with it. The one that holds the
   flock of the ledger may leave half its line. (A line that is whole when the
   kill comes is an Append before it, a text or a part of it a Fill or an Open.) *)
Kill(process) ==
  /\ \E r \in process : pc[r] \in AtWork
  /\ pc' = [r \in Requests |-> IF r \in process /\ pc[r] \in AtWork THEN "dead" ELSE pc[r]]
  /\ \/ UNCHANGED ledger
     \/ \E r \in process : pc[r] = "append" /\ Half(r)
  /\ UNCHANGED <<second, counter, files, audited, granted, raced>>

Outside == {r \in Requests : Kind[r] = "a2a"}

(* The config is edited while requests are at work.                          *)
Configure ==
  /\ granted' = ~granted
  /\ UNCHANGED <<pc, second, counter, written, raced>>

Work(r) ==
  \/ Probe(r) \/ ProbeNext(r) \/ Open(r) \/ Fill(r)
  \/ Decide(r) \/ Append(r) \/ Audit(r) \/ Fail(r)

Next ==
  \/ \E r \in Requests : Refuse(r) \/ Accept(r) \/ Work(r)
  \/ Kill(Outside) \/ Kill(Requests \ Outside)
  \/ Configure

Spec == Init /\ [][Next]_vars

(* A handler that has begun goes on: it waits for nothing but the flock of
   the ledger, which is held for one line.                                   *)
FairSpec == Spec /\ \A r \in Requests : WF_vars(Work(r))

-------------------------------------------------------------------------------
TypeOK ==
  /\ pc \in [Requests -> {"idle"} \cup AtWork \cup Ended]
  /\ second \in [Requests -> Seconds]
  /\ counter \in [Requests -> Nat]
  /\ DOMAIN files \subseteq Names
  /\ files \in [DOMAIN files -> SUBSET Requests]
  /\ approvals \in SUBSET Requests /\ cut \in SUBSET Requests
  /\ glued \in SUBSET (Requests \X Requests)
  /\ audited \in SUBSET Requests
  /\ granted \in BOOLEAN
  /\ raced \in SUBSET Requests

Kept(r) == Name(r) \in DOMAIN files /\ files[Name(r)] = {r}

(* A goal or an intent that was answered for is in its inbox, whole, under  *)
(* a name of its own, whatever the control plane and the intake write in    *)
(* the same second and however their writes fail: unless the two of them    *)
(* had looked for the name before either had created it.                    *)
AcceptedIsKept ==
  \A r \in Requests :
    pc[r] = "answered" /\ Kind[r] # "gate" => Kept(r) \/ r \in raced

Lost(r) == \E q \in Requests \ {r} : <<q, r>> \in glued /\ pc[q] \in {"error", "dead"}

(* An allow line in an audit log is never of something that was not done,   *)
(* an approval apart whose line was glued to the half line of another that  *)
(* failed or was killed, and a half line costs one approval at most         *)
(* (_append_audit, iter_gate_approvals). A request that was refused has     *)
(* left nothing behind; after an error or a kill the caller cannot tell.    *)
AuditedIsDone ==
  /\ \A r \in audited :
       IF Kind[r] = "gate" THEN r \in approvals \/ Lost(r) ELSE Kept(r) \/ r \in raced
  /\ \A g, h \in glued : g[1] = h[1] => g = h
  /\ \A r \in Requests : pc[r] = "refused" =>
       r \notin approvals \cup cut /\ \A f \in DOMAIN files : r \notin files[f]

(* Every request that is accepted ends: the search for a free name cannot   *)
(* go on for ever, though others keep taking names.                         *)
RequestsEnd == \A r \in Requests : pc[r] \in AtWork ~> pc[r] \in Ended
===============================================================================
