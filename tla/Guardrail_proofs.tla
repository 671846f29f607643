--------------------------- MODULE Guardrail_proofs ---------------------------
(***************************************************************************)
(* Proofs about Guardrail, for any set of calls, any number of retries and *)
(* any org model in which no role reports to itself.                       *)
(*                                                                         *)
(* The invariants say what the lock of the ticket gives to the call that   *)
(* replaces its text: the entries it has read are those of the ticket, and *)
(* so is the status, unless somebody edited the ticket without the lock.   *)
(***************************************************************************)
EXTENDS Guardrail, TLAPS

(* The text a call has read is that of the ticket until it replaces it.     *)
TextIsCurrent ==
  \A c \in Calls : pc[c] = "replace" =>
    /\ holder = {c}
    /\ text[c].notes = notes
    /\ late \/ text[c].status = status

(* A run that is counted saw the ticket blocked, and it still is; a call    *)
(* whose agent may yet be run owes all of them to looks that missed.        *)
RunsAreSeen ==
  \A c \in Calls :
    /\ extra[c] <= 1 + blind[c]
    /\ extra[c] > 0 => status = "blocked"
    /\ pc[c] \in {"idle", "run", "retry"} => extra[c] <= blind[c]

ReviewedBy(s, a) == s = "in_review" /\ a = author => Boss[author] = NoRole

(* What a call has read may be put back.                                    *)
ReadersAreSound == \A c \in Calls : ReviewedBy(text[c].status, text[c].assignee)

-------------------------------------------------------------------------------
(* Every variable keeps its type: an escalation never names a role that the *)
(* org model does not have.                                                 *)
THEOREM TypeCorrect == Spec => []TypeOK
<1>1. Init => TypeOK
  <2> SUFFICES ASSUME Init  PROVE TypeOK
    OBVIOUS
  <2>1. Current \in Text
    BY DEF Init, Current, Text, Statuses
  <2>2. text \in [Calls -> Text]
    BY <2>1 DEF Init
  <2>3. attempt \in [Calls -> 0 .. Retries] /\ pc \in [Calls -> PCs]
    BY GuardrailAssumption DEF Init, PCs
  <2> QED
    BY <2>2, <2>3 DEF Init, TypeOK, Statuses
<1>2. TypeOK /\ [Next]_vars => TypeOK'
  <2> SUFFICES ASSUME TypeOK, [Next]_vars  PROVE TypeOK'
    OBVIOUS
  <2> USE DEF TypeOK, PCs, Ended, Goto, Statuses
  <2>1. CASE UNCHANGED vars
    BY <2>1 DEF vars, ticket, halts
  <2>2. CASE Edit
    BY <2>2 DEF Edit
  <2>3. ASSUME NEW c \in Calls, Begin(c) \/ RunAgent(c) \/ Judge(c) \/ Look(c) \/ Fail(c) \/ Die(c)
        PROVE  TypeOK'
    <3>1. extra' \in [Calls -> Nat] /\ blind' \in [Calls -> Nat]
      BY <2>3 DEF Begin, RunAgent, Judge, Look, LookSees, LookMisses, Fail, Die, halts
    <3>2. status' \in Statuses /\ late' \in BOOLEAN
      BY <2>3 DEF Begin, RunAgent, Judge, Look, LookSees, LookMisses, Fail, Die,
          ticket, halts
    <3>3. role' \in [Calls -> Roles] /\ pc' \in [Calls -> PCs]
      BY <2>3 DEF Begin, RunAgent, Judge, Look, LookSees, LookMisses, Fail, Die,
          ticket, halts
    <3> QED
      BY <2>3, <3>1, <3>2, <3>3 DEF Begin, RunAgent, Judge, Look, LookSees, LookMisses, Fail, Die,
          ticket, halts
  <2>4. ASSUME NEW c \in Calls, Retry(c) \/ Halt(c)  PROVE TypeOK'
    <3>1. \A kind \in {"retry", "halt"} : <<c, kind, attempt[c]>> \in Note
      BY DEF Note
    <3>2. attempt' \in [Calls -> 0 .. Retries] /\ pc' \in [Calls -> PCs]
      BY <2>4, GuardrailAssumption DEF Retry, Halt
    <3>3. notes' \in SUBSET Note
      BY <2>4, <3>1 DEF Retry, Halt, Append, halts
    <3> QED
      BY <2>4, <3>2, <3>3 DEF Retry, Halt, Append, halts
  <2>5. ASSUME NEW c \in Calls, Escalate(c)  PROVE TypeOK'
    <3>1. Current \in Text
      BY DEF Current, Text
    <3> QED
      BY <2>5, <3>1 DEF Escalate, ticket, halts
  <2>6. ASSUME NEW c \in Calls, Replace(c)  PROVE TypeOK'
    <3>1. /\ text[c].status \in Statuses /\ text[c].assignee \in Roles
          /\ text[c].notes \in SUBSET Note
      BY DEF Text
    <3>2. <<c, "escalation", attempt[c]>> \in Note
      BY DEF Note
    <3>3. Target(role[c]) \in Roles \cup {NoRole}
      BY GuardrailAssumption DEF Target
    <3>4. status' \in Statuses /\ assignee' \in Roles
      BY <2>6, <3>1, <3>3 DEF Replace, StatusAfter
    <3>5. notes' \in SUBSET Note
      BY <2>6, <3>1, <3>2 DEF Replace
    <3> QED
      BY <2>6, <3>4, <3>5 DEF Replace
  <2> QED
    BY <2>1, <2>2, <2>3, <2>4, <2>5, <2>6 DEF Next, Work
<1> QED
  BY <1>1, <1>2, PTL DEF Spec

(* The lock keeps what a call has read true until it has replaced it.       *)
THEOREM LockKeepsText == Spec => []TextIsCurrent
<1>1. Init => TextIsCurrent
  BY DEF Init, TextIsCurrent
<1>2. TypeOK /\ TextIsCurrent /\ [Next]_vars => TextIsCurrent'
  <2> SUFFICES ASSUME TypeOK, TextIsCurrent, [Next]_vars  PROVE TextIsCurrent'
    OBVIOUS
  <2> USE DEF TypeOK, TextIsCurrent, Ended, Goto
  <2>1. CASE UNCHANGED vars
    BY <2>1 DEF vars, ticket, halts
  <2>2. CASE Edit
    BY <2>2 DEF Edit
  <2>3. ASSUME NEW c \in Calls, Begin(c) \/ RunAgent(c) \/ Judge(c) \/ Look(c) \/ Fail(c) \/ Die(c)
        PROVE  TextIsCurrent'
    <3>1. CASE Begin(c) \/ Judge(c)
      BY <3>1 DEF Begin, Judge, ticket, halts
    <3>2. CASE RunAgent(c)
      BY <3>2 DEF RunAgent
    <3>3. CASE Look(c)
      BY <3>3 DEF Look, LookSees, LookMisses, ticket
    <3>4. CASE Fail(c)
      BY <3>4 DEF Fail, ticket, halts
    <3>5. CASE Die(c)
      BY <3>5 DEF Die, ticket, halts
    <3> QED
      BY <2>3, <3>1, <3>2, <3>3, <3>4, <3>5
  <2>4. ASSUME NEW c \in Calls, Retry(c) \/ Halt(c)  PROVE TextIsCurrent'
    BY <2>4 DEF Retry, Halt, Append, halts
  <2>5. ASSUME NEW c \in Calls, Escalate(c)  PROVE TextIsCurrent'
    BY <2>5 DEF Escalate, Current, ticket, halts
  <2>6. ASSUME NEW c \in Calls, Replace(c)  PROVE TextIsCurrent'
    BY <2>6 DEF Replace
  <2> QED
    BY <2>1, <2>2, <2>3, <2>4, <2>5, <2>6 DEF Next, Work
<1> QED
  BY <1>1, <1>2, TypeCorrect, PTL DEF Spec

-------------------------------------------------------------------------------
(* No entry of a call is lost, though others replace the whole text: an     *)
(* agent that is run again finds the feedback of every attempt before.      *)
THEOREM FeedbackStays == Spec => []FeedbackIsKept
<1>1. Init => FeedbackIsKept
  BY DEF Init, FeedbackIsKept
<1>2. TypeOK /\ TextIsCurrent /\ FeedbackIsKept /\ [Next]_vars => FeedbackIsKept'
  <2> SUFFICES ASSUME TypeOK, TextIsCurrent, FeedbackIsKept, [Next]_vars
               PROVE  FeedbackIsKept'
    OBVIOUS
  <2> USE DEF TypeOK, FeedbackIsKept, Ended, Goto
  <2>1. CASE UNCHANGED vars
    BY <2>1 DEF vars, ticket, halts
  <2>2. CASE Edit
    BY <2>2 DEF Edit
  <2>3. ASSUME NEW c \in Calls,
               Begin(c) \/ RunAgent(c) \/ Judge(c) \/ Look(c) \/ Escalate(c) \/ Fail(c) \/ Die(c)
        PROVE  FeedbackIsKept'
    BY <2>3 DEF Begin, RunAgent, Judge, Look, LookSees, LookMisses, Escalate,
          Fail, Die, ticket, halts
  <2>4. ASSUME NEW c \in Calls, Retry(c)  PROVE FeedbackIsKept'
    <3>1. /\ notes' = notes \cup {<<c, "retry", attempt[c]>>}
          /\ attempt'[c] \in {attempt[c], attempt[c] + 1}
          /\ \A d \in Calls \ {c} : attempt'[d] = attempt[d] /\ pc'[d] = pc[d]
          /\ pc'[c] # "escalated"
      BY <2>4 DEF Retry, Append
    <3>0. attempt[c] \in Nat
      BY GuardrailAssumption
    <3>2. \A k \in 0 .. attempt'[c] : k < attempt'[c] => k \in 0 .. attempt[c]
      BY <3>0, <3>1
    <3>3. \A k \in 0 .. attempt'[c] : k < attempt'[c] => <<c, "retry", k>> \in notes'
      <4> SUFFICES ASSUME NEW k \in 0 .. attempt'[c], k < attempt'[c]
                   PROVE  <<c, "retry", k>> \in notes'
        OBVIOUS
      <4>1. CASE k = attempt[c]
        BY <3>1, <4>1
      <4>2. CASE k # attempt[c]
        <5>1. k \in 0 .. attempt[c] /\ k < attempt[c]
          BY <3>0, <3>2, <4>2
        <5> QED
          BY <3>1, <5>1
      <4> QED
        BY <4>1, <4>2
    <3> QED
      BY <3>1, <3>3
  <2>5. ASSUME NEW c \in Calls, Halt(c)  PROVE FeedbackIsKept'
    BY <2>5 DEF Halt, Append
  <2>6. ASSUME NEW c \in Calls, Replace(c)  PROVE FeedbackIsKept'
    <3>1. notes' = notes \cup {<<c, "escalation", attempt[c]>>}
      BY <2>6 DEF Replace, TextIsCurrent
    <3> QED
      BY <2>6, <3>1 DEF Replace
  <2> QED
    BY <2>1, <2>2, <2>3, <2>4, <2>5, <2>6 DEF Next, Work
<1> QED
  BY <1>1, <1>2, TypeCorrect, LockKeepsText, PTL DEF Spec

(* A halt is seen after one run at most, by the first look that can read    *)
(* the ticket.                                                              *)
THEOREM HaltIsSeen == Spec => []HaltCostsOneRun
<1>1. Init => RunsAreSeen
  BY DEF Init, RunsAreSeen
<1>2. TypeOK /\ RunsAreSeen /\ [Next]_vars => RunsAreSeen'
  <2> SUFFICES ASSUME TypeOK, RunsAreSeen, [Next]_vars  PROVE RunsAreSeen'
    OBVIOUS
  <2> USE DEF TypeOK, RunsAreSeen, Ended, Goto
  <2>1. CASE UNCHANGED vars
    BY <2>1 DEF vars, ticket, halts
  <2>2. CASE Edit
    BY <2>2 DEF Edit
  <2>3. ASSUME NEW c \in Calls, Begin(c) \/ Judge(c) \/ Look(c) \/ Escalate(c) \/ Fail(c) \/ Die(c)
        PROVE  RunsAreSeen'
    BY <2>3 DEF Begin, Judge, Look, LookSees, LookMisses, Escalate,
          Fail, Die, ticket, halts
  <2>4. ASSUME NEW c \in Calls, RunAgent(c)  PROVE RunsAreSeen'
    BY <2>4 DEF RunAgent
  <2>5. ASSUME NEW c \in Calls, Retry(c) \/ Halt(c)  PROVE RunsAreSeen'
    BY <2>5 DEF Retry, Halt, Append, halts
  <2>6. ASSUME NEW c \in Calls, Replace(c)  PROVE RunsAreSeen'
    BY <2>6 DEF Replace
  <2> QED
    BY <2>1, <2>2, <2>3, <2>4, <2>5, <2>6 DEF Next, Work
<1>3. RunsAreSeen => HaltCostsOneRun
  BY DEF RunsAreSeen, HaltCostsOneRun
<1> QED
  BY <1>1, <1>2, <1>3, TypeCorrect, PTL DEF Spec

(* No step of a call undoes a halt it could have read under the lock.       *)
THEOREM HaltStays == Spec => HaltIsKept
<1>1. TypeOK /\ TextIsCurrent /\ [Next]_vars
        => [pc' # pc /\ status = "blocked" => status' = "blocked" \/ late]_vars
  <2> SUFFICES ASSUME TypeOK, TextIsCurrent, Next, pc' # pc, status = "blocked"
               PROVE  status' = "blocked" \/ late
    BY DEF vars
  <2>1. ~Edit
    BY DEF Edit
  <2>2. ASSUME NEW c \in Calls, Replace(c)  PROVE status' = "blocked" \/ late
    BY <2>2 DEF Replace, TextIsCurrent, StatusAfter
  <2>3. ASSUME NEW c \in Calls, (Work(c) /\ ~Replace(c)) \/ Die(c)  PROVE status' = "blocked"
    BY <2>3 DEF Work, Begin, RunAgent, Judge, Look, Retry, Halt, Append, Escalate, Fail,
         Die, ticket, halts, LookSees, LookMisses
  <2> QED
    BY <2>1, <2>2, <2>3 DEF Next
<1> QED
  BY <1>1, TypeCorrect, LockKeepsText, PTL DEF Spec, HaltIsKept

(* The reviewer is the author only where the org model has no one above.    *)
THEOREM ReviewerIsAbove == Spec => []SelfReviewOnlyAtTop
<1> DEFINE Sound == ReviewedBy(status, assignee) /\ ReadersAreSound
<1>1. Init => Sound
  BY DEF Init, ReviewedBy, ReadersAreSound, Current
<1>2. TypeOK /\ Sound /\ [Next]_vars => Sound'
  <2> SUFFICES ASSUME TypeOK, Sound, [Next]_vars  PROVE Sound'
    OBVIOUS
  <2> USE DEF TypeOK, ReviewedBy, ReadersAreSound
  <2>1. CASE UNCHANGED vars
    BY <2>1 DEF vars, ticket, halts
  <2>2. CASE Edit
    BY <2>2 DEF Edit
  <2>3. ASSUME NEW c \in Calls, Begin(c) \/ RunAgent(c) \/ Judge(c) \/ Look(c)
                                \/ Retry(c) \/ Halt(c) \/ Fail(c) \/ Die(c)
        PROVE  Sound'
    BY <2>3 DEF Begin, RunAgent, Judge, Look, Retry, Halt, Append, Fail,
          Die, ticket, halts, LookSees, LookMisses
  <2>4. ASSUME NEW c \in Calls, Escalate(c)  PROVE Sound'
    BY <2>4 DEF Escalate, Current, ticket, halts
  <2>5. ASSUME NEW c \in Calls, Replace(c)  PROVE Sound'
    <3>1. Target(role[c]) = author /\ Target(role[c]) # NoRole => Boss[author] = NoRole
      BY GuardrailAssumption DEF Target
    <3> QED
      BY <2>5, <3>1 DEF Replace
  <2> QED
    BY <2>1, <2>2, <2>3, <2>4, <2>5 DEF Next, Work
<1>3. Sound => SelfReviewOnlyAtTop
  BY DEF ReviewedBy, SelfReviewOnlyAtTop
<1> QED
  BY <1>1, <1>2, <1>3, TypeCorrect, PTL DEF Spec
===============================================================================
