------------------------------ MODULE AtomicLog ------------------------------
(***************************************************************************)
(* What the callers of scripts/filelock.py rely on: a shared text file to  *)
(* which every call adds its line at one instant, completely and at most   *)
(* once, however the callers interleave, time out, fail or die. Only the   *)
(* bytes of an append that was cut short may precede a line.               *)
(* FileLock is shown to implement this module.                             *)
(***************************************************************************)
EXTENDS Sequences

CONSTANTS
  Calls,    \* the calls made on one file, each by its own thread or process
  Appends   \* those of them that append

VARIABLES
  lines,    \* the lines of the file, each the set of calls whose bytes it holds
  cut,      \* the calls with bytes after the last line
  torn,     \* the calls that were cut short
  outcome   \* what each call has returned

vars == <<lines, cut, torn, outcome>>

Pending  == "pending"
Outcomes == {"ok", "same", "read", "timeout", "error", "dead"}

InFile(c) == \E i \in DOMAIN lines : c \in lines[i]
Committed(c) == InFile(c) /\ c \notin torn
Untouched(c) == ~InFile(c) /\ c \notin torn

Init ==
  /\ lines = << >>
  /\ cut = {}
  /\ torn = {}
  /\ outcome = [c \in Calls |-> Pending]

(* The call takes effect: its line appears at the end, behind the bytes that *)
(* cut appends have left there.                                              *)
Commit(c) ==
  /\ outcome[c] = Pending
  /\ Untouched(c)
  /\ lines' = Append(lines, cut \cup {c})
  /\ cut' = {}
  /\ UNCHANGED <<torn, outcome>>

(* An append is cut short, by an error or by the death of the caller.        *)
Tear(c) ==
  /\ c \in Appends
  /\ outcome[c] = Pending
  /\ Untouched(c)
  /\ cut' = cut \cup {c}
  /\ torn' = torn \cup {c}
  /\ \/ UNCHANGED outcome
     \/ outcome' = [outcome EXCEPT ![c] = "dead"]
  /\ UNCHANGED lines

(* The call returns. A success has taken effect; a call that gave up on    *)
(* the lock, had nothing to change or only read has left no byte. A failed *)
(* or killed caller may or may not have taken effect: it cannot tell.      *)
Return(c, r) ==
  /\ outcome[c] = Pending
  /\ r = "ok" => Committed(c)
  /\ r \in {"same", "read", "timeout"} => Untouched(c)
  /\ outcome' = [outcome EXCEPT ![c] = r]
  /\ UNCHANGED <<lines, cut, torn>>

Next == \E c \in Calls : Commit(c) \/ Tear(c) \/ \E r \in Outcomes : Return(c, r)

Spec == Init /\ [][Next]_vars
==============================================================================
