------------------------------- MODULE FileLock -------------------------------
(***************************************************************************)
(* scripts/filelock.py: the sidecar flock, the read-modify-write under it, *)
(* the atomic replacement of a file and the durable append. Every writer   *)
(* of the dispatch journal, the wave ledger, the tickets' frontmatter and  *)
(* the A2A quota goes through it.                                          *)
(*                                                                         *)
(* One file is modelled, with a fixed set of calls on it, each made by its *)
(* own thread or process. A line is the set of calls whose bytes it holds: *)
(* {c} is c's line, anything larger is two records glued into one.         *)
(***************************************************************************)
EXTENDS Naturals, Sequences, FiniteSets

CONSTANTS
  Calls,        \* the calls on the file
  Kind,         \* "update" (locked_update_text), "append", "read" or "peek"
  Strict,       \* the update calls made with missing_ok=False
  NoFile        \* no temporary file

Kinds == {"update", "append", "read", "peek"}

ASSUME FileLockAssumption ==
  /\ Kind \in [Calls -> Kinds]
  /\ Strict \subseteq Calls
  /\ NoFile \notin [lines : Seq(SUBSET Calls), partial : SUBSET Calls]

VARIABLES
  pc,       \* where each call is
  res,      \* what a call that is about to unlock will return
  holder,   \* the calls whose descriptor holds the flock on <file>.lock
  exists,   \* whether the file exists
  lines,    \* its newline-terminated lines
  partial,  \* the calls with bytes after the last newline
  torn,     \* history: the appends that were cut short
  snap,     \* the text each call has read
  tmp       \* the temporary file of each call's atomic_write_text

file == <<exists, lines, partial, torn>>
vars == <<pc, res, holder, file, snap, tmp>>

Text == [lines : Seq(SUBSET Calls), partial : SUBSET Calls]
Empty == [lines |-> << >>, partial |-> {}]
Contents == [lines |-> lines, partial |-> partial]

Returned == {"ok", "same", "read", "timeout", "error", "dead"}
Critical == {"locked", "transform", "write", "replace", "tail", "unlock"}
PCs == {"idle", "polling"} \cup Critical \cup Returned

(* Adding c's line to a text: bytes after the last newline become part of it. *)
AddLine(text, c) ==
  [lines |-> Append(text.lines, text.partial \cup {c}), partial |-> {}]

Goto(c, there) == pc' = [pc EXCEPT ![c] = there]
UnlockWith(c, r) == Goto(c, "unlock") /\ res' = [res EXCEPT ![c] = r]

Init ==
  /\ pc = [c \in Calls |-> "idle"]
  /\ res = [c \in Calls |-> "error"]
  /\ holder = {}
  /\ exists = FALSE
  /\ lines = << >>
  /\ partial = {}
  /\ torn = {}
  /\ snap = [c \in Calls |-> Empty]
  /\ tmp = [c \in Calls |-> NoFile]

-------------------------------------------------------------------------------
(* exclusive_lock: open the sidecar, then poll it without blocking.         *)

OpenReadersUnlocked(c) ==   \* mutant: a reader skips the lock
  /\ pc[c] = "idle"
  /\ Kind[c] # "peek"
  /\ Goto(c, IF Kind[c] = "read" THEN "locked" ELSE "polling")
  /\ UNCHANGED <<res, holder, file, snap, tmp>>

Open(c) ==
  /\ pc[c] = "idle"
  /\ Kind[c] # "peek"
  /\ Goto(c, "polling")
  /\ UNCHANGED <<res, holder, file, snap, tmp>>

Acquire(c) ==
  /\ pc[c] = "polling"
  /\ holder = {}
  /\ holder' = {c}
  /\ Goto(c, "locked")
  /\ UNCHANGED <<res, file, snap, tmp>>

(* The deadline is looked at only after an attempt that found the lock taken. *)
GiveUpNever(c) ==   \* mutant: the deadline moves with every attempt
  /\ pc[c] = "polling" /\ holder # {}
  /\ UNCHANGED vars

GiveUp(c) ==
  /\ pc[c] = "polling"
  /\ holder # {}
  /\ Goto(c, "timeout")
  /\ UNCHANGED <<res, holder, file, snap, tmp>>

(* The finally block: LOCK_UN and close, whatever the body did.              *)
Unlock(c) ==
  /\ pc[c] = "unlock"
  /\ holder' = holder \ {c}
  /\ Goto(c, res[c])
  /\ UNCHANGED <<res, file, snap, tmp>>

-------------------------------------------------------------------------------
(* locked_update_text                                                        *)

ReadCurrent(c) ==
  /\ pc[c] = "locked"
  /\ Kind[c] = "update"
  /\ IF ~exists /\ c \in Strict
     THEN UnlockWith(c, "error") /\ UNCHANGED snap
     ELSE /\ snap' = [snap EXCEPT ![c] = IF exists THEN Contents ELSE Empty]
          /\ Goto(c, "transform")
          /\ UNCHANGED res
  /\ UNCHANGED <<holder, file, tmp>>

(* transform(current) raises, returns the text unchanged, or adds a line. An
   unchanged text is still written when there is no file yet.                 *)
TransformRaises(c) ==
  /\ pc[c] = "transform"
  /\ UnlockWith(c, "error")
  /\ UNCHANGED <<holder, file, snap, tmp>>

TransformSame(c) ==
  /\ pc[c] = "transform"
  /\ IF exists
     THEN UnlockWith(c, "same")
     ELSE /\ Goto(c, "write")
          /\ res' = [res EXCEPT ![c] = "same"]
  /\ UNCHANGED <<holder, file, snap, tmp>>

TransformAdds(c) ==
  /\ pc[c] = "transform"
  /\ snap' = [snap EXCEPT ![c] = AddLine(@, c)]
  /\ res' = [res EXCEPT ![c] = "ok"]
  /\ Goto(c, "write")
  /\ UNCHANGED <<holder, file, tmp>>

(* atomic_write_text: the temporary file is written and synced, then renamed
   over the target. An error before the rename unlinks it.                    *)
WriteUnlocked(c) ==   \* mutant: the lock is released before the rename
  /\ pc[c] = "write"
  /\ tmp' = [tmp EXCEPT ![c] = snap[c]]
  /\ holder' = holder \ {c}
  /\ Goto(c, "replace")
  /\ UNCHANGED <<res, file, snap>>

WriteTmp(c) ==
  /\ pc[c] = "write"
  /\ tmp' = [tmp EXCEPT ![c] = snap[c]]
  /\ Goto(c, "replace")
  /\ UNCHANGED <<res, holder, file, snap>>

WriteFails(c) ==
  /\ pc[c] \in {"write", "replace"}
  /\ tmp' = [tmp EXCEPT ![c] = NoFile]
  /\ UnlockWith(c, "error")
  /\ UNCHANGED <<holder, file, snap>>

Replace(c) ==
  /\ pc[c] = "replace"
  /\ exists' = TRUE
  /\ lines' = tmp[c].lines
  /\ partial' = tmp[c].partial
  /\ tmp' = [tmp EXCEPT ![c] = NoFile]
  /\ UnlockWith(c, res[c])
  /\ UNCHANGED <<holder, torn, snap>>

-------------------------------------------------------------------------------
(* append_text_durably under the lock: the bytes reach the file in one write
   or, when the write is cut, in part; nothing takes a partial line back.      *)

AppendHead(c) ==
  /\ pc[c] = "locked"
  /\ Kind[c] = "append"
  /\ exists' = TRUE
  /\ partial' = partial \cup {c}
  /\ Goto(c, "tail")
  /\ UNCHANGED <<res, holder, lines, torn, snap, tmp>>

(* The line is whole; flush, fsync or close may still raise.                  *)
AppendTail(c) ==
  /\ pc[c] = "tail"
  /\ lines' = Append(lines, partial)
  /\ partial' = {}
  /\ \E r \in {"ok", "error"} : UnlockWith(c, r)
  /\ UNCHANGED <<holder, exists, torn, snap, tmp>>

(* The open or the write raises: nothing, or only a part, was written.        *)
AppendFails(c) ==
  /\ \/ pc[c] = "locked" /\ Kind[c] = "append" /\ UNCHANGED torn
     \/ pc[c] = "tail" /\ torn' = torn \cup {c}
  /\ UnlockWith(c, "error")
  /\ UNCHANGED <<holder, exists, lines, partial, snap, tmp>>

-------------------------------------------------------------------------------
(* locked_read_text, and the readers that take no lock (a "peek"): the
   dispatch journal and the wave ledger are read with a plain read_text.       *)

LockedRead(c) ==
  /\ pc[c] = "locked"
  /\ Kind[c] = "read"
  /\ snap' = [snap EXCEPT ![c] = IF exists THEN Contents ELSE Empty]
  /\ UnlockWith(c, "read")
  /\ UNCHANGED <<holder, file, tmp>>

Peek(c) ==
  /\ pc[c] = "idle"
  /\ Kind[c] = "peek"
  /\ snap' = [snap EXCEPT ![c] = IF exists THEN Contents ELSE Empty]
  /\ Goto(c, "read")
  /\ UNCHANGED <<res, holder, file, tmp>>

(* The caller's process dies: the kernel closes its descriptors, which drops
   the flock; its temporary file stays. A death inside the append tears it.    *)
Die(c) ==
  /\ pc[c] \in {"polling"} \cup Critical
  /\ torn' = IF pc[c] = "tail" THEN torn \cup {c} ELSE torn
  /\ Goto(c, "dead")
  /\ holder' = holder \ {c}
  /\ UNCHANGED <<res, exists, lines, partial, snap, tmp>>

-------------------------------------------------------------------------------
Poll(c) == Acquire(c) \/ GiveUp(c)

Body(c) ==
  \/ ReadCurrent(c)
  \/ TransformRaises(c) \/ TransformSame(c) \/ TransformAdds(c)
  \/ WriteTmp(c) \/ WriteFails(c) \/ Replace(c)
  \/ AppendHead(c) \/ AppendTail(c) \/ AppendFails(c)
  \/ LockedRead(c)

Step(c) == Open(c) \/ Peek(c) \/ Poll(c) \/ Body(c) \/ Unlock(c)

Next == \E c \in Calls : Step(c) \/ Die(c)

Spec == Init /\ [][Next]_vars

(* Only the polling loop is assumed to keep running: a holder may stay in its
   body for ever (a slow transform, a stopped process). The loop ends because
   its deadline is finite: a taken lock makes GiveUp possible.                *)
FairSpec == Spec /\ \A c \in Calls : WF_vars(Poll(c))

-------------------------------------------------------------------------------
TypeOK ==
  /\ pc \in [Calls -> PCs]
  /\ res \in [Calls -> {"ok", "same", "read", "error"}]
  /\ holder \in SUBSET Calls
  /\ exists \in BOOLEAN
  /\ lines \in Seq(SUBSET Calls)
  /\ partial \in SUBSET Calls
  /\ torn \in SUBSET Calls
  /\ snap \in [Calls -> Text]
  /\ tmp \in [Calls -> Text \cup {NoFile}]

InCritical(c) == pc[c] \in Critical

(* Two calls are never between acquiring and releasing the lock at once, and
   the kernel's holder is the call that is there, also after deaths and
   timeouts (exclusive_lock).                                                 *)
MutualExclusion ==
  /\ \A c \in Calls : InCritical(c) <=> c \in holder
  /\ \A c, d \in Calls : InCritical(c) /\ InCritical(d) => c = d

(* What an updater has read is still the text of the file when it transforms
   it, and what it is about to rename over the file is that text plus at most
   its own line: no update made meanwhile is lost (locked_update_text).        *)
NoLostUpdate ==
  \A c \in Calls :
    LET current == IF exists THEN Contents ELSE Empty
        expected == IF res[c] = "ok" THEN AddLine(current, c) ELSE current
    IN  /\ pc[c] = "transform" => snap[c] = current
        /\ pc[c] = "write" => snap[c] = expected
        /\ pc[c] = "replace" => tmp[c] = expected

(* A caller that takes the lock sees, after the last whole line, at most the
   bytes of appends that were cut short, and of none that is being written.   *)
LockedReadersSeeWholeLines ==
  \A c \in Calls : Kind[c] \in {"read", "update"} => snap[c].partial \subseteq torn

(* A temporary file outlives its writer only when the writer died.            *)
NoStrayTempFile ==
  \A c \in Calls : tmp[c] # NoFile => pc[c] \in {"replace", "dead"}

(* exclusive_lock never waits for ever, even for a holder that never lets go:
   a polling caller gets the lock, times out or dies.                         *)
PollingEnds ==
  \A c \in Calls : pc[c] = "polling" ~> pc[c] # "polling"

(* The file as its callers know it: every call takes effect at one instant,
   completely or not at all, an append that is cut short apart, and what it
   returns tells which.                                                       *)
Abstract == INSTANCE AtomicLog WITH
  Appends <- {c \in Calls : Kind[c] = "append"},
  cut <- partial \cap torn,
  outcome <- [c \in Calls |-> IF pc[c] \in Returned THEN pc[c] ELSE "pending"]

ImplementsAtomicLog == Abstract!Spec
==============================================================================
