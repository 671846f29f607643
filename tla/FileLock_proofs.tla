--------------------------- MODULE FileLock_proofs ---------------------------
(* Proofs about FileLock, for every set of calls and every mix of kinds.     *)
EXTENDS FileLock, TLAPS

(* TypeOK made inductive: a call about to rename has a temporary file.       *)
TypeInv ==
  /\ TypeOK
  /\ \A c \in Calls : pc[c] = "replace" => tmp[c] \in Text

(* What a text is made of when a call adds its line.                         *)
LEMMA AddLineType ==
  ASSUME NEW text \in Text, NEW c \in Calls
  PROVE  AddLine(text, c) \in Text
<1>1. text.lines \in Seq(SUBSET Calls) /\ text.partial \cup {c} \in SUBSET Calls
  BY DEF Text
<1>2. Append(text.lines, text.partial \cup {c}) \in Seq(SUBSET Calls)
  BY <1>1
<1>3. QED
  BY <1>2 DEF Text, AddLine

LEMMA ContentsType ==
  ASSUME TypeOK
  PROVE  Contents \in Text /\ Empty \in Text
<1>1. << >> \in Seq(SUBSET Calls) /\ {} \in SUBSET Calls
  OBVIOUS
<1>2. lines \in Seq(SUBSET Calls) /\ partial \in SUBSET Calls
  BY DEF TypeOK
<1>3. QED
  BY <1>1, <1>2 DEF Text, Contents, Empty

LEMMA InitTypeInv == Init => TypeInv
<1> SUFFICES ASSUME Init PROVE TypeInv
  OBVIOUS
<1>1. << >> \in Seq(SUBSET Calls) /\ {} \in SUBSET Calls
  OBVIOUS
<1>2. Empty \in Text
  BY <1>1 DEF Text, Empty
<1>3. QED
  BY <1>1, <1>2 DEF Init, TypeInv, TypeOK, PCs

LEMMA NextTypeInv == TypeInv /\ [Next]_vars => TypeInv'
<1> SUFFICES ASSUME TypeInv, [Next]_vars PROVE TypeInv'
  OBVIOUS
<1> USE DEF TypeInv, TypeOK, PCs, Critical, Returned, Goto, UnlockWith, file
<1>1. CASE UNCHANGED vars
  BY <1>1 DEF vars
<1>2. ASSUME NEW c \in Calls, Open(c) \/ Poll(c)
      PROVE TypeInv'
  BY <1>2 DEF Open, Poll, Acquire, GiveUp
<1>3. ASSUME NEW c \in Calls, Unlock(c) \/ Die(c)
      PROVE TypeInv'
  BY <1>3 DEF Unlock, Die
<1>4. ASSUME NEW c \in Calls, Peek(c) \/ LockedRead(c) \/ ReadCurrent(c)
      PROVE TypeInv'
  BY <1>4, ContentsType DEF Peek, LockedRead, ReadCurrent
<1>5. ASSUME NEW c \in Calls, TransformRaises(c) \/ TransformSame(c)
      PROVE TypeInv'
  BY <1>5 DEF TransformRaises, TransformSame
<1>6. ASSUME NEW c \in Calls, TransformAdds(c)
      PROVE TypeInv'
  <2>1. AddLine(snap[c], c) \in Text
    BY AddLineType
  <2>2. QED
    BY <1>6, <2>1 DEF TransformAdds
<1>7. ASSUME NEW c \in Calls, WriteTmp(c) \/ WriteFails(c)
      PROVE TypeInv'
  BY <1>7 DEF WriteTmp, WriteFails
<1>8. ASSUME NEW c \in Calls, Replace(c)
      PROVE TypeInv'
  <2>1. tmp[c].lines \in Seq(SUBSET Calls) /\ tmp[c].partial \in SUBSET Calls
    BY <1>8 DEF Replace, Text
  <2>2. QED
    BY <1>8, <2>1 DEF Replace
<1>9. ASSUME NEW c \in Calls, AppendHead(c) \/ AppendFails(c)
      PROVE TypeInv'
  BY <1>9 DEF AppendHead, AppendFails
<1>10. ASSUME NEW c \in Calls, AppendTail(c)
       PROVE TypeInv'
  <2>1. Append(lines, partial) \in Seq(SUBSET Calls)
    OBVIOUS
  <2>2. QED
    BY <1>10, <2>1 DEF AppendTail
<1>11. QED
  BY <1>1, <1>2, <1>3, <1>4, <1>5, <1>6, <1>7, <1>8, <1>9, <1>10
     DEF Next, Step, Body

(* Every variable keeps its type, whatever the calls are (filelock.py).      *)
THEOREM TypeCorrect == Spec => []TypeOK
<1>1. Spec => []TypeInv
  BY InitTypeInv, NextTypeInv, PTL DEF Spec
<1>2. TypeInv => TypeOK
  BY DEF TypeInv
<1>3. QED
  BY <1>1, <1>2, PTL

-------------------------------------------------------------------------------
(* Mutual exclusion                                                          *)

MutexInv == TypeInv /\ MutualExclusion

LEMMA NextMutex == MutexInv /\ [Next]_vars => MutexInv'
<1> SUFFICES ASSUME MutexInv, [Next]_vars PROVE MutualExclusion'
  BY NextTypeInv DEF MutexInv
<1> USE DEF MutexInv, TypeInv, TypeOK, MutualExclusion, InCritical, PCs, Critical,
            Returned, Goto, UnlockWith
<1>1. CASE UNCHANGED vars
  BY <1>1 DEF vars
<1>2. ASSUME NEW c \in Calls, Open(c) \/ GiveUp(c) \/ Peek(c)
      PROVE MutualExclusion'
  BY <1>2 DEF Open, GiveUp, Peek
<1>3. ASSUME NEW c \in Calls, Acquire(c)
      PROVE MutualExclusion'
  BY <1>3 DEF Acquire
<1>4. ASSUME NEW c \in Calls, Unlock(c)
      PROVE MutualExclusion'
  BY <1>4 DEF Unlock
<1>5. ASSUME NEW c \in Calls, Die(c)
      PROVE MutualExclusion'
  BY <1>5 DEF Die
<1>6. ASSUME NEW c \in Calls, Body(c)
      PROVE MutualExclusion'
  <2>1. holder' = holder /\ InCritical(c)
    BY <1>6 DEF Body, ReadCurrent, TransformRaises, TransformSame, TransformAdds,
         WriteTmp, WriteFails, Replace, AppendHead, AppendTail, AppendFails, LockedRead
  <2>2. /\ pc' = [pc EXCEPT ![c] = pc'[c]]
        /\ pc'[c] \in Critical
    BY <1>6 DEF Body, ReadCurrent, TransformRaises, TransformSame, TransformAdds,
         WriteTmp, WriteFails, Replace, AppendHead, AppendTail, AppendFails, LockedRead
  <2>3. QED
    BY <2>1, <2>2
<1>7. QED
  BY <1>1, <1>2, <1>3, <1>4, <1>5, <1>6 DEF Next, Step, Poll

LEMMA MutexInvariant == Spec => []MutexInv
<1>1. Init => MutexInv
  <2> SUFFICES ASSUME Init PROVE MutualExclusion
    BY InitTypeInv DEF MutexInv
  <2>1. QED
    BY DEF Init, MutualExclusion, InCritical, Critical
<1>2. QED
  BY <1>1, NextMutex, PTL DEF Spec

(* exclusive_lock: no two calls are ever in the critical section together,
   and the flock is held by whoever is in it, whatever dies or times out.     *)
THEOREM MutexHolds == Spec => []MutualExclusion
<1>1. MutexInv => MutualExclusion
  BY DEF MutexInv
<1>2. QED
  BY <1>1, MutexInvariant, PTL

-------------------------------------------------------------------------------
(* No update is lost: what an updater read stays the text of the file.       *)

LEMMA NextNoLostUpdate ==
  MutexInv /\ NoLostUpdate /\ [Next]_vars => NoLostUpdate'
<1> SUFFICES ASSUME MutexInv, NoLostUpdate, [Next]_vars PROVE NoLostUpdate'
  OBVIOUS
<1> USE DEF MutexInv, TypeInv, TypeOK, MutualExclusion, InCritical, PCs, Critical,
            Returned, Goto, UnlockWith, file
<1>1. CASE UNCHANGED vars
  BY <1>1 DEF vars, NoLostUpdate, Contents
<1>2. ASSUME NEW c \in Calls, NEW d \in Calls, d # c, InCritical(d),
             Body(c) \/ Replace(c)
      PROVE FALSE
  BY <1>2 DEF Body, ReadCurrent, TransformRaises, TransformSame, TransformAdds,
         WriteTmp, WriteFails, Replace, AppendHead, AppendTail, AppendFails, LockedRead
<1>3. ASSUME NEW c \in Calls, Open(c) \/ Poll(c) \/ Peek(c) \/ Unlock(c) \/ Die(c)
      PROVE NoLostUpdate'
  <2>1. UNCHANGED <<exists, lines, partial>>
    BY <1>3 DEF Open, Poll, Acquire, GiveUp, Peek, Unlock, Die
  <2>2. \A d \in Calls : pc'[d] \in {"transform", "write", "replace"} =>
           pc'[d] = pc[d] /\ res'[d] = res[d] /\ snap'[d] = snap[d] /\ tmp'[d] = tmp[d]
    BY <1>3 DEF Open, Poll, Acquire, GiveUp, Peek, Unlock, Die
  <2>3. QED
    BY <2>1, <2>2 DEF NoLostUpdate, Contents
<1>4. ASSUME NEW c \in Calls, Body(c)
      PROVE NoLostUpdate'
  <2>1. \A d \in Calls : d # c => ~(pc'[d] \in {"transform", "write", "replace"})
    BY <1>2, <1>4 DEF Body, ReadCurrent, TransformRaises, TransformSame, TransformAdds,
         WriteTmp, WriteFails, Replace, AppendHead, AppendTail, AppendFails, LockedRead
  <2> DEFINE current == IF exists THEN Contents ELSE Empty
             expected == IF res[c] = "ok" THEN AddLine(current, c) ELSE current
  <2>2. SUFFICES
          /\ (pc[c] = "transform")' => (snap[c] = current)'
          /\ (pc[c] = "write")' => (snap[c] = expected)'
          /\ (pc[c] = "replace")' => (tmp[c] = expected)'
    BY <2>1 DEF NoLostUpdate
  <2>3. CASE ReadCurrent(c)
    BY <2>3 DEF ReadCurrent, Contents
  <2>4. CASE TransformSame(c)
    BY <2>4 DEF TransformSame, NoLostUpdate, Contents
  <2>5. CASE TransformAdds(c)
    BY <2>5 DEF TransformAdds, NoLostUpdate, Contents
  <2>6. CASE WriteTmp(c)
    BY <2>6 DEF WriteTmp, NoLostUpdate, Contents
  <2>7. CASE \/ TransformRaises(c) \/ WriteFails(c) \/ Replace(c) \/ LockedRead(c)
             \/ AppendHead(c) \/ AppendTail(c) \/ AppendFails(c)
    <3>1. pc'[c] \in {"tail", "unlock"}
      BY <2>7 DEF TransformRaises, WriteFails, Replace, LockedRead, AppendHead,
           AppendTail, AppendFails
    <3>2. QED
      BY <3>1
  <2>8. QED
    BY <1>4, <2>3, <2>4, <2>5, <2>6, <2>7 DEF Body
<1>5. QED
  BY <1>1, <1>3, <1>4 DEF Next, Step

(* locked_update_text: between the read and the rename nobody else has
   changed the file, so the rename replaces exactly the text that was read.  *)
THEOREM NoLostUpdateHolds == Spec => []NoLostUpdate
<1>1. Init => NoLostUpdate
  BY DEF Init, NoLostUpdate
<1>2. QED
  BY <1>1, MutexInvariant, NextNoLostUpdate, PTL DEF Spec

-------------------------------------------------------------------------------
(* Refinement: FileLock is an AtomicLog.                                     *)

In(c) == \E i \in DOMAIN lines : c \in lines[i]
Clean(c) == ~In(c) /\ c \notin torn

Before == PCs \ {"unlock", "ok", "error", "dead"}

(* Where a call's bytes are, by where the call is; and whose bytes come after *)
(* the last newline: those of appends that are being written or were cut.     *)
CommitInv ==
  /\ ~exists => lines = << >> /\ partial = {}
  /\ \A d \in partial : d \in torn \/ pc[d] = "tail"
  /\ \A c \in Calls :
       /\ pc[c] = "tail" => c \in partial /\ Kind[c] = "append"
       /\ pc[c] \in Before => Clean(c)
       /\ pc[c] = "ok" => In(c) /\ c \notin torn
       /\ pc[c] = "unlock" /\ res[c] = "ok" => In(c) /\ c \notin torn
       /\ pc[c] = "unlock" /\ res[c] \in {"same", "read"} => Clean(c)

FullInv == MutexInv /\ NoLostUpdate /\ CommitInv

LEMMA AppendIn ==
  ASSUME TypeOK, NEW c \in Calls, NEW cut \in SUBSET Calls,
         lines' = Append(lines, cut \cup {c})
  PROVE  \A d \in Calls : In(d)' <=> (In(d) \/ d = c \/ d \in cut)
<1>1. lines \in Seq(SUBSET Calls) /\ cut \cup {c} \in SUBSET Calls
  BY DEF TypeOK
<1>2. /\ Len(lines') = Len(lines) + 1
      /\ \A i \in 1 .. Len(lines) : lines'[i] = lines[i]
      /\ lines'[Len(lines) + 1] = cut \cup {c}
      /\ DOMAIN lines = 1 .. Len(lines)
      /\ DOMAIN lines' = 1 .. (Len(lines) + 1)
      /\ Len(lines) \in Nat
  BY <1>1
<1>3. TAKE d \in Calls
<1>4. ASSUME In(d)' PROVE In(d) \/ d = c \/ d \in cut
  <2>1. PICK i \in 1 .. (Len(lines) + 1) : d \in lines'[i]
    BY <1>2, <1>4 DEF In
  <2>2. CASE i \in 1 .. Len(lines)
    BY <1>2, <2>1, <2>2 DEF In
  <2>3. CASE i = Len(lines) + 1
    BY <1>2, <2>1, <2>3
  <2>4. QED
    BY <1>2, <2>2, <2>3
<1>5. ASSUME In(d) PROVE In(d)'
  BY <1>2, <1>5 DEF In
<1>6. ASSUME d = c \/ d \in cut PROVE In(d)'
  BY <1>2, <1>6 DEF In
<1>7. QED
  BY <1>4, <1>5, <1>6

(* The rename puts in place what the file held, plus the caller's line.      *)
LEMMA ReplaceLines ==
  ASSUME FullInv, NEW c \in Calls, Replace(c)
  PROVE  /\ partial \subseteq torn
         /\ res[c] = "ok" => lines' = Append(lines, partial \cup {c}) /\ partial' = {}
         /\ res[c] # "ok" => lines' = lines /\ partial' = partial
<1> USE DEF FullInv, MutexInv, MutualExclusion, InCritical, Critical
<1>1. pc[c] = "replace" /\ partial \subseteq torn
  BY DEF Replace, CommitInv, TypeInv, TypeOK
<1>2. (IF exists THEN Contents ELSE Empty) = [lines |-> lines, partial |-> partial]
  BY <1>1 DEF CommitInv, Contents, Empty
<1>3. CASE res[c] = "ok"
  <2>1. tmp[c] = AddLine([lines |-> lines, partial |-> partial], c)
    BY <1>1, <1>2, <1>3 DEF NoLostUpdate
  <2>2. tmp[c] = [lines |-> Append(lines, partial \cup {c}), partial |-> {}]
    BY <2>1 DEF AddLine
  <2>3. QED
    BY <1>1, <1>3, <2>2 DEF Replace
<1>4. CASE res[c] # "ok"
  BY <1>1, <1>2, <1>4 DEF Replace, NoLostUpdate
<1>5. QED
  BY <1>1, <1>3, <1>4

(* The append ends the line that its own bytes and cut appends have begun.   *)
LEMMA AppendLines ==
  ASSUME FullInv, NEW c \in Calls, AppendTail(c)
  PROVE  lines' = Append(lines, (partial \cap torn) \cup {c}) /\ partial' = {}
<1> USE DEF FullInv, MutexInv, MutualExclusion, InCritical, Critical
<1>1. pc[c] = "tail" /\ c \in partial
  BY DEF AppendTail, CommitInv
<1>2. \A d \in partial : d \in torn \/ d = c
  BY <1>1 DEF CommitInv, TypeInv, TypeOK
<1>3. partial = (partial \cap torn) \cup {c}
  BY <1>1, <1>2
<1>4. QED
  BY <1>3 DEF AppendTail

(* What a step adds to the lines, whichever call takes it.                   *)
LEMMA CommitLines ==
  ASSUME FullInv, NEW c \in Calls, AppendTail(c) \/ (Replace(c) /\ res[c] = "ok")
  PROVE  lines' = Append(lines, (partial \cap torn) \cup {c}) /\ partial' = {}
<1>1. CASE AppendTail(c)
  BY <1>1, AppendLines
<1>2. CASE Replace(c) /\ res[c] = "ok"
  <2>1. partial \cap torn = partial
    BY <1>2, ReplaceLines
  <2>2. QED
    BY <1>2, <2>1, ReplaceLines
<1>3. QED
  BY <1>1, <1>2

LEMMA NextCommitInv ==
  ASSUME FullInv, [Next]_vars
  PROVE  CommitInv'
<1> USE DEF FullInv, MutexInv, TypeInv, TypeOK, MutualExclusion, InCritical, PCs, Before,
            Critical, Returned, Goto, UnlockWith, file
<1>1. CASE UNCHANGED vars
  BY <1>1 DEF vars, CommitInv, In, Clean
<1>2. ASSUME NEW c \in Calls, Open(c) \/ Poll(c) \/ Peek(c) \/ Unlock(c)
      PROVE CommitInv'
  <2>1. UNCHANGED <<exists, lines, partial, torn>>
    BY <1>2 DEF Open, Poll, Acquire, GiveUp, Peek, Unlock
  <2>2. \A d \in Calls : In(d)' <=> In(d)
    BY <2>1 DEF In
  <2>3. pc[c] # "tail" /\ pc'[c] # "tail" /\ pc'[c] # "unlock"
    BY <1>2 DEF Open, Poll, Acquire, GiveUp, Peek, Unlock
  <2>4. res' = res /\ \A d \in Calls : d # c => pc'[d] = pc[d]
    BY <1>2 DEF Open, Poll, Acquire, GiveUp, Peek, Unlock
  <2>5. /\ pc'[c] \in Before => Clean(c)
        /\ pc'[c] = "ok" => In(c) /\ c \notin torn
    BY <1>2 DEF Open, Poll, Acquire, GiveUp, Peek, Unlock, CommitInv
  <2>6. QED
    BY <2>1, <2>2, <2>3, <2>4, <2>5 DEF CommitInv, Clean
<1>3. ASSUME NEW c \in Calls, AppendTail(c) \/ (Replace(c) /\ res[c] = "ok")
      PROVE CommitInv'
  <2> DEFINE cut == partial \cap torn
  <2>1. lines' = Append(lines, cut \cup {c}) /\ partial' = {}
    BY <1>3, CommitLines
  <2>2. \A d \in Calls : In(d)' <=> (In(d) \/ d = c \/ d \in cut)
    <3> HIDE DEF cut
    <3>1. cut \in SUBSET Calls
      BY DEF cut
    <3>2. QED
      BY <2>1, <3>1, AppendIn
  <2>3. /\ InCritical(c) /\ pc[c] \in Before /\ pc'[c] = "unlock" /\ res'[c] \in {"ok", "error"}
        /\ \A d \in Calls : d # c => pc'[d] = pc[d] /\ res'[d] = res[d]
        /\ torn' = torn
    BY <1>3 DEF AppendTail, Replace
  <2>4. exists'
    BY <1>3 DEF AppendTail, Replace, CommitInv
  <2>5. \A d \in Calls : pc'[d] \in Before => Clean(d) /\ ~In(d)' /\ d \notin torn
    BY <2>2, <2>3 DEF CommitInv, Clean
  <2>6. \A d \in Calls : pc'[d] # "tail" /\ (d # c => pc'[d] # "unlock")
    BY <2>3
  <2>7. c \notin torn
    BY <2>3 DEF CommitInv, Clean
  <2>8. \A d \in Calls : pc'[d] = "ok" => In(d)' /\ d \notin torn
    BY <2>2, <2>3 DEF CommitInv
  <2>9. QED
    BY <2>1, <2>2, <2>3, <2>4, <2>5, <2>6, <2>7, <2>8 DEF CommitInv, Clean
<1>4. ASSUME NEW c \in Calls, Replace(c) /\ res[c] # "ok"
      PROVE CommitInv'
  <2>1. lines' = lines /\ partial' = partial /\ torn' = torn /\ exists'
    BY <1>4, ReplaceLines DEF Replace
  <2>2. \A d \in Calls : In(d)' <=> In(d)
    BY <2>1 DEF In
  <2>3. /\ pc[c] = "replace" /\ pc'[c] = "unlock" /\ res' = res
        /\ \A d \in Calls : d # c => pc'[d] = pc[d]
    BY <1>4 DEF Replace
  <2>4. \A d \in partial : d \in torn
    BY <1>4, ReplaceLines
  <2>5. Clean(c)
    BY <2>3 DEF CommitInv
  <2>6. QED
    BY <1>4, <2>1, <2>2, <2>3, <2>4, <2>5 DEF CommitInv, Clean
<1>5. ASSUME NEW c \in Calls, AppendHead(c)
      PROVE CommitInv'
  <2>1. /\ lines' = lines /\ exists' /\ partial' = partial \cup {c} /\ res' = res
        /\ torn' = torn /\ Kind[c] = "append"
        /\ pc[c] = "locked" /\ pc'[c] = "tail"
        /\ \A d \in Calls : d # c => pc'[d] = pc[d]
    BY <1>5 DEF AppendHead
  <2>2. \A d \in Calls : In(d)' <=> In(d)
    BY <2>1 DEF In
  <2>3. \A d \in partial : d \in torn
    BY <2>1 DEF CommitInv
  <2>4. Clean(c)
    BY <2>1 DEF CommitInv
  <2>5. QED
    BY <2>1, <2>2, <2>3, <2>4 DEF CommitInv, Clean
<1>6. ASSUME NEW c \in Calls,
             \/ ReadCurrent(c) \/ TransformRaises(c) \/ TransformSame(c)
             \/ TransformAdds(c) \/ WriteTmp(c) \/ WriteFails(c) \/ LockedRead(c)
      PROVE CommitInv'
  <2>1. UNCHANGED <<exists, lines, partial, torn>>
    BY <1>6 DEF ReadCurrent, TransformRaises, TransformSame, TransformAdds, WriteTmp,
         WriteFails, LockedRead
  <2>2. \A d \in Calls : In(d)' <=> In(d)
    BY <2>1 DEF In
  <2>3. /\ pc[c] \in {"locked", "transform", "write", "replace"}
        /\ pc'[c] \in {"transform", "write", "replace", "unlock"}
        /\ pc'[c] = "unlock" => res'[c] # "ok"
    BY <1>6 DEF ReadCurrent, TransformRaises, TransformSame, TransformAdds, WriteTmp,
         WriteFails, LockedRead
  <2>4. \A d \in Calls : d # c => pc'[d] = pc[d] /\ res'[d] = res[d]
    BY <1>6 DEF ReadCurrent, TransformRaises, TransformSame, TransformAdds, WriteTmp,
         WriteFails, LockedRead
  <2>5. Clean(c)
    BY <2>3 DEF CommitInv
  <2>6. QED
    BY <2>1, <2>2, <2>3, <2>4, <2>5 DEF CommitInv, Clean
<1>7. ASSUME NEW c \in Calls, AppendFails(c) \/ Die(c)
      PROVE CommitInv'
  <2>1. UNCHANGED <<exists, lines, partial>>
    BY <1>7 DEF AppendFails, Die
  <2>2. \A d \in Calls : In(d)' <=> In(d)
    BY <2>1 DEF In
  <2>3. /\ torn' = IF pc[c] = "tail" THEN torn \cup {c} ELSE torn
        /\ pc'[c] = "dead" \/ (pc'[c] = "unlock" /\ res'[c] = "error")
        /\ \A d \in Calls : d # c => pc'[d] = pc[d] /\ res'[d] = res[d]
    BY <1>7 DEF AppendFails, Die
  <2>4. \A d \in Calls : d # c => (d \in torn' <=> d \in torn)
    BY <2>3
  <2>5. \A d \in partial : d \in torn' \/ pc'[d] = "tail"
    BY <2>3 DEF CommitInv
  <2>6. QED
    BY <2>1, <2>2, <2>3, <2>4, <2>5 DEF CommitInv, Clean
<1>8. QED
  BY <1>1, <1>2, <1>3, <1>4, <1>5, <1>6, <1>7 DEF Next, Step, Body

LEMMA FullInvariant == Spec => []FullInv
<1>1. Init => FullInv
  <2> SUFFICES ASSUME Init PROVE CommitInv /\ NoLostUpdate /\ MutualExclusion
    BY InitTypeInv DEF FullInv, MutexInv
  <2>1. QED
    BY DEF Init, CommitInv, In, Clean, NoLostUpdate, MutualExclusion, InCritical, Critical
<1>2. FullInv /\ [Next]_vars => FullInv'
  BY NextMutex, NextNoLostUpdate, NextCommitInv DEF FullInv
<1>3. QED
  BY <1>1, <1>2, PTL DEF Spec

-------------------------------------------------------------------------------
(* What a caller that holds the lock has read.                               *)

LEMMA NextWholeLines ==
  FullInv /\ LockedReadersSeeWholeLines /\ [Next]_vars => LockedReadersSeeWholeLines'
<1> SUFFICES ASSUME FullInv, LockedReadersSeeWholeLines, [Next]_vars,
                    NEW d \in Calls, Kind[d] \in {"read", "update"}
             PROVE  (snap[d].partial \subseteq torn)'
  BY DEF LockedReadersSeeWholeLines
<1> USE DEF FullInv, MutexInv, TypeInv, TypeOK, MutualExclusion, InCritical, PCs,
            Critical, Returned, Goto, UnlockWith, file
<1>1. snap[d].partial \subseteq torn
  BY DEF LockedReadersSeeWholeLines
<1>2. torn \subseteq torn'
  BY DEF vars, Next, Step, Open, Peek, Poll, Acquire, GiveUp, Unlock, Body, ReadCurrent,
         TransformRaises, TransformSame, TransformAdds, WriteTmp, WriteFails, Replace,
         AppendHead, AppendTail, AppendFails, LockedRead, Die
<1>3. CASE snap'[d] = snap[d]
  BY <1>1, <1>2, <1>3
<1>4. ASSUME LockedRead(d) \/ ReadCurrent(d)
      PROVE snap'[d] \in {snap[d], Contents, Empty} /\ partial \subseteq torn
  <2>1. pc[d] = "locked"
    BY <1>4 DEF LockedRead, ReadCurrent
  <2>2. partial \subseteq torn
    BY <2>1 DEF CommitInv
  <2>3. QED
    BY <1>4, <2>2 DEF LockedRead, ReadCurrent
<1>5. CASE LockedRead(d) \/ ReadCurrent(d)
  BY <1>1, <1>2, <1>4, <1>5 DEF Contents, Empty
<1>6. CASE TransformAdds(d)
  <2>1. snap'[d].partial = {}
    BY <1>6 DEF TransformAdds, AddLine
  <2>2. QED
    BY <2>1
<1>7. ~(LockedRead(d) \/ ReadCurrent(d) \/ TransformAdds(d)) => snap'[d] = snap[d]
  BY DEF vars, Next, Step, Open, Peek, Poll, Acquire, GiveUp, Unlock, Body, ReadCurrent,
         TransformRaises, TransformSame, TransformAdds, WriteTmp, WriteFails, Replace,
         AppendHead, AppendTail, AppendFails, LockedRead, Die
<1>8. QED
  BY <1>3, <1>5, <1>6, <1>7

(* A caller that takes the lock never reads half of a line that is being
   written, for any set of calls; of lines that were cut it may.              *)
THEOREM LockedReadersSeeWhole == Spec => []LockedReadersSeeWholeLines
<1>1. Init => LockedReadersSeeWholeLines
  BY DEF Init, LockedReadersSeeWholeLines, Empty
<1>2. QED
  BY <1>1, FullInvariant, NextWholeLines, PTL DEF Spec

-------------------------------------------------------------------------------
(* The temporary file of atomic_write_text.                                  *)

LEMMA NextNoStray ==
  TypeInv /\ NoStrayTempFile /\ [Next]_vars => NoStrayTempFile'
<1> SUFFICES ASSUME TypeInv, NoStrayTempFile, [Next]_vars, NEW d \in Calls, tmp'[d] # NoFile
             PROVE  pc'[d] \in {"replace", "dead"}
  BY DEF NoStrayTempFile
<1> USE DEF TypeInv, TypeOK, PCs, Critical, Returned, Goto, UnlockWith, file, NoStrayTempFile
<1>1. CASE UNCHANGED vars
  BY <1>1 DEF vars
<1>2. ASSUME NEW c \in Calls, WriteTmp(c) \/ WriteFails(c) \/ Replace(c)
      PROVE pc'[d] \in {"replace", "dead"}
  BY <1>2 DEF WriteTmp, WriteFails, Replace
<1>3. ASSUME NEW c \in Calls, Step(c) \/ Die(c), ~(WriteTmp(c) \/ WriteFails(c) \/ Replace(c))
      PROVE pc'[d] \in {"replace", "dead"}
  <2>1. tmp' = tmp
    BY <1>3 DEF Step, Open, Peek, Poll, Acquire, GiveUp, Unlock, Body, ReadCurrent,
         TransformRaises, TransformSame, TransformAdds, AppendHead, AppendTail,
         AppendFails, LockedRead, Die
  <2>2. pc[d] \in {"replace", "dead"}
    BY <2>1
  <2>3. pc[c] \notin {"replace", "dead"} \/ pc'[c] = "dead"
    BY <1>3 DEF Step, Open, Peek, Poll, Acquire, GiveUp, Unlock, Body, ReadCurrent,
         TransformRaises, TransformSame, TransformAdds, AppendHead, AppendTail,
         AppendFails, LockedRead, Die
  <2>4. d # c => pc'[d] = pc[d]
    BY <1>3 DEF Step, Open, Peek, Poll, Acquire, GiveUp, Unlock, Body, ReadCurrent,
         TransformRaises, TransformSame, TransformAdds, AppendHead, AppendTail,
         AppendFails, LockedRead, Die
  <2>5. QED
    BY <2>2, <2>3, <2>4
<1>4. QED
  BY <1>1, <1>2, <1>3 DEF Next

(* A temporary file is left behind by a writer that died, and by no other,
   whatever fails (atomic_write_text).                                        *)
THEOREM TempFilesGo == Spec => []NoStrayTempFile
<1>1. Init => NoStrayTempFile
  BY DEF Init, NoStrayTempFile
<1>2. Spec => []TypeInv
  BY InitTypeInv, NextTypeInv, PTL DEF Spec
<1>3. QED
  BY <1>1, <1>2, NextNoStray, PTL DEF Spec

-------------------------------------------------------------------------------
LEMMA RefinementStep ==
  ASSUME FullInv, [Next]_vars
  PROVE  [Abstract!Next]_(Abstract!vars)
<1> DEFINE out == [c \in Calls |-> IF pc[c] \in Returned THEN pc[c] ELSE "pending"]
           cut == partial \cap torn
<1>1. \A c \in Calls : /\ Abstract!Committed(c) <=> In(c) /\ c \notin torn
                       /\ Abstract!Untouched(c) <=> Clean(c)
  BY DEF Abstract!Committed, Abstract!Untouched, Abstract!InFile, In, Clean
<1> USE DEF FullInv, MutexInv, TypeInv, TypeOK, MutualExclusion, InCritical, PCs, Before,
            Critical, Returned, Goto, UnlockWith, file
<1>2. CASE UNCHANGED vars
  BY <1>2 DEF vars, Abstract!vars
<1>3. ASSUME lines' = lines, cut' = cut, torn' = torn, out' = out
      PROVE UNCHANGED Abstract!vars
  BY <1>3 DEF Abstract!vars
<1>3a. ASSUME NEW c \in Calls, NEW r \in Returned, pc[c] \notin Returned,
              pc' = [pc EXCEPT ![c] = r]
       PROVE  out[c] = "pending" /\ out' = [out EXCEPT ![c] = r]
  <2>1. \A d \in Calls : pc'[d] = IF d = c THEN r ELSE pc[d]
    BY <1>3a
  <2>2. out[c] = "pending"
    BY <1>3a
  <2>3. out' = [out EXCEPT ![c] = r]
    BY <1>3a, <2>1
  <2>4. QED
    BY <2>2, <2>3
<1>4. ASSUME NEW c \in Calls, NEW r \in Returned,
             lines' = lines, partial' = partial, torn' = torn,
             out[c] = "pending", out' = [out EXCEPT ![c] = r],
             r = "ok" => In(c) /\ c \notin torn,
             r \in {"same", "read", "timeout"} => Clean(c)
      PROVE Abstract!Next
  <2>1. Abstract!Return(c, r)
    BY <1>1, <1>4 DEF Abstract!Return, Abstract!Pending
  <2>2. QED
    BY <2>1 DEF Abstract!Next, Abstract!Outcomes
<1>5. ASSUME NEW c \in Calls, AppendTail(c) \/ (Replace(c) /\ res[c] = "ok"),
             out' = out, out[c] = "pending"
      PROVE Abstract!Next
  <2>1. lines' = Append(lines, cut \cup {c}) /\ partial' = {}
    BY <1>5, CommitLines
  <2>2. Clean(c) /\ torn' = torn
    BY <1>5 DEF AppendTail, Replace, CommitInv
  <2>3. Abstract!Commit(c)
    BY <1>1, <1>5, <2>1, <2>2 DEF Abstract!Commit, Abstract!Pending
  <2>4. QED
    BY <2>3 DEF Abstract!Next
<1>6. ASSUME NEW c \in Calls, pc[c] = "tail", AppendFails(c) \/ Die(c)
      PROVE Abstract!Next
  <2>1. /\ lines' = lines /\ partial' = partial /\ torn' = torn \cup {c}
        /\ pc' = [pc EXCEPT ![c] = pc'[c]] /\ pc'[c] \in {"unlock", "dead"}
    BY <1>6 DEF AppendFails, Die
  <2>2. c \in partial /\ Kind[c] = "append" /\ Clean(c)
    BY <1>6 DEF CommitInv
  <2>3. cut' = cut \cup {c}
    BY <2>1, <2>2
  <2>4. out[c] = "pending" /\ (out' = out \/ out' = [out EXCEPT ![c] = "dead"])
    BY <1>6, <2>1
  <2>5. Abstract!Tear(c)
    BY <1>1, <2>1, <2>2, <2>3, <2>4 DEF Abstract!Tear, Abstract!Pending
  <2>6. QED
    BY <2>5 DEF Abstract!Next
<1>7. ASSUME NEW c \in Calls, Unlock(c)
      PROVE Abstract!Next
  <2>1. /\ UNCHANGED <<lines, partial, torn>> /\ pc[c] = "unlock"
        /\ pc' = [pc EXCEPT ![c] = res[c]]
        /\ res[c] \in Returned /\ res[c] # "timeout"
    BY <1>7 DEF Unlock
  <2>2. out[c] = "pending" /\ out' = [out EXCEPT ![c] = res[c]]
    BY <1>3a, <2>1
  <2>3. /\ res[c] = "ok" => In(c) /\ c \notin torn
        /\ res[c] \in {"same", "read", "timeout"} => Clean(c)
    BY <2>1 DEF CommitInv
  <2>4. QED
    BY <1>4, <2>1, <2>2, <2>3
<1>8. ASSUME NEW c \in Calls, NEW r \in {"timeout", "read", "dead"},
             \/ r = "timeout" /\ GiveUp(c)
             \/ r = "read" /\ Peek(c)
             \/ r = "dead" /\ Die(c) /\ pc[c] # "tail"
      PROVE Abstract!Next
  <2>1. /\ UNCHANGED <<lines, partial, torn>> /\ pc[c] \in PCs \ Returned
        /\ pc' = [pc EXCEPT ![c] = r]
    <3>1. CASE r = "timeout"
      BY <1>8, <3>1 DEF GiveUp
    <3>2. CASE r = "read"
      BY <1>8, <3>2 DEF Peek
    <3>3. CASE r = "dead"
      BY <1>8, <3>3 DEF Die
    <3> QED
      BY <3>1, <3>2, <3>3
  <2>2. out[c] = "pending" /\ out' = [out EXCEPT ![c] = r]
    <3>1. r \in Returned /\ pc[c] \notin Returned
      BY <2>1
    <3> QED
      BY <1>3a, <2>1, <3>1
  <2>3. r \in {"same", "read", "timeout"} => Clean(c)
    BY <1>8 DEF GiveUp, Peek, CommitInv
  <2>4. QED
    BY <1>4, <2>1, <2>2, <2>3
<1>9. ASSUME NEW c \in Calls, Open(c) \/ Acquire(c) \/ Body(c),
             ~(AppendFails(c) /\ pc[c] = "tail")
      PROVE [Abstract!Next]_(Abstract!vars)
  <2>1. /\ pc[c] \in PCs \ Returned
        /\ pc' = [pc EXCEPT ![c] = pc'[c]] /\ pc'[c] \in PCs \ Returned
    BY <1>9 DEF Open, Acquire, Body, ReadCurrent, TransformRaises, TransformSame,
         TransformAdds, WriteTmp, WriteFails, Replace, AppendHead, AppendTail,
         AppendFails, LockedRead
  <2>2. out' = out /\ out[c] = "pending"
    BY <2>1
  <2>3. CASE AppendTail(c) \/ (Replace(c) /\ res[c] = "ok")
    BY <1>5, <2>2, <2>3
  <2>4. CASE Replace(c) /\ res[c] # "ok"
    <3>1. lines' = lines /\ partial' = partial /\ torn' = torn
      BY <2>4, ReplaceLines DEF Replace
    <3>2. QED
      BY <1>3, <2>2, <3>1
  <2>5. CASE AppendHead(c)
    <3>1. lines' = lines /\ torn' = torn /\ partial' = partial \cup {c} /\ c \notin torn
      BY <2>5 DEF AppendHead, CommitInv, Clean
    <3>2. cut' = cut
      BY <3>1
    <3>3. QED
      BY <1>3, <2>2, <3>1, <3>2
  <2>6. CASE ~(AppendTail(c) \/ Replace(c) \/ AppendHead(c))
    <3>1. UNCHANGED <<lines, partial, torn>>
      BY <1>9, <2>6 DEF Open, Acquire, Body, ReadCurrent, TransformRaises,
         TransformSame, TransformAdds, WriteTmp, WriteFails, AppendFails, LockedRead
    <3>2. QED
      BY <1>3, <2>2, <3>1
  <2>7. QED
    BY <2>3, <2>4, <2>5, <2>6
<1>10. QED
  BY <1>2, <1>6, <1>7, <1>8, <1>9 DEF Next, Step, Poll, Body

(* filelock.py implements AtomicLog: every call takes effect completely, at
   one instant before it returns, or not at all; an append that is cut short
   leaves its bytes to the next line, and neither it nor a call that gave up
   is ever reported as done.                                                  *)
THEOREM Refinement == Spec => ImplementsAtomicLog
<1>1. Init => Abstract!Init
  BY DEF Init, Abstract!Init, Abstract!Pending, Returned
<1>2. QED
  BY <1>1, FullInvariant, RefinementStep, PTL DEF Spec, ImplementsAtomicLog, Abstract!Spec
==============================================================================
