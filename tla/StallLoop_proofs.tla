--------------------------- MODULE StallLoop_proofs ---------------------------
(***************************************************************************)
(* The inner loop of StallLoop, for any loops, threshold, budget and base: *)
(* how the counters of a loop account for its waves, so that a stuck loop  *)
(* pauses and none pauses early, and how the numbers of the cards follow   *)
(* the cards, so that none is lost and the newest is found.                *)
(***************************************************************************)
EXTENDS StallLoop, WellFoundedInduction, TLAPS

(* The waves that the plans given up so far have cost.                      *)
Spent(r) == (Budget - replans[r]) * (Threshold + 1)

Fresh(r) ==
  stall[r] = 0 /\ replans[r] = Budget /\ bad[r] = 0 /\ good[r] = 0

(* A wave with progress takes one off the counter or finds it at zero, so   *)
(* that the counter lies between the waves without progress since the last  *)
(* plan and their excess over those with it.                                *)
Accounted(r, last) ==
  /\ bad[r] - good[r] <= Spent(r) + last
  /\ Spent(r) + last <= bad[r]

Matches(r) ==
  /\ pc[r] = "idle" => Fresh(r)
  /\ pc[r] \in {"wave", "announce"} => Accounted(r, stall[r])
  /\ pc[r] = "replan" => Accounted(r, Threshold + 1) /\ replans[r] > 0
  /\ pc[r] \notin {"paused", "parked"} => stall[r] <= Threshold
  /\ pc[r] \in Asking => bad[r] >= (Budget + 1) * (Threshold + 1)

CountersMatch == \A r \in Loops : Matches(r)

(* A task ledger that a loop has regenerated and not announced.             *)
OneUnannounced ==
  \A r \in Loops : pc[r] = "announce" => silent[r] # 0

(* A number is of a card, or was chosen when there were no more cards.      *)
NumbersUsed ==
  /\ Numbers \subseteq 1 .. asked
  /\ latest \in None .. asked
  /\ \A r \in Loops : pc[r] = "card" => number[r] \in 1 .. asked + 1
  /\ \A r \in Loops : pc[r] \in {"card", "paused"} => number[r] \in Written

(* Without a race, one loop at a time has chosen a number, the next one.    *)
NumberIsNext ==
  raced \/ \A r \in Loops : pc[r] = "card" =>
             number[r] = asked + 1 /\ \A q \in Loops : pc[q] = "card" => q = r

(* Without a race, the card that was last written whole has the greatest of  *)
(* the numbers of those that can be read.                                   *)
LatestIsLast ==
  raced \/ (/\ \A n \in Readable : n <= latest
            /\ Readable # {} => latest \in Readable)

StallInv ==
  /\ TypeOK
  /\ CountersMatch
  /\ EventsMatchReplans /\ OneUnannounced
  /\ NumbersUsed /\ NumberIsNext /\ LatestIsLast
  /\ CardsKept /\ NewestCardIsFound

-------------------------------------------------------------------------------
(* A set of numbers below a bound has a greatest element.                   *)
LEMMA HasGreatest ==
  ASSUME NEW n \in Nat, NEW S \in SUBSET (0 .. n), S # {}
  PROVE  \E x \in S : \A y \in S : y <= x
<1> DEFINE Below == {n - x : x \in S}
<1>1. \A x \in S : x \in 0 .. n /\ n - x \in Nat
  OBVIOUS
<1>2. PICK x0 \in S : TRUE
  OBVIOUS
<1>3. Below \subseteq Nat /\ n - x0 \in Below
  BY <1>1, <1>2
<1>4. PICK m \in Below : \A k \in Below : <<k, m>> \notin OpToRel(<, Nat)
  BY <1>3, WFMin, NatLessThanWellFounded, Zenon
<1>5. \A k \in Below : ~ k < m
  BY <1>3, <1>4 DEF OpToRel
<1>6. PICK x \in S : m = n - x
  BY <1>4
<1>7. \A y \in S : y <= x
  <2> TAKE y \in S
  <2>1. ~ (n - y < n - x)
    BY <1>5, <1>6
  <2>2. x \in Int /\ y \in Int
    BY <1>1
  <2> HIDE DEF Below
  <2> QED
    BY <2>1, <2>2
<1> QED
  BY <1>7

(* The number a loop chooses is new, and the next one if none is missing.   *)
LEMMA NextNumberIs ==
  ASSUME TypeOK, Numbers \subseteq 1 .. asked
  PROVE  /\ NextNumber \in 1 .. asked + 1
         /\ Numbers = 1 .. asked => NextNumber = asked + 1
<1>1. asked \in Nat /\ MaxCards \in Nat /\ asked <= MaxCards
  BY StallAssumption DEF TypeOK
<1> DEFINE Next1(n) == /\ \A m \in Numbers : m < n
                       /\ n = 1 \/ n - 1 \in Numbers
<1>2. \E n \in 1 .. MaxCards + 1 : Next1(n)
  <2>1. CASE Numbers = {}
    BY <1>1, <2>1
  <2>2. CASE Numbers # {}
    <3>1. Numbers \in SUBSET (0 .. asked)
      BY <1>1
    <3>2. PICK x \in Numbers : \A y \in Numbers : y <= x
      BY <1>1, <2>2, <3>1, HasGreatest
    <3>3. x \in 1 .. asked /\ \A y \in Numbers : y \in 1 .. asked
      OBVIOUS
    <3>4. x + 1 \in 1 .. MaxCards + 1 /\ \A m \in Numbers : m < x + 1
      BY <1>1, <3>2, <3>3
    <3>5. (x + 1) - 1 \in Numbers
      BY <1>1, <3>3
    <3> HIDE DEF Numbers
    <3> QED
      BY <3>4, <3>5
  <2> QED
    BY <2>1, <2>2
<1>3. NextNumber \in 1 .. MaxCards + 1 /\ Next1(NextNumber)
  BY <1>2 DEF NextNumber
<1> HIDE DEF Numbers
<1>4. NextNumber \in 1 .. asked + 1
  <2>1. CASE NextNumber = 1
    BY <1>1, <2>1
  <2>2. CASE NextNumber - 1 \in Numbers
    BY <1>1, <1>3, <2>2
  <2> QED
    BY <1>3, <2>1, <2>2
<1>5. ASSUME Numbers = 1 .. asked PROVE NextNumber = asked + 1
  <2>1. CASE asked = 0
    BY <1>1, <1>4, <2>1
  <2>2. CASE asked # 0
    <3>1. asked \in Numbers
      BY <1>1, <1>5, <2>2
    <3> QED
      BY <1>1, <1>3, <1>4, <3>1
  <2> QED
    BY <2>1, <2>2
<1> QED
  BY <1>4, <1>5

(* One of the file names comes after all others, however many digits.       *)
LEMMA FoundIs ==
  ASSUME TypeOK, Readable # {}
  PROVE  Found \in Readable /\ \A m \in Readable \ {Found} : NameBefore(m, Found)
<1>1. MaxCards \in Nat /\ Base \in Nat /\ Base > 1
  BY StallAssumption
<1>2. Readable \in SUBSET (0 .. MaxCards)
  BY DEF Readable, Written
<1>3. \A n \in 0 .. MaxCards : Lead(n) \in 0 .. MaxCards
  <2> TAKE n \in 0 .. MaxCards
  <2>1. n \div Base \in 0 .. n
    BY <1>1
  <2> QED
    BY <1>1, <2>1 DEF Lead
<1> DEFINE Leads == {Lead(n) : n \in Readable}
<1> HIDE DEF Readable
<1>4. Leads \in SUBSET (0 .. MaxCards) /\ Leads # {}
  BY <1>2, <1>3
<1> HIDE DEF Leads
<1>5. PICK L \in Leads : \A k \in Leads : k <= L
  BY <1>1, <1>4, HasGreatest
<1> DEFINE Tops == {n \in Readable : Lead(n) = L}
<1>6. Tops \in SUBSET (0 .. MaxCards) /\ Tops # {}
  BY <1>2, <1>5 DEF Leads
<1> HIDE DEF Tops
<1>7. PICK n \in Tops : \A k \in Tops : k <= n
  BY <1>1, <1>6, HasGreatest
<1>8. n \in Readable /\ Lead(n) = L
  BY <1>7 DEF Tops
<1>9. \A m \in Readable \ {n} : NameBefore(m, n)
  <2> TAKE m \in Readable \ {n}
  <2>1. Lead(m) \in Int /\ L \in Int /\ m \in Int /\ n \in Int
    BY <1>2, <1>3, <1>8
  <2>2. Lead(m) <= L
    BY <1>5 DEF Leads
  <2>3. Lead(m) = L => m <= n
    BY <1>7 DEF Tops
  <2> QED
    BY <1>8, <2>1, <2>2, <2>3 DEF NameBefore
<1> QED
  BY <1>8, <1>9 DEF Found

-------------------------------------------------------------------------------
(* The counters: what each step of a loop does to the account of its waves. *)
LEMMA InitStallInv == ASSUME Init PROVE StallInv
<1> USE StallAssumption DEF Init
<1>1. TypeOK
  <2>1. pc \in [Loops -> PCs]
    BY DEF PCs
  <2>7. /\ bad \in [Loops -> Nat] /\ good \in [Loops -> Nat] /\ silent \in [Loops -> Nat]
        /\ deaths \in 0 .. MaxDeaths /\ swallowed \in Nat
    OBVIOUS
  <2>8. cut \in BOOLEAN /\ halves \in SUBSET Written
    OBVIOUS
  <2>2. stall \in [Loops -> 0 .. Threshold + 1] /\ replans \in [Loops -> 0 .. Budget]
    OBVIOUS
  <2>3. None \in None .. MaxCards /\ None = 0
    BY DEF None
  <2>4. cards \in [Written -> None .. MaxCards] /\ number \in [Loops -> None .. MaxCards]
    BY <2>3
  <2>5. /\ asked \in 0 .. MaxCards /\ latest \in None .. MaxCards /\ raced \in BOOLEAN /\ status \in {"open", "interrupted"}
        /\ question \in None .. MaxCards /\ answer \in None .. MaxCards
    BY <2>3
  <2>6. resumed \in [question : None .. MaxCards, answer : None .. MaxCards,
                     card : None .. MaxCards, newest : None .. MaxCards]
    BY <2>3
  <2> QED
    BY <2>1, <2>2, <2>4, <2>5, <2>6, <2>7, <2>8 DEF TypeOK
<1>2. CountersMatch
  BY DEF CountersMatch, Matches, Fresh, Asking
<1>3. NumbersUsed
  BY DEF NumbersUsed, Numbers, Readable, Written, None
<1>4. EventsMatchReplans /\ OneUnannounced
  BY DEF EventsMatchReplans, OneUnannounced
<1>5. NumberIsNext /\ CardsKept /\ NewestCardIsFound /\ LatestIsLast
  BY DEF NumberIsNext, CardsKept, NewestCardIsFound, LatestIsLast, Readable, Written, None
<1> QED
  BY <1>1, <1>2, <1>3, <1>4, <1>5 DEF StallInv

(* A plan given up adds to what the plans have cost.                        *)
LEMMA PlanSpent ==
  ASSUME TypeOK, NEW r \in Loops
  PROVE  /\ Spent(r) \in Nat
         /\ replans[r] = Budget => Spent(r) = 0
         /\ replans[r] = 0 => Spent(r) + Threshold + 1 = (Budget + 1) * (Threshold + 1)
         /\ replans'[r] = replans[r] - 1 => Spent(r)' = Spent(r) + Threshold + 1
<1> USE StallAssumption
<1>1. replans[r] \in 0 .. Budget /\ replans[r] \in Nat /\ Budget - replans[r] \in Nat
  BY DEF TypeOK
<1>2. \A m, k \in Nat : m * k \in Nat /\ (m + 1) * k = m * k + k /\ 0 * k = 0
  OBVIOUS
<1> DEFINE used == Budget - replans[r]
           cost == Threshold + 1
<1>3. Spent(r) = used * cost /\ used \in Nat /\ cost \in Nat
  BY <1>1 DEF Spent
<1>4. ASSUME replans'[r] = replans[r] - 1 PROVE Spent(r)' = (used + 1) * cost
  <2>1. Budget - replans'[r] = used + 1
    BY <1>1, <1>4
  <2> QED
    BY <2>1 DEF Spent
<1>5. (replans[r] = 0 => used = Budget) /\ (replans[r] = Budget => used = 0)
  BY <1>1
<1> HIDE DEF used, cost
<1>6. (used + 1) * cost = used * cost + cost /\ (Budget + 1) * cost = Budget * cost + cost
      /\ used * cost \in Nat /\ 0 * cost = 0
  BY <1>2, <1>3
<1> QED
  BY <1>3, <1>4, <1>5, <1>6 DEF cost

LEMMA CountersStep == ASSUME StallInv, [Next]_vars PROVE CountersMatch'
<1> SUFFICES ASSUME NEW q \in Loops PROVE Matches(q)'
  BY DEF CountersMatch
<1> USE StallAssumption DEF StallInv, TypeOK, Goto, Inc, loop
<1>1. Matches(q)
  BY DEF CountersMatch
<1>2. ASSUME pc'[q] = pc[q], stall'[q] = stall[q], replans'[q] = replans[q],
             bad'[q] = bad[q], good'[q] = good[q]
      PROVE  Matches(q)'
  BY <1>1, <1>2 DEF Matches, Fresh, Accounted, Spent, Asking
<1>3. ASSUME Leave(q) PROVE Matches(q)'
  <2>1. pc'[q] = "idle" /\ Fresh(q)'
    BY <1>3 DEF Leave, Fresh
  <2> QED
    BY <2>1 DEF Matches, Fresh, Asking
<1>4. CASE Answer \/ OtherEmits \/ UNCHANGED vars
  BY <1>2, <1>4 DEF Answer, OtherEmits, vars
<1>5. ASSUME NEW r \in Loops, Step(r), r # q PROVE Matches(q)'
  <2>1. /\ pc'[q] = pc[q] /\ stall'[q] = stall[q] /\ replans'[q] = replans[q]
        /\ bad'[q] = bad[q] /\ good'[q] = good[q]
    <3>1. CASE Start(r) \/ GoodWave(r) \/ BadWave(r)
      BY <1>5, <3>1 DEF Start, GoodWave, BadWave
    <3>2. CASE Satisfied(r) \/ Die(r) \/ DieAnnouncing(r) \/ DieWriting(r) \/ Resume(r)
      BY <1>5, <3>2 DEF Satisfied, Die, DieAnnouncing, DieWriting, Killed, Resume, Leave
    <3>3. CASE Replan(r) \/ Announce(r) \/ Choose(r) \/ WriteCard(r) \/ Park(r)
      BY <1>5, <3>3 DEF Replan, Announce, Choose, WriteCard, Park
    <3> QED
      BY <1>5, <3>1, <3>2, <3>3 DEF Step
  <2> QED
    BY <1>2, <2>1
<1>6. ASSUME Step(q) PROVE Matches(q)'
  <2>1. Spent(q) \in Nat /\ bad[q] \in Nat /\ good[q] \in Nat /\ stall[q] \in Nat
    BY PlanSpent
  <2>2. ASSUME replans' = replans PROVE Spent(q)' = Spent(q)
    BY <2>2 DEF Spent
  <2>3. CASE Start(q)
    <3>1. /\ pc[q] = "idle" /\ pc'[q] = "wave"
          /\ UNCHANGED <<stall, replans, bad, good>>
      BY <2>3 DEF Start
    <3>2. Fresh(q) /\ Spent(q) = 0
      BY <1>1, <3>1, PlanSpent DEF Matches, Fresh
    <3> QED
      BY <2>2, <3>1, <3>2 DEF Matches, Fresh, Accounted, Asking
  <2>4. CASE GoodWave(q)
    <3>1. /\ pc[q] = "wave" /\ pc'[q] = "wave" /\ good'[q] = good[q] + 1
          /\ stall'[q] = (IF stall[q] = 0 THEN 0 ELSE stall[q] - 1)
          /\ UNCHANGED <<replans, bad>>
      BY <2>4 DEF GoodWave
    <3>2. Accounted(q, stall[q]) /\ stall[q] <= Threshold
      BY <1>1, <3>1 DEF Matches
    <3>3. Accounted(q, stall[q])'
      BY <2>1, <2>2, <3>1, <3>2 DEF Accounted
    <3>4. stall'[q] <= Threshold
      BY <2>1, <3>1, <3>2
    <3> QED
      BY <3>1, <3>3, <3>4 DEF Matches, Asking
  <2>5. CASE BadWave(q)
    <3>1. /\ pc[q] = "wave" /\ bad'[q] = bad[q] + 1 /\ UNCHANGED <<replans, good>>
          /\ Accounted(q, stall[q]) /\ stall[q] <= Threshold
      BY <1>1, <2>5 DEF BadWave, Matches
    <3>2. CASE stall[q] + 1 <= Threshold
      <4>1. pc'[q] = "wave" /\ stall'[q] = stall[q] + 1
        BY <2>5, <3>1, <3>2 DEF BadWave
      <4>2. Accounted(q, stall[q])'
        BY <2>1, <2>2, <3>1, <4>1 DEF Accounted
      <4> QED
        BY <3>2, <4>1, <4>2 DEF Matches, Asking
    <3>3. CASE ~ (stall[q] + 1 <= Threshold)
      <4>1. stall[q] = Threshold /\ stall'[q] = stall[q]
            /\ pc'[q] = (IF replans[q] > 0 THEN "replan" ELSE "number")
        BY <2>1, <2>5, <3>1, <3>3 DEF BadWave
      <4>2. Accounted(q, Threshold + 1)'
        BY <2>1, <2>2, <3>1, <4>1 DEF Accounted
      <4>3. CASE replans[q] > 0
        BY <3>1, <4>1, <4>2, <4>3 DEF Matches, Asking
      <4>4. CASE replans[q] = 0
        <5>1. bad'[q] >= Spent(q) + Threshold + 1
          BY <2>1, <3>1, <4>1 DEF Accounted
        <5>2. bad'[q] >= (Budget + 1) * (Threshold + 1)
          BY <4>4, <5>1, PlanSpent
        <5> QED
          BY <4>1, <4>4, <5>2 DEF Matches
      <4> QED
        BY <4>3, <4>4
    <3> QED
      BY <3>2, <3>3
  <2>6. CASE Satisfied(q) \/ Die(q) \/ DieAnnouncing(q) \/ DieWriting(q) \/ Resume(q)
    BY <1>3, <2>6 DEF Satisfied, Die, DieAnnouncing, DieWriting, Killed, Resume
  <2>7. CASE Replan(q)
    <3>1. /\ pc[q] = "replan" /\ pc'[q] = "announce" /\ stall'[q] = 0
          /\ replans'[q] = replans[q] - 1 /\ UNCHANGED <<bad, good>>
      BY <2>7 DEF Replan
    <3>2. Accounted(q, Threshold + 1)
      BY <1>1, <3>1 DEF Matches
    <3>3. Spent(q)' = Spent(q) + Threshold + 1
      BY <3>1, PlanSpent
    <3>4. Accounted(q, stall[q])'
      BY <2>1, <3>1, <3>2, <3>3 DEF Accounted
    <3> QED
      BY <3>1, <3>4 DEF Matches, Asking
  <2>8. CASE Announce(q)
    <3>1. /\ pc[q] = "announce" /\ pc'[q] = "wave" /\ UNCHANGED <<stall, replans, bad, good>>
      BY <2>8 DEF Announce
    <3> QED
      BY <1>1, <2>2, <3>1 DEF Matches, Accounted, Asking
  <2>9. CASE Choose(q) \/ WriteCard(q) \/ Park(q)
    <3>1. /\ pc[q] \in Asking /\ pc'[q] \in Asking /\ bad' = bad
          /\ pc'[q] \in {"paused", "parked"} \/ (pc[q] = "number" /\ stall' = stall)
      BY <2>9 DEF Choose, WriteCard, Park, Asking
    <3> QED
      BY <1>1, <3>1 DEF Matches, Asking
  <2> QED
    BY <1>6, <2>3, <2>4, <2>5, <2>6, <2>7, <2>8, <2>9 DEF Step
<1> QED
  BY <1>4, <1>5, <1>6 DEF Next

(* A loop that has announced a plan regenerated it, and each half line was   *)
(* left by a death and swallows one event at most.                          *)
LEMMA EventsStep ==
  ASSUME StallInv, [Next]_vars PROVE (EventsMatchReplans /\ OneUnannounced)'
<1> DEFINE Announced(q) ==
             /\ silent[q] \in 0 .. deaths + (IF pc[q] = "announce" THEN 1 ELSE 0)
             /\ pc[q] = "announce" => silent[q] # 0
           halfLines == IF cut THEN 1 ELSE 0
<1> SUFFICES /\ \A q \in Loops : Announced(q)'
             /\ (swallowed + halfLines <= deaths)'
  BY DEF EventsMatchReplans, OneUnannounced
<1> USE DEF Goto, Inc, loop, counts, events
<1>1. /\ \A q \in Loops : Announced(q) /\ silent[q] \in Nat
      /\ swallowed + halfLines <= deaths /\ swallowed \in Nat /\ deaths \in Nat
      /\ cut \in BOOLEAN /\ silent \in [Loops -> Nat] /\ pc \in [Loops -> PCs]
  BY StallAssumption DEF StallInv, TypeOK, EventsMatchReplans, OneUnannounced
<1>2. ASSUME UNCHANGED <<silent, cut, swallowed, deaths>>,
             \A q \in Loops : pc'[q] = "announce" <=> pc[q] = "announce"
      PROVE  (\A q \in Loops : Announced(q)') /\ (swallowed + halfLines <= deaths)'
  BY <1>1, <1>2
<1>3. CASE Answer \/ UNCHANGED vars
  BY <1>2, <1>3 DEF Answer, vars
<1>4. CASE OtherEmits
  <2>1. /\ UNCHANGED <<pc, silent, swallowed>>
        /\ \/ cut' = FALSE /\ deaths' = deaths
           \/ cut' = TRUE /\ deaths' = deaths + 1
    BY <1>4 DEF OtherEmits
  <2> QED
    BY <1>1, <2>1
<1>5. ASSUME NEW r \in Loops, Step(r)
      PROVE  (\A q \in Loops : Announced(q)') /\ (swallowed + halfLines <= deaths)'
  <2>1. CASE Start(r) \/ GoodWave(r) \/ BadWave(r) \/ Satisfied(r)
    BY <1>1, <1>2, <2>1 DEF Start, GoodWave, BadWave, Satisfied, Leave
  <2>2. CASE Resume(r) \/ Choose(r) \/ WriteCard(r) \/ Park(r)
    BY <1>1, <1>2, <2>2 DEF Resume, Choose, WriteCard, Park, Leave
  <2>3. CASE Die(r) \/ DieAnnouncing(r) \/ DieWriting(r)
    <3>1. /\ silent' = silent /\ swallowed' = swallowed /\ deaths' = deaths + 1
          /\ cut' \in {cut, TRUE}
      BY <2>3 DEF Die, DieAnnouncing, DieWriting, Killed
    <3>2. \A q \in Loops : pc'[q] = (IF q = r THEN "idle" ELSE pc[q])
      BY <1>1, <2>3 DEF Die, DieAnnouncing, DieWriting, Killed, Leave
    <3> QED
      BY <1>1, <3>1, <3>2
  <2>4. CASE Replan(r)
    <3>1. pc[r] = "replan" /\ UNCHANGED <<cut, swallowed, deaths>>
      BY <2>4 DEF Replan
    <3>2. \A q \in Loops :
            /\ silent'[q] = (IF q = r THEN silent[q] + 1 ELSE silent[q])
            /\ pc'[q] = (IF q = r THEN "announce" ELSE pc[q])
      BY <1>1, <2>4 DEF Replan
    <3> QED
      BY <1>1, <3>1, <3>2
  <2>5. CASE Announce(r)
    <3>1. /\ pc[r] = "announce" /\ deaths' = deaths /\ cut' = FALSE
          /\ swallowed' = swallowed + halfLines
      BY <2>5 DEF Announce, Emit
    <3>2. \A q \in Loops :
            /\ silent'[q] = (IF q = r THEN silent[q] - 1 ELSE silent[q])
            /\ pc'[q] = (IF q = r THEN "wave" ELSE pc[q])
      BY <1>1, <2>5 DEF Announce
    <3> QED
      BY <1>1, <3>1, <3>2
  <2> QED
    BY <1>5, <2>1, <2>2, <2>3, <2>4, <2>5 DEF Step
<1> QED
  BY <1>3, <1>4, <1>5 DEF Next

(* When no card was lost, the last one has the greatest number, and up to   *)
(* the first number with another digit also the last name.                  *)
LEMMA CardsInOrder ==
  ASSUME StallInv, ~ raced
  PROVE  /\ Numbers = 1 .. asked
         /\ Readable # {} /\ latest < Base => cards[Found] = latest
<1>1. /\ asked \in Nat /\ MaxCards \in Nat /\ asked <= MaxCards
      /\ Base \in Nat /\ latest \in Nat
  BY StallAssumption DEF StallInv, TypeOK, None
<1>2. \A n \in 1 .. MaxCards : cards[n] = IF n <= asked /\ n \notin halves THEN n ELSE 0
  BY DEF StallInv, CardsKept, Written, None
<1>3. Readable = (1 .. asked) \ halves
  BY <1>1, <1>2 DEF Readable, Written, None
<1>4. halves \subseteq 1 .. asked
  BY DEF StallInv, NumbersUsed, Numbers
<1>5. Numbers = 1 .. asked
  BY <1>3, <1>4 DEF Numbers
<1>6. ASSUME Readable # {}, latest < Base PROVE cards[Found] = latest
  <2>1. Found \in Readable /\ \A m \in Readable \ {Found} : NameBefore(m, Found)
    BY <1>6, FoundIs DEF StallInv
  <2>2. /\ latest \in Readable
        /\ \A n \in Readable : n <= latest
    BY <1>6 DEF StallInv, LatestIsLast
  <2>3. \A n \in Readable : Lead(n) = n /\ n \in Nat
    BY <1>1, <1>3, <1>6, <2>2 DEF Lead
  <2> HIDE DEF Found, Readable
  <2>4. Found = latest
    BY <1>1, <2>1, <2>2, <2>3 DEF NameBefore
  <2>5. latest \in 1 .. MaxCards /\ latest <= asked /\ latest \notin halves
    BY <1>1, <1>3, <2>2
  <2>6. cards[latest] = latest
    BY <1>2, <2>5
  <2> QED
    BY <2>4, <2>6
<1> QED
  BY <1>5, <1>6

(* Only the loop that steps chooses, writes or drops a number.              *)
LEMMA OthersKeepNumbers ==
  ASSUME TypeOK, NEW r \in Loops, Step(r), NEW q \in Loops, q # r
  PROVE  pc'[q] = pc[q] /\ number'[q] = number[q]
<1> USE DEF TypeOK, Goto
<1>1. CASE Start(r) \/ GoodWave(r) \/ BadWave(r)
  BY <1>1 DEF Start, GoodWave, BadWave
<1>2. CASE Satisfied(r) \/ Die(r) \/ DieAnnouncing(r) \/ DieWriting(r) \/ Resume(r)
  BY <1>2 DEF Satisfied, Die, DieAnnouncing, DieWriting, Killed, Resume, Leave
<1>3. CASE Replan(r) \/ Announce(r) \/ Choose(r) \/ WriteCard(r) \/ Park(r)
  BY <1>3 DEF Replan, Announce, Choose, WriteCard, Park
<1> QED
  BY <1>1, <1>2, <1>3 DEF Step

(* Apart from choosing and writing, no step touches the cards or comes to   *)
(* hold a number.                                                           *)
LEMMA QuietSteps ==
  ASSUME TypeOK, NEW r \in Loops, Step(r), ~ Choose(r), ~ WriteCard(r), ~ DieWriting(r)
  PROVE  /\ UNCHANGED board
         /\ pc'[r] \notin {"card", "paused"}
<1> USE DEF TypeOK, Goto, board
<1>1. CASE Start(r) \/ GoodWave(r) \/ BadWave(r)
  BY <1>1 DEF Start, GoodWave, BadWave
<1>2. CASE Satisfied(r) \/ Die(r) \/ DieAnnouncing(r) \/ Resume(r)
  BY <1>2 DEF Satisfied, Die, DieAnnouncing, Killed, Resume, Leave
<1>3. CASE Replan(r) \/ Announce(r) \/ Park(r)
  BY <1>3 DEF Replan, Announce, Park
<1> QED
  BY <1>1, <1>2, <1>3 DEF Step

(* The numbers: a loop takes the next one, and its card takes the number,   *)
(* whole or half.                                                           *)
NumbersInv == NumbersUsed /\ NumberIsNext /\ CardsKept /\ LatestIsLast

LEMMA ChooseStep ==
  ASSUME StallInv, NEW r \in Loops, Choose(r) PROVE NumbersInv'
<1> USE DEF StallInv, TypeOK
<1>1. asked \in Nat /\ MaxCards \in Nat /\ asked <= MaxCards
  BY StallAssumption
<1>2. /\ asked < MaxCards /\ UNCHANGED <<cards, halves, asked, latest>>
      /\ number' = [number EXCEPT ![r] = NextNumber]
      /\ pc' = [pc EXCEPT ![r] = "card"]
      /\ raced' = (raced \/ \E q \in Loops \ {r} : pc[q] = "card")
  BY DEF Choose, Goto
<1>3. Readable' = Readable /\ Numbers' = Numbers
  BY <1>2 DEF Readable, Numbers
<1>4. NextNumber \in 1 .. asked + 1 /\ (Numbers = 1 .. asked => NextNumber = asked + 1)
  BY NextNumberIs DEF NumbersUsed
<1>5. NumbersUsed'
  <2>1. NextNumber \in Written
    BY <1>1, <1>2, <1>4 DEF Written
  <2> QED
    BY <1>2, <1>3, <1>4, <2>1 DEF NumbersUsed
<1>6. CardsKept' /\ LatestIsLast'
  BY <1>2, <1>3 DEF CardsKept, LatestIsLast
<1>7. NumberIsNext'
  <2>1. SUFFICES ASSUME ~ raced, \A q \in Loops \ {r} : pc[q] # "card",
                        NEW q \in Loops, pc'[q] = "card"
                 PROVE  q = r /\ number'[q] = asked + 1
    BY <1>2 DEF NumberIsNext
  <2>2. q = r
    BY <1>2, <2>1
  <2>3. Numbers = 1 .. asked
    BY <2>1, CardsInOrder
  <2> QED
    BY <1>2, <1>4, <2>2, <2>3
<1> QED
  BY <1>5, <1>6, <1>7 DEF NumbersInv

LEMMA WriteStep ==
  ASSUME StallInv, NEW r \in Loops, WriteCard(r) \/ DieWriting(r) PROVE NumbersInv'
<1>1. /\ asked \in Nat /\ MaxCards \in Nat /\ asked <= MaxCards /\ latest \in Nat
      /\ Readable \subseteq 1 .. asked /\ halves \subseteq 1 .. asked
      /\ latest <= asked /\ cards \in [Written -> None .. MaxCards]
      /\ pc \in [Loops -> PCs] /\ number \in [Loops -> None .. MaxCards]
  BY StallAssumption DEF StallInv, TypeOK, NumbersUsed, Numbers, None
<1>2. /\ pc[r] = "card" /\ pc'[r] # "card"
      /\ pc'[r] = "paused" => number'[r] = number[r]
      /\ asked < MaxCards /\ asked' = asked + 1 /\ raced' = raced
      /\ \A q \in Loops \ {r} : pc'[q] = pc[q] /\ number'[q] = number[q]
  BY <1>1 DEF WriteCard, DieWriting, Killed, Leave, Goto
<1>3. \/ /\ cards' = [cards EXCEPT ![number[r]] = asked + 1]
         /\ halves' = halves \ {number[r]} /\ latest' = asked + 1
      \/ /\ cards' = [cards EXCEPT ![number[r]] = None]
         /\ halves' = halves \cup {number[r]} /\ latest' = latest
  BY DEF WriteCard, DieWriting
<1>4. number[r] \in Written /\ number[r] \in 1 .. asked + 1
  BY <1>2 DEF StallInv, NumbersUsed
<1>5. \/ /\ Readable' = Readable \cup {number[r]}
         /\ halves' = halves \ {number[r]} /\ latest' = asked + 1
      \/ /\ Readable' = Readable \ {number[r]}
         /\ halves' = halves \cup {number[r]} /\ latest' = latest
  BY <1>1, <1>3, <1>4 DEF Readable, None
<1>6. NumbersUsed'
  <2>1. 1 .. asked \subseteq 1 .. asked' /\ 1 .. asked + 1 = 1 .. asked'
    BY <1>1, <1>2
  <2>2. Readable' \subseteq 1 .. asked' /\ halves' \subseteq 1 .. asked'
    <3> HIDE DEF Readable
    <3> QED
      BY <1>1, <1>4, <1>5, <2>1
  <2>3. latest' \in None .. asked'
    BY <1>1, <1>2, <1>5 DEF None
  <2>4. \A q \in Loops : pc'[q] = "card" => number'[q] \in 1 .. asked' + 1
    BY <1>1, <1>2 DEF StallInv, NumbersUsed
  <2>5. \A q \in Loops : pc'[q] \in {"card", "paused"} => number'[q] \in Written
    BY <1>2, <1>4 DEF StallInv, NumbersUsed, Written
  <2>6. Numbers' \subseteq 1 .. asked'
    BY <2>2 DEF Numbers
  <2> QED
    BY <2>3, <2>4, <2>5, <2>6 DEF NumbersUsed, Written
<1>7. ASSUME ~ raced
      PROVE  /\ number[r] = asked + 1
             /\ \A q \in Loops : pc[q] = "card" => q = r
  BY <1>2, <1>7 DEF StallInv, NumberIsNext
<1>8. NumberIsNext'
  BY <1>2, <1>7 DEF NumberIsNext
<1>9. LatestIsLast'
  <2> SUFFICES ASSUME ~ raced
               PROVE  /\ \A n \in Readable' : n <= latest'
                      /\ Readable' # {} => latest' \in Readable'
    BY <1>2 DEF LatestIsLast
  <2>1. /\ \A n \in Readable : n <= latest
        /\ Readable # {} => latest \in Readable
        /\ number[r] = asked + 1
    BY <1>7 DEF StallInv, LatestIsLast
  <2>2. \A n \in Readable : n \in Nat /\ n < asked + 1
    BY <1>1
  <2>3. CASE Readable' = Readable \cup {number[r]} /\ latest' = asked + 1
    <3>1. \A n \in Readable' : n <= asked + 1
      BY <1>1, <2>1, <2>2, <2>3
    <3> QED
      BY <2>1, <2>3, <3>1
  <2>4. CASE Readable' = Readable \ {number[r]} /\ latest' = latest
    <3>1. number[r] \notin Readable
      BY <1>1, <2>1, <2>2
    <3>2. Readable' = Readable
      BY <2>4, <3>1
    <3> QED
      BY <2>1, <2>4, <3>2
  <2> QED
    BY <1>5, <2>3, <2>4
<1>10. CardsKept'
  <2>1. SUFFICES ASSUME ~ raced, NEW n \in Written
                 PROVE  cards'[n] = IF n <= asked + 1 /\ n \notin halves' THEN n ELSE None
    <3>1. cards' = [n \in Written |-> cards'[n]]
      BY <1>1, <1>3
    <3> QED
      BY <1>2, <3>1 DEF CardsKept
  <2>2. number[r] = asked + 1 /\ n \in Nat
    BY <1>7, <2>1 DEF Written
  <2>3. cards[n] = IF n <= asked /\ n \notin halves THEN n ELSE None
    BY <2>1 DEF StallInv, CardsKept
  <2>4. CASE n = asked + 1
    BY <1>1, <1>3, <2>1, <2>2, <2>4
  <2>5. CASE n # asked + 1
    <3>1. cards'[n] = cards[n] /\ (n \in halves' <=> n \in halves)
      BY <1>1, <1>3, <2>1, <2>2, <2>5
    <3>2. n <= asked + 1 <=> n <= asked
      BY <1>1, <2>2, <2>5
    <3> QED
      BY <2>3, <3>1, <3>2
  <2> QED
    BY <2>4, <2>5
<1> QED
  BY <1>6, <1>8, <1>9, <1>10 DEF NumbersInv

LEMMA NumbersStep ==
  ASSUME StallInv, [Next]_vars PROVE NumbersInv'
<1>1. ASSUME UNCHANGED board,
             \A q \in Loops : pc'[q] \in {"card", "paused"} =>
                               pc'[q] = pc[q] /\ number'[q] = number[q]
      PROVE  NumbersInv'
  <2>1. /\ CardsKept' /\ LatestIsLast' /\ Readable' = Readable /\ Numbers' = Numbers
        /\ asked' = asked /\ raced' = raced /\ latest' = latest
    BY <1>1 DEF StallInv, board, CardsKept, LatestIsLast, Readable, Numbers
  <2>2. NumbersUsed'
    BY <1>1, <2>1 DEF StallInv, NumbersUsed
  <2>3. NumberIsNext'
    BY <1>1, <2>1 DEF StallInv, NumberIsNext
  <2> QED
    BY <2>1, <2>2, <2>3 DEF NumbersInv
<1>2. CASE Answer \/ OtherEmits \/ UNCHANGED vars
  BY <1>1, <1>2 DEF Answer, OtherEmits, vars
<1>3. ASSUME NEW r \in Loops, Step(r), ~ Choose(r), ~ WriteCard(r), ~ DieWriting(r)
      PROVE  NumbersInv'
  <2>1. UNCHANGED board /\ pc'[r] \notin {"card", "paused"}
    BY <1>3, QuietSteps DEF StallInv
  <2>2. \A q \in Loops : q # r => pc'[q] = pc[q] /\ number'[q] = number[q]
    BY <1>3, OthersKeepNumbers DEF StallInv
  <2> QED
    BY <1>1, <2>1, <2>2
<1> QED
  BY <1>2, <1>3, ChooseStep, WriteStep DEF Next

(* What a resumption reads.                                                 *)
LEMMA ResumeStep ==
  ASSUME StallInv, [Next]_vars PROVE NewestCardIsFound'
<1> USE DEF StallInv, ticket
<1>1. latest \in Nat /\ Base \in Nat
  BY StallAssumption DEF TypeOK, None
<1>2. ASSUME resumed' = resumed, raced => raced' PROVE NewestCardIsFound'
  BY <1>2 DEF NewestCardIsFound
<1>3. ASSUME NEW r \in Loops, Resume(r) PROVE NewestCardIsFound'
  <2>1. /\ Readable # {} /\ raced' = raced
        /\ resumed' = [question |-> question, answer |-> answer,
                        card |-> cards[Found], newest |-> latest]
    BY <1>3 DEF Resume, board
  <2>2. ~ raced /\ latest < Base => cards[Found] = latest
    BY <2>1, CardsInOrder
  <2>3. resumed'.card = cards[Found] /\ resumed'.newest = latest
    BY <2>1
  <2> HIDE DEF Found
  <2> QED
    BY <1>1, <2>1, <2>2, <2>3 DEF NewestCardIsFound
<1>4. ASSUME NEW r \in Loops, Step(r), ~ Resume(r) PROVE NewestCardIsFound'
  <2>1. CASE Choose(r) \/ WriteCard(r) \/ Park(r)
    BY <1>2, <2>1 DEF Choose, WriteCard, Park, board
  <2>2. CASE Start(r) \/ GoodWave(r) \/ BadWave(r) \/ Satisfied(r) \/ Replan(r)
             \/ Announce(r) \/ Die(r) \/ DieAnnouncing(r) \/ DieWriting(r)
    BY <1>2, <2>2 DEF Start, GoodWave, BadWave, Satisfied, Replan, Announce, Die,
                      DieAnnouncing, DieWriting, board
  <2> QED
    BY <1>4, <2>1, <2>2 DEF Step
<1>5. CASE Answer \/ OtherEmits \/ UNCHANGED vars
  BY <1>2, <1>5 DEF Answer, OtherEmits, vars, board
<1> QED
  BY <1>3, <1>4, <1>5 DEF Next

-------------------------------------------------------------------------------
(* The types, in three parts that no step disturbs at once.                 *)
LoopTyped ==
  /\ pc \in [Loops -> PCs]
  /\ stall \in [Loops -> 0 .. Threshold + 1]
  /\ replans \in [Loops -> 0 .. Budget]
  /\ bad \in [Loops -> Nat] /\ good \in [Loops -> Nat]
  /\ silent \in [Loops -> Nat] /\ cut \in BOOLEAN /\ swallowed \in Nat
  /\ deaths \in 0 .. MaxDeaths

BoardTyped ==
  /\ number \in [Loops -> None .. MaxCards]
  /\ cards \in [Written -> None .. MaxCards]
  /\ halves \in SUBSET Written
  /\ asked \in 0 .. MaxCards /\ latest \in None .. MaxCards /\ raced \in BOOLEAN

TicketTyped ==
  /\ status \in {"open", "interrupted"}
  /\ question \in None .. MaxCards /\ answer \in None .. MaxCards
  /\ resumed \in [question : None .. MaxCards, answer : None .. MaxCards,
                  card : None .. MaxCards, newest : None .. MaxCards]

LEMMA TypeParts == TypeOK <=> LoopTyped /\ BoardTyped /\ TicketTyped
  BY DEF TypeOK, LoopTyped, BoardTyped, TicketTyped

LEMMA LoopTypeStep ==
  ASSUME StallInv, NEW r \in Loops, Step(r) PROVE LoopTyped'
<1> USE StallAssumption DEF LoopTyped, Goto, Inc, loop, counts, events
<1>1. LoopTyped /\ Matches(r)
  BY TypeParts DEF StallInv, CountersMatch
<1>2. ASSUME Leave(r), silent' = silent, swallowed' = swallowed, cut' \in BOOLEAN,
             deaths' \in 0 .. MaxDeaths
      PROVE  LoopTyped'
  BY <1>1, <1>2 DEF Leave, PCs
<1>3. CASE Start(r)
  BY <1>1, <1>3 DEF Start, PCs
<1>4. CASE GoodWave(r)
  <2>1. stall[r] \in 0 .. Threshold + 1 /\ good[r] \in Nat
    BY <1>1
  <2>2. good[r] + 1 \in Nat
        /\ (IF stall[r] = 0 THEN 0 ELSE stall[r] - 1) \in 0 .. Threshold + 1
    BY <2>1
  <2> QED
    BY <1>1, <1>4, <2>2 DEF GoodWave
<1>5. CASE BadWave(r)
  <2>1. bad[r] + 1 \in Nat /\ stall[r] \in 0 .. Threshold + 1
    BY <1>1
  <2>2. CASE stall[r] + 1 <= Threshold
    <3>1. stall[r] + 1 \in 0 .. Threshold + 1
      BY <2>1, <2>2
    <3>2. /\ bad' = [bad EXCEPT ![r] = bad[r] + 1]
          /\ stall' = [stall EXCEPT ![r] = stall[r] + 1]
          /\ UNCHANGED <<pc, replans, good, counts>>
      BY <1>5, <2>2 DEF BadWave
    <3> QED
      BY <1>1, <2>1, <3>1, <3>2
  <2>3. CASE ~ (stall[r] + 1 <= Threshold)
    <3>1. /\ bad' = [bad EXCEPT ![r] = bad[r] + 1]
          /\ pc' = [pc EXCEPT ![r] = IF replans[r] > 0 THEN "replan" ELSE "number"]
          /\ UNCHANGED <<stall, replans, good, counts>>
      BY <1>5, <2>3 DEF BadWave
    <3> QED
      BY <1>1, <2>1, <3>1 DEF PCs
  <2> QED
    BY <2>2, <2>3
<1>6. CASE Satisfied(r) \/ Resume(r)
  BY <1>1, <1>2, <1>6 DEF Satisfied, Resume
<1>7. CASE Die(r) \/ DieAnnouncing(r) \/ DieWriting(r)
  <2>1. Killed(r)
    BY <1>7 DEF Die, DieAnnouncing, DieWriting
  <2>2. Leave(r) /\ deaths' \in 0 .. MaxDeaths
    BY <1>1, <2>1 DEF Killed
  <2>3. silent' = silent /\ swallowed' = swallowed
    BY <1>7 DEF Die, DieAnnouncing, DieWriting
  <2>4. cut' = cut \/ cut' = TRUE
    BY <1>7 DEF Die, DieAnnouncing, DieWriting
  <2> QED
    BY <1>1, <1>2, <2>2, <2>3, <2>4
<1>8. CASE Replan(r)
  <2>1. replans[r] \in 0 .. Budget /\ replans[r] > 0 /\ silent[r] \in Nat
    BY <1>1, <1>8 DEF Replan, Matches
  <2>2. replans[r] - 1 \in 0 .. Budget /\ silent[r] + 1 \in Nat
    BY <2>1
  <2> QED
    BY <1>1, <1>8, <2>2 DEF Replan, PCs
<1>9. CASE Announce(r)
  <2>1. silent[r] \in Nat /\ silent[r] # 0
    BY <1>1, <1>9 DEF Announce, StallInv, OneUnannounced
  <2>2. silent[r] - 1 \in Nat
    BY <2>1
  <2>3. swallowed' \in Nat /\ cut' = FALSE
    BY <1>1, <1>9 DEF Announce, Emit
  <2> QED
    BY <1>1, <1>9, <2>2, <2>3 DEF Announce, PCs
<1>10. CASE Choose(r) \/ Park(r)
  BY <1>1, <1>10 DEF Choose, Park, PCs
<1>11. CASE WriteCard(r)
  <2>1. pc[r] = "card" /\ stall[r] \in 0 .. Threshold + 1
    BY <1>1, <1>11 DEF WriteCard
  <2>2. stall[r] + 1 \in 0 .. Threshold + 1
    BY <1>1, <2>1 DEF Matches
  <2> QED
    BY <1>1, <1>11, <2>2 DEF WriteCard, PCs
<1> QED
  BY <1>3, <1>4, <1>5, <1>6, <1>7, <1>8, <1>9, <1>10, <1>11 DEF Step

LEMMA BoardTypeStep ==
  ASSUME StallInv, NEW r \in Loops, Step(r) PROVE BoardTyped'
<1> USE StallAssumption DEF BoardTyped, board
<1>1. BoardTyped /\ TypeOK /\ NumbersUsed
  BY TypeParts DEF StallInv
<1>2. None = 0
  BY DEF None
<1>3. CASE Choose(r)
  <2>1. NextNumber \in 1 .. asked + 1 /\ asked < MaxCards
    BY <1>1, <1>3, NextNumberIs DEF Choose, NumbersUsed
  <2>2. NextNumber \in None .. MaxCards
    BY <1>1, <1>2, <2>1
  <2>3. raced' \in BOOLEAN
    BY <1>3 DEF Choose
  <2> QED
    BY <1>1, <1>3, <2>2, <2>3 DEF Choose
<1>4. CASE WriteCard(r) \/ DieWriting(r)
  <2>1. /\ asked < MaxCards /\ asked' = asked + 1 /\ raced' = raced
        /\ latest' \in {latest, asked + 1} /\ pc[r] = "card"
        /\ cards' = [cards EXCEPT ![number[r]] = asked + 1]
           \/ cards' = [cards EXCEPT ![number[r]] = None]
        /\ halves' \in {halves \ {number[r]}, halves \cup {number[r]}}
        /\ number' \in {number, [number EXCEPT ![r] = None]}
    BY <1>4 DEF WriteCard, DieWriting, Killed, Leave
  <2>2. asked + 1 \in 0 .. MaxCards /\ asked + 1 \in None .. MaxCards
    BY <1>1, <1>2, <2>1
  <2>3. number[r] \in Written
    BY <1>1, <2>1 DEF NumbersUsed
  <2>4. None \in None .. MaxCards
    BY <1>2
  <2>5. number' \in [Loops -> None .. MaxCards] /\ halves' \in SUBSET Written
    BY <1>1, <2>1, <2>3, <2>4
  <2>6. cards' \in [Written -> None .. MaxCards]
    BY <1>1, <2>1, <2>2, <2>4
  <2> QED
    BY <1>1, <2>1, <2>2, <2>5, <2>6
<1>5. ASSUME UNCHANGED board, number' = number \/ number' = [number EXCEPT ![r] = None]
      PROVE  BoardTyped'
  <2>1. None \in None .. MaxCards
    BY <1>2
  <2>2. number' \in [Loops -> None .. MaxCards]
    BY <1>1, <1>5, <2>1
  <2> QED
    BY <1>1, <1>5, <2>2
<1>6. CASE Start(r) \/ GoodWave(r) \/ BadWave(r)
  BY <1>5, <1>6 DEF Start, GoodWave, BadWave
<1>7. CASE Satisfied(r) \/ Die(r) \/ DieAnnouncing(r) \/ Resume(r)
  BY <1>5, <1>7 DEF Satisfied, Die, DieAnnouncing, Killed, Resume, Leave
<1>8. CASE Replan(r) \/ Announce(r) \/ Park(r)
  BY <1>5, <1>8 DEF Replan, Announce, Park
<1> QED
  BY <1>3, <1>4, <1>6, <1>7, <1>8 DEF Step

LEMMA TicketTypeStep ==
  ASSUME StallInv, Next PROVE TicketTyped'
<1> USE DEF ticket
<1>1. TicketTyped /\ BoardTyped /\ TypeOK /\ NumbersUsed
  BY TypeParts DEF StallInv
<1>2. CASE Answer
  BY <1>1, <1>2 DEF Answer, TicketTyped
<1>3. ASSUME NEW r \in Loops, Step(r) PROVE TicketTyped'
  <2>1. CASE Park(r)
    <3>1. cards[number[r]] \in None .. MaxCards
      BY <1>1, <2>1 DEF Park, NumbersUsed, BoardTyped
    <3> QED
      BY <1>1, <2>1, <3>1 DEF Park, TicketTyped
  <2>2. CASE Resume(r)
    <3>1. Readable # {} /\ Readable \subseteq Written
      BY <2>2 DEF Resume, Readable
    <3>2. Found \in Readable
      BY <1>1, <3>1, FoundIs
    <3>3. cards[Found] \in None .. MaxCards
      <4> HIDE DEF Found, Readable
      <4> QED
        BY <1>1, <3>1, <3>2 DEF BoardTyped
    <3>4. latest \in None .. MaxCards
      BY <1>1 DEF BoardTyped
    <3> HIDE DEF Found, Readable
    <3> QED
      BY <1>1, <2>2, <3>3, <3>4 DEF Resume, TicketTyped
  <2>3. ASSUME UNCHANGED ticket PROVE TicketTyped'
    BY <1>1, <2>3 DEF TicketTyped
  <2>4. CASE Start(r) \/ GoodWave(r) \/ BadWave(r) \/ Satisfied(r) \/ Die(r)
             \/ DieAnnouncing(r) \/ DieWriting(r)
    BY <2>3, <2>4 DEF Start, GoodWave, BadWave, Satisfied, Die, DieAnnouncing, DieWriting
  <2>5. CASE Replan(r) \/ Announce(r) \/ Choose(r) \/ WriteCard(r)
    BY <2>3, <2>5 DEF Replan, Announce, Choose, WriteCard
  <2> QED
    BY <1>3, <2>1, <2>2, <2>4, <2>5 DEF Step
<1>4. CASE OtherEmits
  BY <1>1, <1>4 DEF OtherEmits, TicketTyped
<1> QED
  BY <1>2, <1>3, <1>4 DEF Next

LEMMA StallInvStep == ASSUME StallInv, [Next]_vars PROVE StallInv'
<1>1. TypeOK'
  <2>1. CASE UNCHANGED vars
    BY <2>1 DEF StallInv, TypeOK, vars, loop, counts, events, board, ticket
  <2>2. CASE Answer
    <3>1. LoopTyped' /\ BoardTyped'
      BY <2>2, TypeParts DEF Answer, StallInv, LoopTyped, BoardTyped, loop, counts, events, board
    <3>2. TicketTyped'
      BY <2>2, TicketTypeStep DEF Next
    <3> QED
      BY <3>1, <3>2 DEF TypeOK, LoopTyped, BoardTyped, TicketTyped
  <2>4. CASE OtherEmits
    <3>1. deaths' \in 0 .. MaxDeaths
      BY <2>4, StallAssumption DEF OtherEmits, StallInv, TypeOK
    <3>2. LoopTyped' /\ BoardTyped'
      BY <2>4, <3>1, TypeParts
         DEF OtherEmits, StallInv, LoopTyped, BoardTyped, loop, board
    <3>3. TicketTyped'
      BY <2>4, TicketTypeStep DEF Next
    <3> QED
      BY <3>2, <3>3 DEF TypeOK, LoopTyped, BoardTyped, TicketTyped
  <2>3. ASSUME NEW r \in Loops, Step(r) PROVE TypeOK'
    <3>1. LoopTyped' /\ BoardTyped' /\ TicketTyped'
      BY <2>3, LoopTypeStep, BoardTypeStep, TicketTypeStep DEF Next
    <3> QED
      BY <3>1 DEF TypeOK, LoopTyped, BoardTyped, TicketTyped
  <2> QED
    BY <2>1, <2>2, <2>3, <2>4 DEF Next
<1> QED
  BY <1>1, CountersStep, EventsStep, NumbersStep, ResumeStep DEF StallInv, NumbersInv

(* In every reachable state of any number of loops on one anchor ticket the *)
(* counters account for the waves that step_inner_loop has judged, and the  *)
(* numbers of the cards follow those that raise_stall_interrupt_card wrote. *)
THEOREM StallInvariant == Spec => []StallInv
<1>1. Init => StallInv
  BY InitStallInv
<1>2. StallInv /\ [Next]_vars => StallInv'
  BY StallInvStep
<1> QED
  BY <1>1, <1>2, PTL DEF Spec

-------------------------------------------------------------------------------
(* The plans that a loop has given up have cost no more than all it has.    *)
LEMMA SpentBounded ==
  ASSUME TypeOK, NEW r \in Loops
  PROVE  Spent(r) \in Nat /\ Spent(r) <= Budget * (Threshold + 1)
<1> USE StallAssumption
<1> DEFINE used == Budget - replans[r]
           cost == Threshold + 1
<1>1. used \in Nat /\ replans[r] \in Nat /\ used + replans[r] = Budget /\ cost \in Nat
  BY DEF TypeOK
<1>2. \A m, n, k \in Nat : m * k \in Nat /\ (m + n) * k = m * k + n * k
  OBVIOUS
<1>3. Spent(r) = used * cost
  BY DEF Spent
<1> HIDE DEF used, cost
<1>4. (used + replans[r]) * cost = used * cost + replans[r] * cost
      /\ used * cost \in Nat /\ replans[r] * cost \in Nat
  BY <1>1, <1>2
<1>5. Budget * cost = used * cost + replans[r] * cost
  BY <1>1, <1>4
<1>6. Spent(r) \in Nat /\ Spent(r) <= Budget * cost
  BY <1>3, <1>4, <1>5
<1> QED
  BY <1>6 DEF cost

(* The state of the loops, the cards and the ticket stays well typed: the   *)
(* counter of update_stall passes the threshold by one at most, and         *)
(* _next_card_id has a number to give.                                      *)
THEOREM TypeCorrect == Spec => []TypeOK
<1>1. StallInv => TypeOK
  BY DEF StallInv
<1> QED
  BY <1>1, StallInvariant, PTL

(* A loop that gets nowhere does not go on: run_inner_loop keeps judging    *)
(* waves only while those without progress exceed those with it by less     *)
(* than uses up every plan and the threshold of each, whatever their order. *)
THEOREM LoopPauses == Spec => []StuckLoopPauses
<1>1. StallInv => StuckLoopPauses
  <2> SUFFICES ASSUME StallInv, NEW r \in Loops, pc[r] = "wave"
               PROVE  bad[r] - good[r] < (Budget + 1) * (Threshold + 1)
    BY DEF StuckLoopPauses
  <2> USE StallAssumption DEF StallInv, TypeOK
  <2>1. /\ bad[r] - good[r] <= Spent(r) + stall[r]
        /\ stall[r] <= Threshold /\ stall[r] \in Nat
        /\ bad[r] \in Nat /\ good[r] \in Nat
    BY DEF CountersMatch, Matches, Accounted
  <2>2. Spent(r) \in Nat /\ Spent(r) <= Budget * (Threshold + 1)
    BY SpentBounded
  <2>3. /\ (Budget + 1) * (Threshold + 1) = Budget * (Threshold + 1) + (Threshold + 1)
        /\ Budget * (Threshold + 1) \in Nat
    <3>1. \A m, k \in Nat : m * k \in Nat /\ (m + 1) * k = m * k + k
      OBVIOUS
    <3>2. Budget \in Nat /\ Threshold + 1 \in Nat
      OBVIOUS
    <3> QED
      BY <3>1, <3>2
  <2> DEFINE all == Budget * (Threshold + 1)
  <2>4. /\ (Budget + 1) * (Threshold + 1) = all + (Threshold + 1)
        /\ all \in Nat /\ Spent(r) <= all
    BY <2>2, <2>3
  <2> HIDE DEF all
  <2>5. bad[r] - good[r] < all + (Threshold + 1)
    BY <2>1, <2>2, <2>4
  <2> QED
    BY <2>4, <2>5
<1> QED
  BY <1>1, StallInvariant, PTL

(* A loop raises its interrupt card only after enough waves without         *)
(* progress to use up every plan: step_inner_loop gives none up early,      *)
(* however good and bad waves were mixed and wherever a replan reset the    *)
(* counter.                                                                 *)
THEOREM PauseEarned == Spec => []PauseIsEarned
<1>1. StallInv => PauseIsEarned
  BY DEF StallInv, CountersMatch, Matches, PauseIsEarned
<1> QED
  BY <1>1, StallInvariant, PTL

(* The "replanned" events of step_inner_loop and the task ledgers that      *)
(* _regenerate_task_ledger wrote agree, but for those that a dead loop did  *)
(* not come to announce, and iter_events passes over no more of them than   *)
(* processes have died in the middle of a line.                             *)
THEOREM ReplansAnnounced == Spec => []EventsMatchReplans
<1>1. StallInv => EventsMatchReplans
  BY DEF StallInv
<1> QED
  BY <1>1, StallInvariant, PTL

(* raise_stall_interrupt_card overwrites no card, unless two loops chose    *)
(* their numbers with _next_card_id at once.                                *)
THEOREM NoCardLost == Spec => []CardsKept
<1>1. StallInv => CardsKept
  BY DEF StallInv
<1> QED
  BY <1>1, StallInvariant, PTL

(* find_interrupt_card reads the card that was written last, although it    *)
(* compares names as text, unless loops raced or the numbers have come to   *)
(* another digit.                                                           *)
THEOREM NewestFound == Spec => []NewestCardIsFound
<1>1. StallInv => NewestCardIsFound
  BY DEF StallInv
<1> QED
  BY <1>1, StallInvariant, PTL
===============================================================================
