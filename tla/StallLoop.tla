------------------------------ MODULE StallLoop ------------------------------
(***************************************************************************)
(* The inner loop of scripts/check_ledger.py and the questions it asks. A  *)
(* loop judges one wave after another, asks for another plan when the run  *)
(* stalls, and when the plans are used up writes an interrupt card for its *)
(* anchor ticket. scripts/interrupt_roundtrip.py then finds the card again *)
(* when the ticket holds an answer. Loops of several runs may share a      *)
(* ticket. Cards are numbered in the order in which they are written.      *)
(***************************************************************************)
EXTENDS Integers, FiniteSets

CONSTANTS
  Loops,      \* the runs whose loops share the anchor ticket
  Threshold,  \* STALL_THRESHOLD
  Budget,     \* max_replans of a loop that starts
  Base,       \* of the numbers in file names: ten
  MaxWaves,   \* bound on the waves of a loop
  MaxCards,   \* bound on the cards
  MaxDeaths   \* bound on the processes that die

ASSUME StallAssumption ==
  /\ Threshold \in Nat /\ Budget \in Nat
  /\ Base \in Nat \ {0, 1}
  /\ MaxWaves \in Nat /\ MaxCards \in Nat /\ MaxDeaths \in Nat
  /\ MaxCards < Base * Base

VARIABLES
  pc,         \* where each loop is
  stall,      \* LoopState.stall
  replans,    \* LoopState.max_replans
  bad, good,  \* history: the waves without and with progress since the start
  silent,     \* history: the task ledgers regenerated less the events of them
  cut,        \* whether the event store ends in half a line
  swallowed,  \* history: how many events were glued to half a line
  deaths,     \* how many loops, and other writers of the store, died
  number,     \* the number a loop has chosen for its card
  cards,      \* the cards in board/interrupts that can be read, by number
  halves,     \* the numbers of those that are half written
  asked,      \* how many cards were written, whole or half
  latest,     \* history: the last that was written whole
  raced,      \* history: whether two loops were choosing a number at once
  status,     \* of the anchor ticket
  question,   \* history: the card for which the ticket was interrupted
  answer,     \* the card its first resume: line was written for
  resumed     \* the last resumption: what was asked, answered and found

loop == <<stall, replans, bad, good>>
board == <<cards, halves, asked, latest, raced>>
ticket == <<status, question, answer, resumed>>
events == <<silent, cut, swallowed>>
counts == <<events, deaths>>
vars == <<pc, loop, counts, number, board, ticket>>

PCs == {"idle", "wave", "replan", "announce", "number", "card", "paused", "parked"}
None == 0                \* no card
Written == 1 .. MaxCards

Goto(r, there) == pc' = [pc EXCEPT ![r] = there]
Inc(f, r) == [f EXCEPT ![r] = @ + 1]

Init ==
  /\ pc = [r \in Loops |-> "idle"]
  /\ stall = [r \in Loops |-> 0] /\ replans = [r \in Loops |-> Budget]
  /\ bad = [r \in Loops |-> 0] /\ good = [r \in Loops |-> 0]
  /\ silent = [r \in Loops |-> 0] /\ cut = FALSE /\ swallowed = 0 /\ deaths = 0
  /\ number = [r \in Loops |-> None]
  /\ cards = [n \in Written |-> None] /\ halves = {}
  /\ asked = 0 /\ latest = None /\ raced = FALSE
  /\ status = "open" /\ question = None /\ answer = None
  /\ resumed = [question |-> None, answer |-> None, card |-> None, newest |-> None]

-------------------------------------------------------------------------------
(* run_inner_loop with a new LoopState, which no file keeps.                 *)
Start(r) ==
  /\ pc[r] = "idle"
  /\ Goto(r, "wave")
  /\ UNCHANGED <<loop, counts, number, board, ticket>>

Leave(r) ==
  /\ Goto(r, "idle")
  /\ stall' = [stall EXCEPT ![r] = 0]
  /\ replans' = [replans EXCEPT ![r] = Budget]
  /\ bad' = [bad EXCEPT ![r] = 0] /\ good' = [good EXCEPT ![r] = 0]
  /\ number' = [number EXCEPT ![r] = None]

(* A wave with progress and no loop takes one off the counter.              *)
GoodWave(r) ==
  /\ pc[r] = "wave"
  /\ bad[r] + good[r] < MaxWaves
  /\ good' = Inc(good, r)
  /\ stall' = [stall EXCEPT ![r] = IF @ = 0 THEN 0 ELSE @ - 1]
  /\ UNCHANGED <<pc, replans, bad, counts, number, board, ticket>>

BadWaveLate(r) ==   \* mutant: the counter has to pass the threshold by two
  /\ pc[r] = "wave"
  /\ bad[r] + good[r] < MaxWaves
  /\ bad' = Inc(bad, r)
  /\ IF stall[r] <= Threshold
     THEN stall' = Inc(stall, r) /\ UNCHANGED pc
     ELSE Goto(r, IF replans[r] > 0 THEN "replan" ELSE "number") /\ UNCHANGED stall
  /\ UNCHANGED <<replans, good, counts, number, board, ticket>>

BadWaveEarly(r) ==   \* mutant: the counter has to reach the threshold
  /\ pc[r] = "wave"
  /\ bad[r] + good[r] < MaxWaves
  /\ bad' = Inc(bad, r)
  /\ IF stall[r] + 1 < Threshold
     THEN stall' = Inc(stall, r) /\ UNCHANGED pc
     ELSE Goto(r, IF replans[r] > 0 THEN "replan" ELSE "number") /\ UNCHANGED stall
  /\ UNCHANGED <<replans, good, counts, number, board, ticket>>

(* Past the threshold, another plan is asked for or the run is paused.      *)
BadWave(r) ==
  /\ pc[r] = "wave"
  /\ bad[r] + good[r] < MaxWaves
  /\ bad' = Inc(bad, r)
  /\ IF stall[r] + 1 <= Threshold
     THEN stall' = Inc(stall, r) /\ UNCHANGED pc
     ELSE Goto(r, IF replans[r] > 0 THEN "replan" ELSE "number") /\ UNCHANGED stall
  /\ UNCHANGED <<replans, good, counts, number, board, ticket>>

Satisfied(r) ==
  /\ pc[r] = "wave"
  /\ Leave(r)
  /\ UNCHANGED <<counts, board, ticket>>

(* The task ledger is written before the counters, and the event after them. *)
Replan(r) ==
  /\ pc[r] = "replan"
  /\ silent' = Inc(silent, r)
  /\ replans' = [replans EXCEPT ![r] = @ - 1]
  /\ stall' = [stall EXCEPT ![r] = 0]
  /\ Goto(r, "announce")
  /\ UNCHANGED <<bad, good, cut, swallowed, deaths, number, board, ticket>>

(* EventStore.append: behind half a line the event is lost with it.         *)
Emit ==
  /\ swallowed' = swallowed + (IF cut THEN 1 ELSE 0)
  /\ cut' = FALSE

AnnounceAgain(r) ==   \* mutant: the event is repeated
  /\ pc[r] = "announce"
  /\ silent' = [silent EXCEPT ![r] = @ - 2]
  /\ Emit
  /\ Goto(r, "wave")
  /\ UNCHANGED <<loop, deaths, number, board, ticket>>

Announce(r) ==
  /\ pc[r] = "announce"
  /\ silent' = [silent EXCEPT ![r] = @ - 1]
  /\ Emit
  /\ Goto(r, "wave")
  /\ UNCHANGED <<loop, deaths, number, board, ticket>>

(* Readable cards and half-written ones take a number alike.                *)
Readable == {n \in Written : cards[n] # None}
Numbers == Readable \cup halves

NextUnlessTaken == IF Numbers = {} THEN 1 ELSE Cardinality(Numbers)   \* mutant: off by one

(* _next_card_id: one more than the greatest number there is.               *)
NextNumber == CHOOSE n \in 1 .. MaxCards + 1 :
                /\ \A m \in Numbers : m < n
                /\ n = 1 \/ n - 1 \in Numbers

Choose(r) ==
  /\ pc[r] = "number"
  /\ asked < MaxCards
  /\ number' = [number EXCEPT ![r] = NextNumber]
  /\ raced' = (raced \/ \E q \in Loops \ {r} : pc[q] = "card")
  /\ Goto(r, "card")
  /\ UNCHANGED <<loop, counts, cards, halves, asked, latest, ticket>>

(* raise_stall_interrupt_card writes the file, over whatever it holds.      *)
WriteCard(r) ==
  /\ pc[r] = "card"
  /\ asked < MaxCards
  /\ cards' = [cards EXCEPT ![number[r]] = asked + 1]
  /\ halves' = halves \ {number[r]}
  /\ asked' = asked + 1 /\ latest' = asked + 1
  /\ stall' = Inc(stall, r)
  /\ Goto(r, "paused")
  /\ UNCHANGED <<replans, bad, good, counts, number, raced, ticket>>

(* A kill, or a write that raises: the counters are lost, and what was      *)
(* written stays. An append and a card may be half done.                    *)
Killed(r) ==
  /\ pc[r] \notin {"idle", "parked"}
  /\ deaths < MaxDeaths
  /\ deaths' = deaths + 1
  /\ Leave(r)

Die(r) == Killed(r) /\ UNCHANGED <<events, board, ticket>>

DieAnnouncing(r) ==
  /\ pc[r] = "announce" /\ Killed(r)
  /\ cut' = TRUE
  /\ UNCHANGED <<silent, swallowed, board, ticket>>

DieWriting(r) ==
  /\ pc[r] = "card" /\ asked < MaxCards /\ Killed(r)
  /\ cards' = [cards EXCEPT ![number[r]] = None]
  /\ halves' = halves \cup {number[r]}
  /\ asked' = asked + 1
  /\ UNCHANGED <<events, latest, raced, ticket>>

(* The other writers of the store: their line is whole, or half of it.      *)
OtherEmits ==
  /\ \/ cut /\ cut' = FALSE /\ UNCHANGED deaths
     \/ deaths < MaxDeaths /\ deaths' = deaths + 1 /\ cut' = TRUE
  /\ UNCHANGED <<pc, loop, silent, swallowed, number, board, ticket>>

-------------------------------------------------------------------------------
(* The role that paused the run sets the ticket to "interrupted".           *)
Park(r) ==
  /\ pc[r] = "paused"
  /\ status = "open"
  /\ status' = "interrupted"
  /\ question' = cards[number[r]]
  /\ Goto(r, "parked")
  /\ UNCHANGED <<loop, counts, number, board, answer, resumed>>

(* The Founder writes a resume: line into the ticket, above or below those  *)
(* that it has: nothing takes a line away.                                  *)
Answer ==
  /\ status = "interrupted"
  /\ answer' \in {question} \cup ({answer} \ {None})
  /\ UNCHANGED <<pc, loop, counts, number, board, status, question, resumed>>

(* Names are compared as text: "-10" comes before "-9".                     *)
Lead(n) == IF n < Base THEN n ELSE n \div Base
NameBefore(m, n) == Lead(m) < Lead(n) \/ (Lead(m) = Lead(n) /\ m < n)

FirstFound ==   \* mutant: the first name and not the last
  CHOOSE n \in Readable : \A m \in Readable \ {n} : NameBefore(n, m)

(* find_interrupt_card passes over a card that it cannot parse.             *)
Found == CHOOSE n \in Readable : \A m \in Readable \ {n} : NameBefore(m, n)

(* detect_resumed_tickets: all cards of this kind have the same options.    *)
Resume(r) ==
  /\ pc[r] = "parked"
  /\ status = "interrupted"
  /\ answer # None
  /\ Readable # {}
  /\ resumed' = [question |-> question, answer |-> answer,
                 card |-> cards[Found], newest |-> latest]
  /\ status' = "open"
  /\ Leave(r)
  /\ UNCHANGED <<counts, board, question, answer>>

Step(r) ==
  \/ Start(r) \/ GoodWave(r) \/ BadWave(r) \/ Satisfied(r)
  \/ Replan(r) \/ Announce(r) \/ Choose(r) \/ WriteCard(r)
  \/ Die(r) \/ DieAnnouncing(r) \/ DieWriting(r) \/ Park(r) \/ Resume(r)

Next == Answer \/ OtherEmits \/ \E r \in Loops : Step(r)

Spec == Init /\ [][Next]_vars

-------------------------------------------------------------------------------
TypeOK ==
  /\ pc \in [Loops -> PCs]
  /\ stall \in [Loops -> 0 .. Threshold + 1]
  /\ replans \in [Loops -> 0 .. Budget]
  /\ bad \in [Loops -> Nat] /\ good \in [Loops -> Nat]
  /\ silent \in [Loops -> Nat] /\ cut \in BOOLEAN /\ swallowed \in Nat
  /\ deaths \in 0 .. MaxDeaths
  /\ number \in [Loops -> None .. MaxCards]
  /\ cards \in [Written -> None .. MaxCards]
  /\ halves \in SUBSET Written
  /\ asked \in 0 .. MaxCards /\ latest \in None .. MaxCards
  /\ raced \in BOOLEAN
  /\ status \in {"open", "interrupted"}
  /\ question \in None .. MaxCards /\ answer \in None .. MaxCards
  /\ resumed \in [question : None .. MaxCards, answer : None .. MaxCards,
                  card : None .. MaxCards, newest : None .. MaxCards]

Asking == {"number", "card", "paused", "parked"}

(* A loop that gets nowhere does not go on: as long as it is not asking,    *)
(* the waves without progress exceed those with it by less than what uses   *)
(* up every plan and the threshold of each.                                 *)
StuckLoopPauses ==
  \A r \in Loops : pc[r] = "wave" =>
    bad[r] - good[r] < (Budget + 1) * (Threshold + 1)

(* A loop asks only after that many waves without progress, however they    *)
(* were mixed with others: no plan is given up early.                       *)
PauseIsEarned ==
  \A r \in Loops : pc[r] \in Asking => bad[r] >= (Budget + 1) * (Threshold + 1)

(* Every "replanned" event stands for a task ledger that was regenerated,   *)
(* and every one of those is announced, but for those of loops that died;   *)
(* and no more of the events are lost to readers than processes have died   *)
(* and left half a line.                                                    *)
EventsMatchReplans ==
  /\ \A r \in Loops :
       silent[r] \in 0 .. deaths + (IF pc[r] = "announce" THEN 1 ELSE 0)
  /\ swallowed + (IF cut THEN 1 ELSE 0) <= deaths

(* Every card that was ever written whole is still in the directory, under  *)
(* a number of its own, unless two loops chose their numbers at once.       *)
CardsKept ==
  raced \/ cards = [n \in Written |->
                     IF n <= asked /\ n \notin halves THEN n ELSE None]

(* A resumption reads the card that was last written whole, unless loops    *)
(* raced or the numbers have come to another digit.                         *)
NewestCardIsFound ==
  raced \/ resumed.newest >= Base \/ resumed.card = resumed.newest

(* An unanswered question stays parked: a ticket is resumed with an answer  *)
(* that was given to the question it was interrupted for.                   *)
UnansweredStaysParked == resumed.answer = resumed.question
===============================================================================
