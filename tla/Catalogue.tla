----------------------------- MODULE Catalogue -----------------------------
(***************************************************************************)
(* The catalogue of cards, which the command card:seed deletes and fills   *)
(* again in parallel, while the service draws random cards from it.        *)
(*                                                                         *)
(* The command runs as a process of its own beside the service: deleteAll, *)
(* doParallelJob with one doSeed per chunk, pinFactory; when one chunk     *)
(* rejects the process exits, and the others with it.  A draw is a call of *)
(* getRandomCardsWithRandomValue; what it is for is the business of Card.  *)
(* tokenUri is the hash of a card's attributes, so a card and its uri are  *)
(* one.  A draw that finds nothing draws again: it changes no state.       *)
(***************************************************************************)
EXTENDS Integers, Sequences, FiniteSetsExt, Functions

CONSTANTS List,     \* the cards of cards-seed.json, one entry per level
          Jobs,     \* chunks that are seeded in parallel, 100 in the code
          Wants,    \* what draws are asked for: type, highest level and rarity
          Callers,  \* draws that can be in flight at once
          NoCard,   \* no card
          MaxSeeds, \* bound: runs of the command
          MaxFaults \* bound: failures, and interruptions of the command

Cards == Range(List)
Want == [type: {"MONSTER", "EQUIPMENT"}, level: Nat, rare: Nat]
Card == [name: STRING, type: {"MONSTER", "EQUIPMENT"}, level: Nat, rare: Nat,
         start: Nat, end: Nat]

ASSUME ListAssumption == /\ List \in Seq(Card) /\ List # <<>>
                         /\ \A i, j \in 1..Len(List) : List[i] = List[j] => i = j
                         /\ \A c \in Cards : c.start < c.end
ASSUME WantAssumption == Wants \subseteq Want /\ Wants # {} /\ NoCard \notin Cards
ASSUME CatalogueBoundAssumption == /\ Jobs \in Nat \ {0}
                                   /\ MaxSeeds \in Nat
                                   /\ MaxFaults \in Nat

VARIABLES
  catalogue, \* the cards collection
  factory,   \* the cards that the contract's factory URI lists, {}: none yet
  command,   \* the run of card:seed
  draws,     \* the draws in flight
  issued     \* runs of the command and failures so far

vars == <<catalogue, factory, command, draws, issued>>

Highest(cards) == Max({c.end : c \in cards})

Idle == [pc |-> "idle", rest |-> [j \in 1..Jobs |-> <<>>], seen |-> {}]
NoDraw == [pc |-> "idle", want |-> CHOOSE w \in Wants : TRUE, maxInt |-> 0, card |-> NoCard]

TypeOK ==
  /\ catalogue \subseteq Cards
  /\ factory \subseteq Cards
  /\ command \in [pc: {"idle", "delete", "seed", "failing", "read", "pin"},
                  rest: [1..Jobs -> Seq(Cards)], seen: SUBSET Cards]
  /\ draws \in [Callers -> [pc: {"idle", "max", "draw", "done", "rejected"},
                            want: Wants, maxInt: 0..Highest(Cards),
                            card: Cards \cup {NoCard}]]
  /\ \A d \in Callers : draws[d].pc = "done" <=> draws[d].card # NoCard
  /\ issued \in [seed: 0..MaxSeeds, fault: 0..MaxFaults]

Init ==
  /\ catalogue = {}
  /\ factory = {}
  /\ command = Idle
  /\ draws = [d \in Callers |-> NoDraw]
  /\ issued = [seed |-> 0, fault |-> 0]

Fault == issued.fault < MaxFaults /\ issued' = [issued EXCEPT !.fault = @ + 1]

-----------------------------------------------------------------------------
(* card:seed                                                               *)

\* A mutation of PerJob: the division rounds down.
PerJobFloor == Len(List) \div Jobs

\* Math.ceil(cardsData.length / numsOfJob).
PerJob == (Len(List) + Jobs - 1) \div Jobs

\* cardsData.slice(index * numsPerJob, index * numsPerJob + numsPerJob): the last
\* chunks may be short, or empty.
Chunk(j) ==
  SubSeq(List, (j - 1) * PerJob + 1,
         IF j * PerJob < Len(List) THEN j * PerJob ELSE Len(List))

Seed ==
  /\ command.pc = "idle" /\ issued.seed < MaxSeeds
  /\ command' = [Idle EXCEPT !.pc = "delete"]
  /\ issued' = [issued EXCEPT !.seed = @ + 1]
  /\ UNCHANGED <<catalogue, factory, draws>>

\* deleteMany is not atomic: a draw may meet any part of the catalogue.
DeleteAll ==
  /\ command.pc = "delete"
  /\ \E left \in SUBSET catalogue :
       /\ catalogue' = left
       /\ IF left = {} THEN command' = [Idle EXCEPT !.pc = "seed",
                                                    !.rest = [j \in 1..Jobs |-> Chunk(j)]]
          ELSE left # catalogue /\ UNCHANGED command
  /\ UNCHANGED <<factory, draws, issued>>

\* createCard; a second card with the same tokenUri would be a duplicate key.
CreateCard(j) ==
  LET card == Head(command.rest[j]) IN
  /\ command.pc \in {"seed", "failing"} /\ command.rest[j] # <<>>
  /\ card \notin catalogue
  /\ catalogue' = catalogue \cup {card}
  /\ command' = [command EXCEPT !.rest[j] = Tail(@)]
  /\ UNCHANGED <<factory, draws, issued>>

\* The upload or the write rejects, maybe after the card was saved, and doSeed
\* rethrows.  The other chunks go on until the process exits.
ChunkRejects(j) ==
  LET card == Head(command.rest[j]) IN
  /\ command.pc \in {"seed", "failing"} /\ command.rest[j] # <<>>
  /\ IF card \in catalogue THEN UNCHANGED issued ELSE Fault
  /\ catalogue' \in {catalogue, catalogue \cup {card}}
  /\ command' = [command EXCEPT !.pc = "failing", !.rest[j] = <<>>]
  /\ UNCHANGED <<factory, draws>>

\* Promise.all resolves.
Seeded ==
  /\ command.pc = "seed" /\ \A j \in 1..Jobs : command.rest[j] = <<>>
  /\ command' = [command EXCEPT !.pc = "read"]
  /\ UNCHANGED <<catalogue, factory, draws, issued>>

\* pinFactory: getAllCard.
ReadAll ==
  /\ command.pc = "read"
  /\ command' = [command EXCEPT !.pc = "pin", !.seen = catalogue]
  /\ UNCHANGED <<catalogue, factory, draws, issued>>

\* putObject and setFactoryURI, whose receipt may be lost.
Pin ==
  /\ command.pc = "pin"
  /\ \/ factory' = command.seen /\ UNCHANGED issued
     \/ factory' \in {factory, command.seen} /\ Fault
  /\ command' = Idle
  /\ UNCHANGED <<catalogue, draws>>

\* process.exit(1), after Promise.all has rejected.
Exit ==
  /\ command.pc = "failing"
  /\ command' = Idle
  /\ UNCHANGED <<catalogue, factory, draws, issued>>

\* The operator interrupts the command, or its process dies.
Interrupt ==
  /\ command.pc # "idle"
  /\ Fault
  /\ command' = Idle
  /\ UNCHANGED <<catalogue, factory, draws>>

-----------------------------------------------------------------------------
(* getRandomCardsWithRandomValue                                           *)

BeginDraw(d, want) ==
  /\ draws[d].pc = "idle"
  /\ draws' = [draws EXCEPT ![d] = [NoDraw EXCEPT !.pc = "max", !.want = want]]
  /\ UNCHANGED <<catalogue, factory, command, issued>>

\* getMaxCardSeed: an empty catalogue has no card whose endSeed could be read,
\* and the draw rejects with a TypeError.
ReadMax(d) ==
  /\ draws[d].pc = "max"
  /\ \/ /\ catalogue # {}
        /\ draws' = [draws EXCEPT ![d].pc = "draw", ![d].maxInt = Highest(catalogue)]
        /\ UNCHANGED issued
     \/ /\ IF catalogue = {} THEN UNCHANGED issued ELSE Fault
        /\ draws' = [draws EXCEPT ![d].pc = "rejected"]
  /\ UNCHANGED <<catalogue, factory, command>>

\* A mutation of Fits: the slice of RareLevels leaves the highest one out.
FitsBelow(card, want) ==
  card.type = want.type /\ card.level <= want.level /\ card.rare < want.rare

\* The type, level and acceptRareLevels of the query.
Fits(card, want) ==
  card.type = want.type /\ card.level <= want.level /\ card.rare <= want.rare

\* findOne for the random number: any card that fits, if there is one.
Found(number, want) ==
  {c \in catalogue : c.start <= number /\ number < c.end /\ Fits(c, want)}

\* A mutation of Take: what is found is not looked at.
TakeAnything(d) ==
  /\ draws[d].pc = "draw"
  /\ \E number \in 0..(draws[d].maxInt - 1) :
       LET found == Found(number, draws[d].want) IN
       \E c \in IF found = {} THEN {NoCard} ELSE found :
         draws' = [draws EXCEPT ![d].pc = "done", ![d].card = c]
  /\ UNCHANGED <<catalogue, factory, command, issued>>

\* The random numbers go from 0 to maxInt - 1, whatever the catalogue holds by now.
Take(d) ==
  /\ draws[d].pc = "draw"
  /\ \E number \in 0..(draws[d].maxInt - 1) :
       \E c \in Found(number, draws[d].want) :
         draws' = [draws EXCEPT ![d].pc = "done", ![d].card = c]
  /\ UNCHANGED <<catalogue, factory, command, issued>>

FindRejects(d) ==
  /\ draws[d].pc = "draw"
  /\ Fault
  /\ draws' = [draws EXCEPT ![d].pc = "rejected"]
  /\ UNCHANGED <<catalogue, factory, command>>

\* The caller goes on with the card, or refunds the fee.
Settle(d) ==
  /\ draws[d].pc \in {"done", "rejected"}
  /\ draws' = [draws EXCEPT ![d] = NoDraw]
  /\ UNCHANGED <<catalogue, factory, command, issued>>

-----------------------------------------------------------------------------
RunSeed ==
  \/ DeleteAll \/ Seeded \/ ReadAll \/ Pin \/ Exit
  \/ \E j \in 1..Jobs : CreateCard(j)

Next ==
  \/ Seed \/ RunSeed \/ Interrupt
  \/ \E j \in 1..Jobs : ChunkRejects(j)
  \/ \E d \in Callers : \/ \E want \in Wants : BeginDraw(d, want)
                        \/ ReadMax(d) \/ Take(d) \/ FindRejects(d) \/ Settle(d)

Spec == Init /\ [][Next]_vars

\* A run of the command goes on, and a draw whose random numbers can hit a card
\* forever hits one.  Nobody has to run the command.
FairSpec ==
  /\ Spec /\ WF_vars(RunSeed)
  /\ \A d \in Callers : WF_vars(ReadMax(d)) /\ WF_vars(Take(d))

-----------------------------------------------------------------------------
(* Properties                                                              *)

\* What is pinned is the whole list, each card once, although it is cut into
\* chunks that are seeded in parallel and may fail, be interrupted and run again.
PinnedWhole == factory \in {{}, Cards}

\* A draw whose maxInt was read off the last card settles, even if the catalogue
\* is deleted under it, unless a run of the command leaves the catalogue broken.
\* (One that read maxInt while the catalogue was being filled may never hit a
\* card that fits.)
DrawSettles ==
  \A d \in Callers :
    draws[d].pc = "draw" /\ draws[d].maxInt = Highest(Cards) ~>
      draws[d].pc # "draw" \/ (command.pc = "idle" /\ catalogue # Cards)
=============================================================================
