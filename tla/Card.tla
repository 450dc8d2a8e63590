-------------------------------- MODULE Card --------------------------------
(***************************************************************************)
(* The card tokens: CardService.mint (a player buys a random card), award  *)
(* (the winner of a match is given one) and levelUpCard (two equal cards   *)
(* make one of the next level), over the token contract, and the cards     *)
(* that an operator mints with seed:mint.                                  *)
(*                                                                         *)
(* A card of the catalogue is a name and a level.  The seeded draw of      *)
(* getRandomCardsWithRandomValue is a choice among the cards it accepts.   *)
(* The contract is external: safeMint adds a token, levelUp burns the      *)
(* sacrifices and adds one, and reverts when one of them does not exist.   *)
(***************************************************************************)
EXTENDS Integers, FiniteSets, Functions, Maps

CONSTANTS Users,      \* players
          Slots,      \* <<user, tab>>: the calls that can be in flight at once
          Names,      \* the names of the catalogue
          TopLevel,   \* the highest level of the catalogue
          MaxTokens,  \* bound: tokens ever minted
          MaxMoves,   \* bound: tokens that change hands
          MaxFaults,  \* bound: external operations that fail
          MaxCrashes  \* bound: restarts of the process

ASSUME CallAssumption == /\ IsFiniteSet(Users) /\ IsFiniteSet(Slots)
                         /\ \A s \in Slots : s[1] \in Users
ASSUME CardBoundAssumption == /\ TopLevel \in Nat \ {0}
                              /\ MaxTokens \in Nat
                              /\ MaxMoves \in Nat
                              /\ MaxFaults \in Nat
                              /\ MaxCrashes \in Nat

VARIABLES
  tokens,  \* the contract: token id -> owner, name and level
  account, \* user -> fees paid, fees refunded, cards bought
  given,   \* the worth of the cards minted by award and by seed:mint
  calls,   \* the frames of the calls in flight
  issued   \* token ids given out, moves, failures and restarts so far

vars == <<tokens, account, given, calls, issued>>

TokenIds == 1..MaxTokens
Levels == 1..TopLevel
Token == [owner: Users, name: Names, level: Levels]
Account == [paid: Nat, refunded: Nat, bought: Nat]
CallPC == {"idle", "mint", "refund", "readCards", "levelUp"}
IdleFrame == [pc |-> "idle", ids |-> {}, next |-> <<>>, moved |-> FALSE]

TypeOK ==
  /\ DOMAIN tokens \subseteq TokenIds /\ \A t \in DOMAIN tokens : tokens[t] \in Token
  /\ account \in [Users -> Account]
  /\ given \in Nat
  /\ calls \in [Slots -> [pc: CallPC, ids: SUBSET TokenIds,
                          next: (Names \X Levels) \cup {<<>>}, moved: BOOLEAN]]
  /\ issued \in [token: 0..MaxTokens, move: 0..MaxMoves, fault: 0..MaxFaults,
                 costly: 0..MaxFaults, crash: 0..MaxCrashes]

Init ==
  /\ tokens = <<>>
  /\ account = [u \in Users |-> [paid |-> 0, refunded |-> 0, bought |-> 0]]
  /\ given = 0
  /\ calls = [s \in Slots |-> IdleFrame]
  /\ issued = [token |-> 0, move |-> 0, fault |-> 0, costly |-> 0, crash |-> 0]

-----------------------------------------------------------------------------
Goto(s, next) == calls' = [calls EXCEPT ![s].pc = next]
Return(s) == calls' = [calls EXCEPT ![s] = IdleFrame]

\* An external operation rejects.  It is costly when the service cannot undo
\* what it stands for: a receipt that is lost, or a refund that is not sent.
Count(costly, minted) ==
  [issued EXCEPT !.fault = @ + 1, !.costly = @ + costly, !.token = @ + minted]
Fault == issued.fault < MaxFaults /\ issued' = Count(0, 0)
CostlyFault == issued.fault < MaxFaults /\ issued' = Count(1, 0)

Tally(u, field) == account' = [account EXCEPT ![u][field] = @ + 1]

\* The contract's safeMint, with the next id.
CanMint == issued.token < MaxTokens
SafeMint(u, name, level, count) ==
  /\ tokens' = With(tokens, count.token, [owner |-> u, name |-> name, level |-> level])
  /\ issued' = count

-----------------------------------------------------------------------------
(* mint                                                                    *)

\* The fee is paid; nothing catches a failure here, not even of the receipt.
Pay(s) ==
  /\ calls[s].pc = "idle" /\ CanMint
  /\ \/ Tally(s[1], "paid") /\ Goto(s, "mint") /\ UNCHANGED issued
     \/ Fault /\ UNCHANGED <<calls, account>>
     \/ CostlyFault /\ Tally(s[1], "paid") /\ UNCHANGED calls
  /\ UNCHANGED <<tokens, given>>

\* A mutation of Mint: a failure is not refunded.
MintNoRefund(s) ==
  /\ calls[s].pc = "mint" /\ CanMint
  /\ \/ /\ \E n \in Names : SafeMint(s[1], n, 1, [issued EXCEPT !.token = @ + 1])
        /\ Tally(s[1], "bought")
     \/ Fault /\ UNCHANGED <<tokens, account>>
  /\ Return(s)
  /\ UNCHANGED given

\* The draw of a common card of level 1, the proof and safeMint.  All of it is
\* in the try block: a failure goes to the refund, and so does a receipt that
\* is lost after the card was minted.
Mint(s) ==
  /\ calls[s].pc = "mint" /\ CanMint
  /\ \/ /\ \E n \in Names : SafeMint(s[1], n, 1, [issued EXCEPT !.token = @ + 1])
        /\ Tally(s[1], "bought")
        /\ Return(s)
     \/ Fault /\ Goto(s, "refund") /\ UNCHANGED <<tokens, account>>
     \/ /\ issued.fault < MaxFaults
        /\ \E n \in Names : SafeMint(s[1], n, 1, Count(1, 1))
        /\ Tally(s[1], "bought")
        /\ Goto(s, "refund")
  /\ UNCHANGED given

Refund(s) ==
  /\ calls[s].pc = "refund"
  /\ \/ Tally(s[1], "refunded") /\ UNCHANGED issued
     \/ CostlyFault /\ UNCHANGED account
  /\ Return(s)
  /\ UNCHANGED <<tokens, given>>

\* award, called by endMatch: any level 1 card.
Award(u) ==
  /\ CanMint
  /\ \E n \in Names : SafeMint(u, n, 1, [issued EXCEPT !.token = @ + 1])
  /\ given' = given + 1
  /\ UNCHANGED <<account, calls>>

\* What a card of a level stands for, in cards of level 1.
Worth[level \in Levels] == IF level = 1 THEN 1 ELSE 2 * Worth[level - 1]

\* One transaction of the command seed:mint, which an operator runs: a card of
\* any level, drawn or named.
SeedToken(u) ==
  /\ CanMint
  /\ \E n \in Names, l \in Levels :
       /\ SafeMint(u, n, l, [issued EXCEPT !.token = @ + 1])
       /\ given' = given + Worth[l]
  /\ UNCHANGED <<account, calls>>

-----------------------------------------------------------------------------
(* levelUpCard                                                             *)

\* A mutation of MayUse: ownerOf is not asked.
MayUseAny(u, ids) == ids \subseteq DOMAIN tokens
MayUse(u, ids) == ids \subseteq DOMAIN tokens /\ \A t \in ids : tokens[t].owner = u

\* isOwnerOf for every sacrifice; the client may name one token twice.
CheckOwner(s) ==
  /\ calls[s].pc = "idle"
  /\ \E a, b \in DOMAIN tokens :
       /\ MayUse(s[1], {a, b})
       /\ calls' = [calls EXCEPT ![s].pc = "readCards", ![s].ids = {a, b}]
  /\ UNCHANGED <<tokens, account, given, issued>>

\* A mutation of Combine: the cards may differ.
CombineAny(ids) ==
  {<<tokens[t].name, tokens[t].level + 1>> : t \in ids}

\* A mutation of Combine: the level is not raised.
CombineSameLevel(ids) ==
  {next \in Names \X Levels :
     \A t \in ids : tokens[t].name = next[1] /\ tokens[t].level = next[2]}

\* Two cards with one tokenUri and a next level in the catalogue.
Combine(ids) ==
  {next \in Names \X (Levels \ {1}) :
     \A t \in ids : tokens[t].name = next[1] /\ tokens[t].level + 1 = next[2]}

\* findCardTokens and getNextLevelCard; any refusal ends the call.
ReadCards(s) ==
  LET ids == calls[s].ids IN
  /\ calls[s].pc = "readCards"
  /\ \/ /\ ids \subseteq DOMAIN tokens
        /\ \E next \in Combine(ids) :
             calls' = [calls EXCEPT ![s].pc = "levelUp", ![s].next = next]
     \/ /\ ids \subseteq DOMAIN tokens => Combine(ids) = {}
        /\ Return(s)
  /\ UNCHANGED <<tokens, account, given, issued>>

\* contract.levelUp with the two ids: burning one twice, or one that is gone,
\* reverts.
LevelUp(s) ==
  LET f == calls[s]
      rest == DOMAIN tokens \ f.ids
  IN /\ f.pc = "levelUp" /\ CanMint
     /\ \/ /\ f.ids \subseteq DOMAIN tokens /\ Cardinality(f.ids) = 2
           /\ issued' = [issued EXCEPT !.token = @ + 1]
           /\ tokens' = With([t \in rest |-> tokens[t]], issued'.token,
                             [owner |-> s[1], name |-> f.next[1], level |-> f.next[2]])
        \/ /\ ~(f.ids \subseteq DOMAIN tokens /\ Cardinality(f.ids) = 2)
           /\ UNCHANGED <<tokens, issued>>
        \/ Fault /\ UNCHANGED tokens
     /\ Return(s)
     /\ UNCHANGED <<account, given>>

-----------------------------------------------------------------------------
\* An auction, or a plain transfer, moves a token.
MoveToken(t, u) ==
  /\ t \in DOMAIN tokens /\ tokens[t].owner # u /\ issued.move < MaxMoves
  /\ tokens' = [tokens EXCEPT ![t].owner = u]
  /\ calls' = [s \in Slots |-> [calls[s] EXCEPT !.moved = @ \/ t \in calls[s].ids]]
  /\ issued' = [issued EXCEPT !.move = @ + 1]
  /\ UNCHANGED <<account, given>>

Crash ==
  /\ issued.crash < MaxCrashes
  /\ issued' = [issued EXCEPT !.crash = @ + 1]
  /\ calls' = [s \in Slots |-> IdleFrame]
  /\ UNCHANGED <<tokens, account, given>>

Next ==
  \/ \E s \in Slots : \/ Pay(s) \/ Mint(s) \/ Refund(s)
                      \/ CheckOwner(s) \/ ReadCards(s) \/ LevelUp(s)
  \/ \E u \in Users : Award(u) \/ SeedToken(u) \/ \E t \in TokenIds : MoveToken(t, u)
  \/ Crash

Spec == Init /\ [][Next]_vars

-----------------------------------------------------------------------------
(* Properties                                                              *)

Bought == SumFunction([u \in Users |-> account[u].bought])

\* No interleaving of levelUpCard calls that share a sacrifice makes or loses a
\* card: what all tokens are worth is what was bought and awarded.
WorthConserved ==
  SumFunction([t \in DOMAIN tokens |-> Worth[tokens[t].level]]) = Bought + given

\* A card is burned for its owner only, unless it changed hands after the
\* ownership was checked.
BurnedForOwner ==
  [][\A t \in DOMAIN tokens \ DOMAIN tokens' :
       \E s \in Slots : /\ calls[s].pc = "levelUp" /\ t \in calls[s].ids
                        /\ calls[s].moved \/ tokens[t].owner = s[1]]_vars

Quiet == \A s \in Slots : calls[s].pc = "idle"
Abs(n) == IF n < 0 THEN -n ELSE n
Gap(u) == Abs(account[u].paid - account[u].refunded - account[u].bought)

\* When no call is in flight, every fee was either refunded or turned into a
\* card, whatever failed of the draw, the proof or the minting: what is open is
\* at most one fee for each lost receipt, refund that was not sent, or call that
\* a restart cut off.
FeesSettled ==
  Quiet => SumFunction([u \in Users |-> Gap(u)])
             <= issued.costly + issued.crash * Cardinality(Slots)
=============================================================================
