-------------------------------- MODULE Deck --------------------------------
(***************************************************************************)
(* The decks of the players: DeckService.createDeck, deleteDeck,           *)
(* addCardToDeck and removeCardFromDeck.  deckCards is a sequence of       *)
(* [position, token]: monsters take the positions below HalfSize, pieces   *)
(* of equipment the HalfSize ones above.  The handlers read the deck and   *)
(* write deckCards whole; one action is one await.  The name of a deck,    *)
(* which updateDeck writes alone, is left out.                             *)
(***************************************************************************)
EXTENDS Lists, FiniteSets, FiniteSetsExt, Maps

CONSTANTS Users,    \* players
          Slots,    \* <<user, tab>>: the calls that can be in flight at once
          Tokens,   \* the card tokens
          Monsters, \* those of type MONSTER
          NoToken,  \* no token
          HalfSize, \* 8 in the code
          Limit,    \* decks per player, 3 in the code
          MaxDecks, \* bound: decks ever created
          MaxSales  \* bound: tokens that change hands

ASSUME SlotAssumption == IsFiniteSet(Slots) /\ \A s \in Slots : s[1] \in Users
ASSUME TokenAssumption == Monsters \subseteq Tokens /\ NoToken \notin Tokens
ASSUME DeckBoundAssumption == /\ HalfSize \in Nat \ {0}
                              /\ Limit \in Nat \ {0}
                              /\ MaxDecks \in Nat
                              /\ MaxSales \in Nat

VARIABLES
  decks,   \* the decks collection: deck id -> owner and deckCards
  holder,  \* token -> its owner according to the contract
  calls,   \* the frames of the calls in flight
  created, \* deck ids given out so far
  sales,   \* tokens that changed hands so far
  held     \* history: token -> who has ever held it

chain == <<holder, sales, held>>
vars == <<decks, chain, calls, created>>

DeckIds == 1..MaxDecks
NoId == 0
DeckCard == [position: 0..(2 * HalfSize - 1), token: Tokens]
CallPC == {"idle", "save", "delete", "checkToken", "writeAdded", "writeRemoved"}
IdleFrame == [pc |-> "idle", deck |-> NoId, seen |-> <<>>, token |-> NoToken]

TypeOK ==
  /\ DOMAIN decks \subseteq 1..created
  /\ \A d \in DOMAIN decks : decks[d].owner \in Users /\ decks[d].cards \in Seq(DeckCard)
  /\ holder \in [Tokens -> Users]
  /\ calls \in [Slots -> [pc: CallPC, deck: DeckIds \cup {NoId}, seen: Seq(DeckCard),
                          token: Tokens \cup {NoToken}]]
  /\ created \in 0..MaxDecks
  /\ sales \in 0..MaxSales
  /\ held \in [Tokens -> SUBSET Users]

Init ==
  /\ decks = <<>>
  /\ holder \in [Tokens -> Users]
  /\ calls = [s \in Slots |-> IdleFrame]
  /\ created = 0
  /\ sales = 0
  /\ held = [t \in Tokens |-> {holder[t]}]

Return(s) == calls' = [calls EXCEPT ![s] = IdleFrame]

DecksOf(u) == {d \in DOMAIN decks : decks[d].owner = u}
TokensIn(cards) == {cards[i].token : i \in 1..Len(cards)}
PositionsIn(cards) == {cards[i].position : i \in 1..Len(cards)}

\* A mutation of MayRead: anybody may.
MayReadAny(s, d) == calls[s].pc = "idle" /\ d \in DOMAIN decks

\* getDeckWithUserPermission, the first await of every change to a deck.
MayRead(s, d) == calls[s].pc = "idle" /\ d \in DecksOf(s[1])

-----------------------------------------------------------------------------
(* createDeck and deleteDeck                                               *)

\* A mutation of CountDecks: one too many.
CountDecksLoose(s) ==
  /\ calls[s].pc = "idle"
  /\ Cardinality(DecksOf(s[1])) <= Limit
  /\ calls' = [calls EXCEPT ![s].pc = "save"]
  /\ UNCHANGED <<decks, chain, created>>

\* ownedDecksCount; 'Each player can have only maximum of 3 decks' otherwise.
CountDecks(s) ==
  /\ calls[s].pc = "idle"
  /\ Cardinality(DecksOf(s[1])) < Limit
  /\ calls' = [calls EXCEPT ![s].pc = "save"]
  /\ UNCHANGED <<decks, chain, created>>

SaveDeck(s) ==
  /\ calls[s].pc = "save" /\ created < MaxDecks
  /\ created' = created + 1
  /\ decks' = With(decks, created', [owner |-> s[1], cards |-> <<>>])
  /\ Return(s)
  /\ UNCHANGED chain

ReadToDelete(s) ==
  /\ \E d \in DeckIds : /\ MayRead(s, d)
                        /\ calls' = [calls EXCEPT ![s].pc = "delete", ![s].deck = d]
  /\ UNCHANGED <<decks, chain, created>>

DeleteDeck(s) ==
  /\ calls[s].pc = "delete"
  /\ decks' = Without(decks, calls[s].deck)
  /\ Return(s)
  /\ UNCHANGED <<chain, created>>

-----------------------------------------------------------------------------
(* addCardToDeck                                                           *)

\* A mutation of HalfOf: positions count from 1.
HalfOfFromOne(token) ==
  IF token \in Monsters THEN 1..HalfSize ELSE (HalfSize + 1)..(2 * HalfSize)

\* The positions of the token's type.
HalfOf(token) ==
  IF token \in Monsters THEN 0..(HalfSize - 1) ELSE HalfSize..(2 * HalfSize - 1)

ReadToAdd(s) ==
  /\ \E d \in DeckIds, t \in Tokens :
       /\ MayRead(s, d)
       /\ calls' = [calls EXCEPT ![s] = [pc |-> "checkToken", deck |-> d,
                                         seen |-> decks[d].cards, token |-> t]]
  /\ UNCHANGED <<decks, chain, created>>

CardsIn(half, cards) == Kept(cards, {c \in DeckCard : c.position \in half})

\* Not added yet, and the half is not full.
Accepts(cards, token) ==
  /\ token \notin TokensIn(cards)
  /\ Len(CardsIn(HalfOf(token), cards)) # HalfSize

\* A mutation of CheckToken: nobody asks whose token it is.
CheckTokenOfAny(s) ==
  LET f == calls[s] IN
  /\ f.pc = "checkToken"
  /\ IF Accepts(f.seen, f.token) THEN calls' = [calls EXCEPT ![s].pc = "writeAdded"]
                                 ELSE Return(s)
  /\ UNCHANGED <<decks, chain, created>>

\* findAndCheckTokenByUser, then the checks on the snapshot.
CheckToken(s) ==
  LET f == calls[s] IN
  /\ f.pc = "checkToken"
  /\ IF holder[f.token] = s[1] /\ Accepts(f.seen, f.token)
     THEN calls' = [calls EXCEPT ![s].pc = "writeAdded"]
     ELSE Return(s)
  /\ UNCHANGED <<decks, chain, created>>

\* Array.sort by position, which is stable: each card behind those that come before
\* it and are not higher.
Sorted(cards) ==
  LET upTo(c) == {d \in DeckCard : d.position <= c.position}
      sorted[i \in 0..Len(cards)] ==
        IF i = 0 THEN <<>>
        ELSE Kept(sorted[i - 1], upTo(cards[i])) \o <<cards[i]>>
               \o Kept(sorted[i - 1], DeckCard \ upTo(cards[i]))
  IN sorted[Len(cards)]

\* A mutation of Added: the position after the last card's of the half.
AddedAtCount(cards, token) ==
  LET position == Len(CardsIn(HalfOf(token), cards)) + Min(HalfOf(token))
  IN Sorted(Append(cards, [position |-> position, token |-> token]))

\* The first free position of the half, and the cards sorted by position.
Added(cards, token) ==
  LET position == Min(HalfOf(token) \ PositionsIn(cards))
  IN Sorted(Append(cards, [position |-> position, token |-> token]))

\* updateOne({_id}, {deckCards}): nothing when the deck is gone.
Write(s, cards) ==
  LET d == calls[s].deck IN
  /\ decks' = IF d \in DOMAIN decks THEN [decks EXCEPT ![d].cards = cards] ELSE decks
  /\ Return(s)
  /\ UNCHANGED <<chain, created>>

WriteAdded(s) ==
  calls[s].pc = "writeAdded" /\ Write(s, Added(calls[s].seen, calls[s].token))

-----------------------------------------------------------------------------
(* removeCardFromDeck                                                      *)

ReadToRemove(s) ==
  /\ \E d \in DeckIds, t \in Tokens :
       /\ MayRead(s, d)
       /\ calls' = [calls EXCEPT ![s] = [pc |-> "writeRemoved", deck |-> d,
                                         seen |-> decks[d].cards, token |-> t]]
  /\ UNCHANGED <<decks, chain, created>>

WriteRemoved(s) ==
  /\ calls[s].pc = "writeRemoved"
  /\ Write(s, Kept(calls[s].seen, {c \in DeckCard : c.token # calls[s].token}))

-----------------------------------------------------------------------------
\* An auction, or a plain transfer, moves a token; no deck hears of it.
TokenSold(t, u) ==
  /\ sales < MaxSales /\ holder[t] # u
  /\ holder' = [holder EXCEPT ![t] = u]
  /\ held' = [held EXCEPT ![t] = @ \cup {u}]
  /\ sales' = sales + 1
  /\ UNCHANGED <<decks, calls, created>>

Next ==
  \/ \E s \in Slots :
       \/ CountDecks(s) \/ SaveDeck(s)
       \/ ReadToDelete(s) \/ DeleteDeck(s)
       \/ ReadToAdd(s) \/ CheckToken(s) \/ WriteAdded(s)
       \/ ReadToRemove(s) \/ WriteRemoved(s)
  \/ \E t \in Tokens, u \in Users : TokenSold(t, u)

Spec == Init /\ [][Next]_vars

-----------------------------------------------------------------------------
(* Properties                                                              *)

\* Whatever stale snapshot a handler writes back, a deck is well formed: sorted
\* by positions that differ, every card in the half of its type, no card twice.
WellFormed ==
  \A d \in DOMAIN decks :
    LET cards == decks[d].cards IN
    /\ \A i \in 1..Len(cards) : cards[i].position \in HalfOf(cards[i].token)
    /\ \A i, j \in 1..Len(cards) :
         i < j => /\ cards[i].position < cards[j].position
                  /\ cards[i].token # cards[j].token

Serial(u) == Cardinality({s \in Slots : s[1] = u}) <= 1

\* A client with one call in flight never writes over a deck that it has not
\* read: nobody else writes to it.
NoLostUpdate ==
  \A s \in Slots :
    Serial(s[1]) /\ calls[s].pc \in {"checkToken", "writeAdded", "writeRemoved"} =>
      /\ calls[s].deck \in DOMAIN decks
      /\ decks[calls[s].deck].cards = calls[s].seen

\* A deck may name a token that its owner has sold, and that a match is created
\* with; it never names one that he has not held, whatever is written back late.
OnceHeld ==
  \A d \in DOMAIN decks :
    \A t \in TokensIn(decks[d].cards) : decks[d].owner \in held[t]

\* 'Each player can have only maximum of 3 decks': holds of a client with one
\* call in flight; each further call that counts before the others save adds one.
AtMostLimit ==
  \A u \in Users :
    Cardinality(DecksOf(u)) <= Limit + Cardinality({s \in Slots : s[1] = u}) - 1
=============================================================================
