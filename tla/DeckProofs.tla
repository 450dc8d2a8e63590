----------------------------- MODULE DeckProofs -----------------------------
(* Theorems about Deck, for every number of players, tabs, tokens, decks and *)
(* sales: which deck a call may write, and how many decks a player can have, *)
(* and what the handlers make of the cards of a deck, which they filter,     *)
(* sort and write back over one another's.                                   *)
EXTENDS Deck, DataLemmas

-----------------------------------------------------------------------------
(* The inductive invariant                                                  *)

\* The awaits of a call that has read the cards of a deck, or the deck at all.
Reading == {"checkToken", "writeAdded", "writeRemoved"}
Bound == Reading \cup {"delete"}

\* A call that has read a deck has its player's own one, even when it is gone by now.
FrameOK(f, u) ==
  f.pc \in Bound =>
    /\ f.deck \in 1..created
    /\ f.deck \in DOMAIN decks => decks[f.deck].owner = u

\* The calls are frames, and in order.
FramesOK ==
  /\ calls = [s \in Slots |-> calls[s]]
  /\ \A s \in Slots :
       /\ calls[s] = [pc |-> calls[s].pc, deck |-> calls[s].deck, seen |-> calls[s].seen,
                      token |-> calls[s].token]
       /\ FrameOK(calls[s], s[1])

\* The calls of a player, and those that are about to save a deck.
SlotsOf(u) == {s \in Slots : s[1] = u}
Saving(u) == {s \in SlotsOf(u) : calls[s].pc = "save"}

\* A call that is about to save a deck has counted fewer than Limit, and all but one
\* of a player's calls may have done so before the others saved.
Counted ==
  \A u \in Users :
    Cardinality(DecksOf(u)) + Cardinality(Saving(u)) <= Limit + Cardinality(SlotsOf(u)) - 1

\* Deck ids are given out once, to documents.
IdsOK ==
  /\ created \in Nat /\ DOMAIN decks \subseteq 1..created
  /\ \A d \in DOMAIN decks : decks[d] = [owner |-> decks[d].owner, cards |-> decks[d].cards]

\* The inductive invariant.
Inv == IdsOK /\ FramesOK /\ NoLostUpdate /\ Counted

-----------------------------------------------------------------------------
(* What every step keeps                                                    *)

\* A player with one call at a time has one slot.
LEMMA OneSlot ==
  ASSUME NEW s \in Slots, NEW t \in Slots, s[1] = t[1], Serial(s[1])
  PROVE  s = t
<1> DEFINE S == {x \in Slots : x[1] = s[1]}
<1>1. IsFiniteSet(S)
  BY SlotAssumption, FS_Subset
<1>2. Cardinality(S) <= 1 /\ s \in S /\ t \in S
  BY DEF Serial
<1>3. IsFiniteSet({s, t}) /\ {s, t} \subseteq S
  BY <1>1, <1>2, FS_Subset
<1>4. Cardinality({s, t}) <= Cardinality(S)
  BY <1>1, <1>3, FS_Subset
<1>5. s # t => Cardinality({s, t}) = 2
  <2>1. IsFiniteSet({s}) /\ Cardinality({s}) = 1
    BY FS_Singleton
  <2>2. s # t => Cardinality({s} \cup {t}) = Cardinality({s}) + 1
    BY <2>1, FS_AddElement
  <2>3. {s, t} = {s} \cup {t}
    OBVIOUS
  <2> QED
    BY <2>1, <2>2, <2>3
<1>6. Cardinality(S) \in Nat
  BY <1>1, FS_CardinalityType
<1> QED
  BY <1>2, <1>4, <1>5, <1>6

\* The sets that are counted are finite.
LEMMA Finite ==
  ASSUME IdsOK, NEW u
  PROVE  /\ IsFiniteSet(DecksOf(u)) /\ Cardinality(DecksOf(u)) \in Nat
         /\ IsFiniteSet(SlotsOf(u)) /\ Cardinality(SlotsOf(u)) \in Nat
         /\ IsFiniteSet(Saving(u)) /\ Cardinality(Saving(u)) \in Nat
<1>1. DecksOf(u) \subseteq 1..created /\ SlotsOf(u) \subseteq Slots /\ Saving(u) \subseteq SlotsOf(u)
  BY DEF IdsOK, DecksOf, SlotsOf, Saving
<1>2. IsFiniteSet(1..created)
  BY FS_Interval DEF IdsOK
<1>3. IsFiniteSet(DecksOf(u)) /\ IsFiniteSet(SlotsOf(u))
  BY <1>1, <1>2, SlotAssumption, FS_Subset
<1>4. IsFiniteSet(Saving(u))
  BY <1>1, <1>3, FS_Subset
<1> QED
  BY <1>3, <1>4, FS_CardinalityType

\* What a step of call s, which goes on as f, may do to the decks.
Touches(s) ==
  /\ IdsOK' /\ created <= created'
  /\ \A d \in DOMAIN decks' :
       d > created \/ (d \in DOMAIN decks /\ decks'[d].owner = decks[d].owner)
  /\ \A d \in DOMAIN decks :
       \/ calls[s].pc \in Bound /\ d = calls[s].deck
       \/ d \in DOMAIN decks' /\ decks'[d].cards = decks[d].cards

\* A step of one call leaves the others with what they have read, for the deck that
\* it writes is its player's own.
LEMMA CallStep ==
  ASSUME Inv, NEW s \in Slots, Touches(s), NEW f, calls' = [calls EXCEPT ![s] = f],
         f = [pc |-> f.pc, deck |-> f.deck, seen |-> f.seen, token |-> f.token],
         f.pc \in Bound => FrameOK(f, s[1]) /\ decks' = decks,
         f.pc \in Reading /\ Serial(s[1]) => f.deck \in DOMAIN decks /\ decks[f.deck].cards = f.seen
  PROVE  FramesOK' /\ NoLostUpdate'
<1>1. /\ calls'[s] = f /\ \A t \in Slots \ {s} : calls'[t] = calls[t]
      /\ calls' = [t \in Slots |-> calls'[t]]
  BY DEF Inv, FramesOK
<1>2. \A t \in Slots : calls'[t] = [pc |-> calls'[t].pc, deck |-> calls'[t].deck,
                                    seen |-> calls'[t].seen, token |-> calls'[t].token]
  BY <1>1 DEF Inv, FramesOK
<1>3. ASSUME NEW t \in Slots, NEW g, g = calls'[t]
      PROVE  FrameOK(g, t[1])'
  <2>1. FrameOK(g, t[1])
    BY <1>1, <1>3 DEF Inv, FramesOK, FrameOK
  <2> QED
    BY <2>1 DEF FrameOK, Touches, Inv, IdsOK
<1>4. ASSUME NEW t \in Slots, Serial(t[1]), calls'[t].pc \in Reading
      PROVE  calls'[t].deck \in DOMAIN decks' /\ decks'[calls'[t].deck].cards = calls'[t].seen
  <2>1. CASE t = s
    BY <1>1, <1>4, <2>1 DEF Bound
  <2>2. CASE t # s
    <3>1. PICK d : d = calls[t].deck
      OBVIOUS
    <3>2. d \in DOMAIN decks /\ decks[d].cards = calls[t].seen /\ decks[d].owner = t[1]
      BY <1>1, <1>4, <2>2, <3>1 DEF Inv, NoLostUpdate, Reading, FramesOK, FrameOK, Bound
    <3>3. ~(calls[s].pc \in Bound /\ d = calls[s].deck)
      <4>1. calls[s].pc \in Bound /\ d = calls[s].deck => s[1] = t[1]
        BY <3>2 DEF Inv, FramesOK, FrameOK
      <4> QED
        BY <1>4, <2>2, <4>1, OneSlot
    <3> QED
      BY <1>1, <2>2, <3>1, <3>2, <3>3 DEF Touches
  <2> QED
    BY <2>1, <2>2
<1> QED
  BY <1>1, <1>2, <1>3, <1>4 DEF FramesOK, NoLostUpdate, Reading, Serial

\* What saves no deck and starts no saving leaves the count.
LEMMA NoneSaved ==
  ASSUME Inv, IdsOK',
         \A d \in DOMAIN decks' : d \in DOMAIN decks /\ decks'[d].owner = decks[d].owner,
         \A s \in Slots : calls'[s].pc = "save" => calls[s].pc = "save"
  PROVE  Counted'
<1> SUFFICES ASSUME NEW u \in Users
             PROVE  Cardinality(DecksOf(u)') + Cardinality(Saving(u)')
                      <= Limit + Cardinality(SlotsOf(u)) - 1
  BY DEF Counted, SlotsOf
<1>1. DecksOf(u)' \subseteq DecksOf(u) /\ Saving(u)' \subseteq Saving(u)
  BY DEF DecksOf, Saving, SlotsOf
<1>2. /\ Cardinality(DecksOf(u)') <= Cardinality(DecksOf(u)) /\ Cardinality(DecksOf(u)') \in Nat
      /\ Cardinality(Saving(u)') <= Cardinality(Saving(u)) /\ Cardinality(Saving(u)') \in Nat
  BY <1>1, Finite, FS_Subset, FS_CardinalityType DEF Inv
<1>3. Cardinality(DecksOf(u)) + Cardinality(Saving(u)) <= Limit + Cardinality(SlotsOf(u)) - 1
  BY DEF Inv, Counted
<1> QED
  BY <1>2, <1>3, Finite, DeckBoundAssumption DEF Inv

-----------------------------------------------------------------------------
(* The invariant is inductive                                               *)

\* Without decks and calls, one deck per slot and more is left to everybody.
LEMMA InvInit == Init => Inv
<1> SUFFICES ASSUME Init PROVE Inv
  OBVIOUS
<1>1. IdsOK /\ FramesOK /\ NoLostUpdate
  BY DEF Init, IdsOK, FramesOK, FrameOK, NoLostUpdate, IdleFrame, Bound, Reading
<1>2. ASSUME NEW u \in Users
      PROVE  Cardinality(DecksOf(u)) + Cardinality(Saving(u)) <= Limit + Cardinality(SlotsOf(u)) - 1
  <2>1. DecksOf(u) = {} /\ Saving(u) = {}
    BY DEF Init, DecksOf, Saving, SlotsOf, IdleFrame
  <2> QED
    BY <1>1, <2>1, Finite, FS_EmptySet, DeckBoundAssumption
<1> QED
  BY <1>1, <1>2 DEF Inv, Counted

\* A call reads a deck of its player.
LEMMA ReadStep ==
  ASSUME Inv, NEW s \in Slots, ReadToDelete(s) \/ ReadToAdd(s) \/ ReadToRemove(s)
  PROVE  Inv'
<1>1. PICK d \in DeckIds : MayRead(s, d) /\
        \/ calls' = [calls EXCEPT ![s].pc = "delete", ![s].deck = d]
        \/ \E t : \E pc \in {"checkToken", "writeRemoved"} :
             calls' = [calls EXCEPT ![s] = [pc |-> pc, deck |-> d, seen |-> decks[d].cards,
                                            token |-> t]]
  BY DEF ReadToDelete, ReadToAdd, ReadToRemove
<1>2. UNCHANGED <<decks, created>> /\ d \in DOMAIN decks /\ decks[d].owner = s[1]
  BY <1>1 DEF ReadToDelete, ReadToAdd, ReadToRemove, MayRead, DecksOf
<1>3. Touches(s)
  BY <1>2 DEF Touches, Inv, IdsOK
<1>4. PICK f : /\ calls' = [calls EXCEPT ![s] = f] /\ f.pc \in Bound
               /\ f = [pc |-> f.pc, deck |-> f.deck, seen |-> f.seen, token |-> f.token]
               /\ f.deck = d /\ (f.pc \in Reading => f.seen = decks[d].cards)
  <2>1. CASE calls' = [calls EXCEPT ![s].pc = "delete", ![s].deck = d]
    <3>1. PICK f : f = [calls[s] EXCEPT !.pc = "delete", !.deck = d]
      OBVIOUS
    <3>2. f = [pc |-> "delete", deck |-> d, seen |-> calls[s].seen, token |-> calls[s].token]
      <4>1. PICK g : g = calls[s] /\ g = [pc |-> g.pc, deck |-> g.deck, seen |-> g.seen,
                                          token |-> g.token]
        BY DEF Inv, FramesOK
      <4> QED
        BY <3>1, <4>1
    <3>3. f.pc = "delete" /\ f.deck = d /\ f.seen = calls[s].seen /\ f.token = calls[s].token
      BY <3>2
    <3>4. calls' = [calls EXCEPT ![s] = f]
      BY <2>1, <3>1 DEF Inv, FramesOK
    <3> QED
      BY <3>2, <3>3, <3>4 DEF Bound, Reading
  <2>2. CASE \E t : \E pc \in {"checkToken", "writeRemoved"} :
               calls' = [calls EXCEPT ![s] = [pc |-> pc, deck |-> d, seen |-> decks[d].cards,
                                              token |-> t]]
    <3>0. PICK t : \E pc \in {"checkToken", "writeRemoved"} :
            calls' = [calls EXCEPT ![s] = [pc |-> pc, deck |-> d, seen |-> decks[d].cards,
                                           token |-> t]]
      BY <2>2
    <3>1. PICK pc \in {"checkToken", "writeRemoved"} :
            calls' = [calls EXCEPT ![s] = [pc |-> pc, deck |-> d, seen |-> decks[d].cards,
                                           token |-> t]]
      BY <3>0
    <3>2. PICK f : f = [pc |-> pc, deck |-> d, seen |-> decks[d].cards, token |-> t]
      OBVIOUS
    <3>3. f.pc = pc /\ f.deck = d /\ f.seen = decks[d].cards /\ f.token = t
      BY <3>2
    <3> QED
      BY <3>1, <3>2, <3>3 DEF Bound, Reading
  <2> QED
    BY <1>1, <2>1, <2>2
<1>5. FrameOK(f, s[1])
  BY <1>2, <1>4 DEF FrameOK, Inv, IdsOK
<1>6. FramesOK' /\ NoLostUpdate'
  BY <1>2, <1>3, <1>4, <1>5, CallStep
<1>7. Counted'
  <2>1. \A t \in Slots : calls'[t].pc = "save" => calls[t].pc = "save"
    BY <1>4 DEF Inv, FramesOK, Bound, Reading
  <2> QED
    BY <1>2, <1>3, <2>1, NoneSaved DEF Touches
<1> QED
  BY <1>3, <1>6, <1>7 DEF Inv, Touches

\* A token passes the checks, or the call returns.
LEMMA CheckStep ==
  ASSUME Inv, NEW s \in Slots, CheckToken(s)
  PROVE  Inv'
<1>1. UNCHANGED <<decks, created>> /\ calls[s].pc = "checkToken"
  BY DEF CheckToken
<1>2. Touches(s)
  BY <1>1 DEF Touches, Inv, IdsOK
<1>3. PICK f : /\ calls' = [calls EXCEPT ![s] = f]
               /\ f = [pc |-> f.pc, deck |-> f.deck, seen |-> f.seen, token |-> f.token]
               /\ \/ f.pc = "idle"
                  \/ f.pc = "writeAdded" /\ f.deck = calls[s].deck /\ f.seen = calls[s].seen
  <2>1. CASE calls' = [calls EXCEPT ![s].pc = "writeAdded"]
    <3>1. PICK f : f = [calls[s] EXCEPT !.pc = "writeAdded"]
      OBVIOUS
    <3>2. f = [pc |-> "writeAdded", deck |-> calls[s].deck, seen |-> calls[s].seen,
               token |-> calls[s].token]
      BY <3>1 DEF Inv, FramesOK
    <3>3. /\ f.pc = "writeAdded" /\ f.deck = calls[s].deck /\ f.seen = calls[s].seen
          /\ f.token = calls[s].token
      BY <3>2
    <3>4. calls' = [calls EXCEPT ![s] = f]
      BY <2>1, <3>1 DEF Inv, FramesOK
    <3> QED
      BY <3>2, <3>3, <3>4
  <2>2. CASE Return(s)
    <3>1. /\ IdleFrame = [pc |-> IdleFrame.pc, deck |-> IdleFrame.deck,
                           seen |-> IdleFrame.seen, token |-> IdleFrame.token]
          /\ IdleFrame.pc = "idle"
      BY DEF IdleFrame
    <3> QED
      BY <2>2, <3>1 DEF Return
  <2>3. calls' = [calls EXCEPT ![s].pc = "writeAdded"] \/ Return(s)
    BY Zenon DEF CheckToken
  <2> QED
    BY <2>1, <2>2, <2>3
<1>4. f.pc \in Bound => FrameOK(f, s[1])
  BY <1>1, <1>3 DEF Inv, FramesOK, FrameOK, Bound, Reading
<1>5. f.pc \in Reading /\ Serial(s[1]) => f.deck \in DOMAIN decks /\ decks[f.deck].cards = f.seen
  BY <1>1, <1>3 DEF Inv, NoLostUpdate, Reading
<1>6. FramesOK' /\ NoLostUpdate'
  BY <1>1, <1>2, <1>3, <1>4, <1>5, CallStep
<1>7. Counted'
  <2>1. \A t \in Slots : calls'[t].pc = "save" => calls[t].pc = "save"
    BY <1>3 DEF Inv, FramesOK
  <2> QED
    BY <1>1, <1>2, <2>1, NoneSaved DEF Touches
<1> QED
  BY <1>2, <1>6, <1>7 DEF Inv, Touches

\* A call writes the cards of its deck, or deletes it, and returns.
LEMMA WriteStep ==
  ASSUME Inv, NEW s \in Slots, DeleteDeck(s) \/ WriteAdded(s) \/ WriteRemoved(s)
  PROVE  Inv'
<1>1. /\ created' = created /\ calls[s].pc \in Bound /\ calls' = [calls EXCEPT ![s] = IdleFrame]
      /\ \/ decks' = decks
         \/ \E cards : decks' = [decks EXCEPT ![calls[s].deck].cards = cards]
         \/ decks' = Without(decks, calls[s].deck)
  BY DEF DeleteDeck, WriteAdded, WriteRemoved, Write, Return, Bound, Reading
<1>2. /\ \A d \in DOMAIN decks' : d \in DOMAIN decks /\ decks'[d].owner = decks[d].owner
      /\ \A d \in DOMAIN decks :
           d = calls[s].deck \/ (d \in DOMAIN decks' /\ decks'[d].cards = decks[d].cards)
      /\ \A d \in DOMAIN decks' :
           decks'[d] = [owner |-> decks'[d].owner, cards |-> decks'[d].cards]
  <2>1. CASE \E cards : decks' = [decks EXCEPT ![calls[s].deck].cards = cards]
    <3>1. PICK cards : decks' = [decks EXCEPT ![calls[s].deck].cards = cards]
      BY <2>1
    <3>2. \A d \in DOMAIN decks : decks'[d].owner = decks[d].owner
      <4> TAKE d \in DOMAIN decks
      <4>1. CASE d = calls[s].deck
        BY <3>1, <4>1 DEF Inv, IdsOK
      <4>2. CASE d # calls[s].deck
        BY <3>1, <4>2
      <4> QED
        BY <4>1, <4>2
    <3>3. \A d \in DOMAIN decks : decks'[d] = [owner |-> decks'[d].owner, cards |-> decks'[d].cards]
      <4> TAKE d \in DOMAIN decks
      <4>1. CASE d = calls[s].deck
        <5>1. decks'[d] = [decks[d] EXCEPT !.cards = cards]
          BY <3>1, <4>1
        <5>2. decks'[d] = [owner |-> decks[d].owner, cards |-> cards]
          BY <5>1 DEF Inv, IdsOK
        <5> QED
          BY <5>2
      <4>2. CASE d # calls[s].deck
        BY <3>1, <4>2 DEF Inv, IdsOK
      <4> QED
        BY <4>1, <4>2
    <3> QED
      BY <3>1, <3>2, <3>3
  <2>2. CASE decks' = Without(decks, calls[s].deck)
    BY <2>2 DEF Without, Restrict, Inv, IdsOK
  <2>3. CASE decks' = decks
    BY <2>3 DEF Inv, IdsOK
  <2> QED
    BY <1>1, <2>1, <2>2, <2>3
<1>3. Touches(s)
  BY <1>1, <1>2 DEF Touches, Inv, IdsOK
<1>4. FramesOK' /\ NoLostUpdate'
  BY <1>1, <1>3, CallStep DEF IdleFrame, Bound, Reading
<1>5. Counted'
  <2>1. \A t \in Slots : calls'[t].pc = "save" => calls[t].pc = "save"
    BY <1>1 DEF Inv, FramesOK, IdleFrame
  <2> QED
    BY <1>2, <1>3, <2>1, NoneSaved DEF Touches
<1> QED
  BY <1>3, <1>4, <1>5 DEF Inv, Touches

\* A call counts fewer decks than Limit: whoever else of the player's is about to
\* save is another of his calls.
LEMMA CountStep ==
  ASSUME Inv, NEW s \in Slots, CountDecks(s)
  PROVE  Inv'
<1>1. /\ UNCHANGED <<decks, created>> /\ Cardinality(DecksOf(s[1])) < Limit
      /\ calls' = [calls EXCEPT ![s].pc = "save"]
  BY DEF CountDecks
<1>2. Touches(s)
  BY <1>1 DEF Touches, Inv, IdsOK
<1>3. PICK f : /\ calls' = [calls EXCEPT ![s] = f] /\ f.pc = "save"
               /\ f = [pc |-> f.pc, deck |-> f.deck, seen |-> f.seen, token |-> f.token]
  <2>1. PICK f : f = [calls[s] EXCEPT !.pc = "save"]
    OBVIOUS
  <2>2. /\ f = [pc |-> "save", deck |-> calls[s].deck, seen |-> calls[s].seen,
                token |-> calls[s].token]
        /\ calls' = [calls EXCEPT ![s] = f]
    BY <1>1, <2>1 DEF Inv, FramesOK
  <2> QED
    BY <2>2
<1>4. FramesOK' /\ NoLostUpdate'
  BY <1>2, <1>3, CallStep DEF Bound, Reading
<1>5. ASSUME NEW u \in Users
      PROVE  Cardinality(DecksOf(u)') + Cardinality(Saving(u)')
               <= Limit + Cardinality(SlotsOf(u)) - 1
  <2>1. DecksOf(u)' = DecksOf(u) /\ Saving(u)' \subseteq SlotsOf(u)
    BY <1>1 DEF DecksOf, Saving, SlotsOf
  <2>2. CASE u = s[1]
    <3>1. Cardinality(Saving(u)') <= Cardinality(SlotsOf(u)) /\ Cardinality(Saving(u)') \in Nat
      BY <2>1, Finite, FS_Subset, FS_CardinalityType DEF Inv
    <3> QED
      BY <1>1, <2>1, <2>2, <3>1, Finite, DeckBoundAssumption DEF Inv
  <2>3. CASE u # s[1]
    <3>1. Saving(u)' = Saving(u)
      BY <1>3, <2>3 DEF Saving, SlotsOf, Inv, FramesOK
    <3> QED
      BY <2>1, <3>1 DEF Inv, Counted
  <2> QED
    BY <2>2, <2>3
<1>6. Counted'
  BY <1>5 DEF Counted, SlotsOf
<1> QED
  BY <1>2, <1>4, <1>6 DEF Inv, Touches

\* The deck that is saved takes the place of the call that was about to save it.
LEMMA SaveStep ==
  ASSUME Inv, NEW s \in Slots, SaveDeck(s)
  PROVE  Inv'
<1>1. /\ created' = created + 1 /\ calls[s].pc = "save"
      /\ decks' = With(decks, created', [owner |-> s[1], cards |-> <<>>])
      /\ calls' = [calls EXCEPT ![s] = IdleFrame]
  BY DEF SaveDeck, Return
<1>2. /\ created \in Nat /\ \A d \in DOMAIN decks : d \in 1..created /\ d # created'
  BY <1>1 DEF Inv, IdsOK
<1>3. /\ DOMAIN decks' = DOMAIN decks \cup {created'}
      /\ \A d \in DOMAIN decks : decks'[d] = decks[d]
      /\ decks'[created'] = [owner |-> s[1], cards |-> <<>>] /\ decks'[created'].owner = s[1]
      /\ decks'[created'] = [owner |-> decks'[created'].owner, cards |-> decks'[created'].cards]
  BY <1>1, <1>2 DEF With
<1>4. Touches(s)
  BY <1>1, <1>2, <1>3 DEF Touches, IdsOK, Inv
<1>5. FramesOK' /\ NoLostUpdate'
  BY <1>1, <1>4, CallStep DEF IdleFrame, Bound, Reading
<1>6. ASSUME NEW u \in Users
      PROVE  Cardinality(DecksOf(u)') + Cardinality(Saving(u)')
               <= Limit + Cardinality(SlotsOf(u)) - 1
  <2>1. Cardinality(DecksOf(u)) + Cardinality(Saving(u)) <= Limit + Cardinality(SlotsOf(u)) - 1
    BY DEF Inv, Counted
  <2>2. CASE u = s[1]
    <3>1. DecksOf(u)' = DecksOf(u) \cup {created'} /\ created' \notin DecksOf(u)
      BY <1>2, <1>3, <2>2 DEF DecksOf
    <3>2. Saving(u)' = Saving(u) \ {s} /\ s \in Saving(u)
      BY <1>1, <2>2 DEF Saving, SlotsOf, Inv, FramesOK, IdleFrame
    <3>3. Cardinality(DecksOf(u)') = Cardinality(DecksOf(u)) + 1
      BY <3>1, Finite, FS_AddElement DEF Inv
    <3>4. Cardinality(Saving(u)') = Cardinality(Saving(u)) - 1
      BY <3>2, Finite, FS_RemoveElement DEF Inv
    <3> QED
      BY <2>1, <3>3, <3>4, Finite, DeckBoundAssumption DEF Inv
  <2>3. CASE u # s[1]
    <3>1. DecksOf(u)' = DecksOf(u)
      BY <1>2, <1>3, <2>3 DEF DecksOf
    <3>2. Saving(u)' = Saving(u)
      BY <1>1, <2>3 DEF Saving, SlotsOf, Inv, FramesOK
    <3> QED
      BY <2>1, <3>1, <3>2
  <2> QED
    BY <2>2, <2>3
<1>7. Counted'
  BY <1>6 DEF Counted, SlotsOf
<1> QED
  BY <1>4, <1>5, <1>7 DEF Inv, Touches

\* A sale is no business of the decks.
LEMMA SaleStep ==
  ASSUME Inv, UNCHANGED <<decks, calls, created>>
  PROVE  Inv'
  BY DEF Inv, IdsOK, FramesOK, FrameOK, NoLostUpdate, Counted, DecksOf, Saving, SlotsOf, Serial

\* The invariant holds of every state of the decks.
THEOREM Invariance == Spec => []Inv
<1>1. Inv /\ [Next]_vars => Inv'
  <2> SUFFICES ASSUME Inv, [Next]_vars PROVE Inv'
    OBVIOUS
  <2>1. CASE \E s \in Slots : CountDecks(s) \/ SaveDeck(s)
    BY <2>1, CountStep, SaveStep
  <2>2. CASE \E s \in Slots : ReadToDelete(s) \/ ReadToAdd(s) \/ ReadToRemove(s)
    BY <2>2, ReadStep
  <2>3. CASE \E s \in Slots :
               DeleteDeck(s) \/ CheckToken(s) \/ WriteAdded(s) \/ WriteRemoved(s)
    BY <2>3, CheckStep, WriteStep
  <2>4. CASE UNCHANGED <<decks, calls, created>>
    BY <2>4, SaleStep
  <2>5. CASE \E t \in Tokens, u \in Users : TokenSold(t, u)
    BY <2>5, SaleStep DEF TokenSold
  <2> QED
    BY <2>1, <2>2, <2>3, <2>4, <2>5 DEF Next, vars
<1> QED
  BY <1>1, InvInit, PTL DEF Spec

-----------------------------------------------------------------------------
(* Theorems on calls and numbers                                            *)

\* A client with one call in flight never writes over a deck that it has not read,
\* whatever tabs other players use: the deck is read with its owner's permission, and
\* no owner changes.
THEOREM UpdatesKept == Spec => []NoLostUpdate
<1>1. Inv => NoLostUpdate
  BY DEF Inv
<1> QED
  BY <1>1, Invariance, PTL

\* A player has at most three decks and one more for each further call of his that
\* can be in flight, since createDeck counts before it saves.
THEOREM DecksLimited == Spec => []AtMostLimit
<1>1. Inv => AtMostLimit
  <2> SUFFICES ASSUME Inv, NEW u \in Users
               PROVE  Cardinality(DecksOf(u)) <= Limit + Cardinality({s \in Slots : s[1] = u}) - 1
    BY DEF AtMostLimit
  <2>1. Cardinality(DecksOf(u)) + Cardinality(Saving(u)) <= Limit + Cardinality(SlotsOf(u)) - 1
    BY DEF Inv, Counted
  <2> QED
    BY <2>1, Finite, DeckBoundAssumption DEF Inv, SlotsOf
<1> QED
  BY <1>1, Invariance, PTL

-----------------------------------------------------------------------------
(* The cards of a deck: what filtering and sorting them does               *)

\* A list of cards by position, and one with the cards of a deck: each in the half of
\* its type, none twice.
Rising(cards) == \A i, j \in 1..Len(cards) : i < j => cards[i].position < cards[j].position
Distinct(cards) ==
  \A i, j \in 1..Len(cards) :
    i # j => cards[i].position # cards[j].position /\ cards[i].token # cards[j].token
Halved(cards) == \A i \in 1..Len(cards) : cards[i].position \in HalfOf(cards[i].token)
Ordered(cards) == cards \in Seq(DeckCard) /\ Rising(cards) /\ Distinct(cards) /\ Halved(cards)

\* The cards of one list come from another.
From(new, cards) == \A i \in 1..Len(new) : \E k \in 1..Len(cards) : new[i] = cards[k]

\* The cards that a card is sorted behind, and the recursion that defines Sorted.
UpTo(c) == {d \in DeckCard : d.position <= c.position}
Placing(r, c) == Kept(r, UpTo(c)) \o <<c>> \o Kept(r, DeckCard \ UpTo(c))
SortStep(f, cards, i) == IF i = 0 THEN <<>> ELSE Placing(f[i - 1], cards[i])
SortRun(f, cards, n) == \A i \in 0..n : f[i] = SortStep(f, cards, i)

-----------------------------------------------------------------------------
\* Filtering keeps the order.
LEMMA KeptRises ==
  ASSUME NEW r \in Seq(DeckCard), Rising(r), NEW set, NEW new, new = Kept(r, set)
  PROVE  /\ new \in Seq(DeckCard) /\ Rising(new) /\ From(new, r)
         /\ \A i \in 1..Len(new) : new[i] \in set
<1>1. /\ Kept(r, set) \in Seq(DeckCard \cap set)
      /\ \E h : Selects(h, Kept(r, set), r, set, Len(r))
  BY KeptSelects
<1>2. PICK h : Selects(h, new, r, set, Len(r))
  BY <1>1
<1>3. new \in Seq(DeckCard) /\ Len(r) \in Nat /\ Len(new) \in Nat
  BY <1>1
<1>4. ASSUME NEW i \in 1..Len(new)
      PROVE  h[i] \in 1..Len(r) /\ new[i] = r[h[i]] /\ new[i] \in set
  BY <1>2 DEF Selects
<1>5. Rising(new)
  <2> SUFFICES ASSUME NEW i \in 1..Len(new), NEW j \in 1..Len(new), i < j
               PROVE  new[i].position < new[j].position
    BY DEF Rising
  <2>1. h[i] < h[j]
    BY <1>2 DEF Selects
  <2> QED BY <1>4, <2>1 DEF Rising
<1>6. From(new, r)
  BY <1>4 DEF From
<1> QED BY <1>3, <1>4, <1>5, <1>6

\* A card goes to its place in a list that is sorted.
LEMMA PlacingFact ==
  ASSUME NEW r \in Seq(DeckCard), Rising(r), NEW c \in DeckCard,
         \A k \in 1..Len(r) : r[k].position # c.position,
         NEW new, new = Placing(r, c)
  PROVE  /\ new \in Seq(DeckCard) /\ Rising(new)
         /\ \A i \in 1..Len(new) : new[i] = c \/ \E k \in 1..Len(r) : new[i] = r[k]
<1>1. PICK a, b : a = Kept(r, UpTo(c)) /\ b = Kept(r, DeckCard \ UpTo(c))
  OBVIOUS
<1>2. /\ a \in Seq(DeckCard) /\ Rising(a) /\ From(a, r)
      /\ \A i \in 1..Len(a) : a[i] \in UpTo(c)
  BY <1>1, KeptRises
<1>3. /\ b \in Seq(DeckCard) /\ Rising(b) /\ From(b, r)
      /\ \A i \in 1..Len(b) : b[i] \in DeckCard \ UpTo(c)
  BY <1>1, KeptRises
<1>4. new = a \o <<c>> \o b
  BY <1>1 DEF Placing
<1>5. PICK m, n \in Nat : m = Len(a) /\ n = Len(b)
  BY <1>2, <1>3
<1>6. /\ new \in Seq(DeckCard) /\ Len(new) = m + 1 + n
      /\ \A i \in 1..m : new[i] = a[i]
      /\ new[m + 1] = c
      /\ \A i \in (m + 2)..(m + 1 + n) : new[i] = b[i - m - 1] /\ i - m - 1 \in 1..n
  BY <1>2, <1>3, <1>4, <1>5
<1>7. \A i \in 1..Len(new) : i \in 1..m \/ i = m + 1 \/ i \in (m + 2)..(m + 1 + n)
  BY <1>6
<1>8. \A d \in DeckCard : d.position \in Nat
  BY DeckBoundAssumption DEF DeckCard
<1>9. ASSUME NEW i \in 1..m PROVE a[i].position < c.position /\ a[i] \in DeckCard
  <2>1. a[i] \in UpTo(c) /\ \E k \in 1..Len(r) : a[i] = r[k]
    BY <1>2, <1>5 DEF From
  <2> QED BY <1>8, <2>1 DEF UpTo
<1>10. ASSUME NEW i \in 1..n PROVE c.position < b[i].position /\ b[i] \in DeckCard
  <2>1. b[i] \in DeckCard \ UpTo(c)
    BY <1>3, <1>5
  <2> QED BY <1>8, <2>1 DEF UpTo
<1>11. Rising(new)
  <2> SUFFICES ASSUME NEW i \in 1..Len(new), NEW j \in 1..Len(new), i < j
               PROVE  new[i].position < new[j].position
    BY DEF Rising
  <2>1. CASE j \in 1..m
    <3>1. i \in 1..m
      BY <1>6, <2>1
    <3> QED BY <1>2, <1>5, <1>6, <2>1, <3>1 DEF Rising
  <2>2. CASE j = m + 1
    <3>1. i \in 1..m
      BY <1>6, <2>2
    <3> QED BY <1>6, <1>9, <2>2, <3>1
  <2>3. CASE j \in (m + 2)..(m + 1 + n)
    <3>1. PICK l \in 1..n : l = j - m - 1 /\ new[j] = b[l]
      BY <1>6, <2>3
    <3>2. CASE i \in 1..m
      <4>1. a[i].position < c.position /\ c.position < b[l].position
        BY <1>9, <1>10, <3>2
      <4>2. a[i].position \in Nat /\ b[l].position \in Nat /\ c.position \in Nat
        BY <1>8, <1>9, <1>10, <3>2
      <4>3. new[i] = a[i] /\ new[j] = b[l]
        BY <1>6, <3>1, <3>2
      <4>4. a[i].position < b[l].position
        BY <4>1, <4>2
      <4> QED BY <4>3, <4>4
    <3>3. CASE i = m + 1
      BY <1>6, <1>10, <3>1, <3>3
    <3>4. CASE i \in (m + 2)..(m + 1 + n)
      <4>1. PICK k \in 1..n : k = i - m - 1 /\ new[i] = b[k]
        BY <1>6, <3>4
      <4>2. k < l
        BY <3>1, <4>1, <2>3, <3>4
      <4> QED BY <1>3, <1>5, <3>1, <4>1, <4>2 DEF Rising
    <3> QED BY <1>7, <3>2, <3>3, <3>4
  <2> QED BY <1>7, <2>1, <2>2, <2>3
<1>12. ASSUME NEW i \in 1..Len(new)
       PROVE  new[i] = c \/ \E k \in 1..Len(r) : new[i] = r[k]
  <2>1. CASE i \in 1..m
    <3>1. new[i] = a[i] /\ i \in 1..Len(a)
      BY <1>5, <1>6, <2>1
    <3> QED BY <1>2, <3>1 DEF From
  <2>2. CASE i = m + 1
    BY <1>6, <2>2
  <2>3. CASE i \in (m + 2)..(m + 1 + n)
    <3>1. PICK l \in 1..Len(b) : new[i] = b[l]
      BY <1>5, <1>6, <2>3
    <3> QED BY <1>3, <3>1 DEF From
  <2> QED BY <1>7, <2>1, <2>2, <2>3
<1> QED BY <1>6, <1>11, <1>12

\* The recursion that defines Sorted has a solution.
LEMMA SortDefined ==
  ASSUME NEW cards, NEW n \in Nat
  PROVE  \E f : SortRun(f, cards, n)
<1> DEFINE G == {m \in Nat : \E f : SortRun(f, cards, m)}
<1>1. 0 \in G
  <2>1. SortRun([i \in 0..0 |-> <<>>], cards, 0)
    BY DEF SortRun, SortStep
  <2> QED BY <2>1
<1>2. ASSUME NEW m \in G PROVE m + 1 \in G
  <2>1. PICK f : SortRun(f, cards, m)
    OBVIOUS
  <2> DEFINE g == [i \in 0..(m + 1) |-> SortStep(f, cards, i)]
  <2>2. ASSUME NEW i \in 0..m PROVE g[i] = f[i]
    <3>1. i \in 0..(m + 1)
      OBVIOUS
    <3>2. f[i] = SortStep(f, cards, i)
      BY <2>1 DEF SortRun
    <3> QED BY <3>1, <3>2
  <2>3. ASSUME NEW i \in 0..(m + 1) PROVE g[i] = SortStep(g, cards, i)
    <3>1. g[i] = SortStep(f, cards, i)
      OBVIOUS
    <3>2. i # 0 => i - 1 \in 0..m
      OBVIOUS
    <3> HIDE DEF g
    <3> QED BY <2>2, <3>1, <3>2 DEF SortStep
  <2> HIDE DEF g
  <2>4. SortRun(g, cards, m + 1)
    BY <2>3 DEF SortRun
  <2> QED BY <2>4
<1>3. G = Nat
  <2>1. G \in SUBSET Nat
    OBVIOUS
  <2> HIDE DEF G
  <2> QED BY <1>1, <1>2, <2>1, NumberInduction
<1>4. n \in G
  BY <1>3
<1> QED BY <1>4

\* The first n cards sorted: by position, and no others.
Sorting(r, cards, n) ==
  /\ r \in Seq(DeckCard) /\ Rising(r)
  /\ \A i \in 1..Len(r) : \E k \in 1..n : r[i] = cards[k]

\* Cards at different positions are sorted, and stay the cards they are.
LEMMA SortedFact ==
  ASSUME NEW cards \in Seq(DeckCard), Distinct(cards), NEW new, new = Sorted(cards)
  PROVE  new \in Seq(DeckCard) /\ Rising(new) /\ From(new, cards)
<1> DEFINE N == Len(cards)
           Step(f, i) == SortStep(f, cards, i)
           F == CHOOSE f : f = [i \in 0..N |-> Step(f, i)]
<1>1. new = F[N]
  BY DEF Sorted, SortStep, Placing, UpTo
<1>2. N \in Nat
  OBVIOUS
<1>3. F = [i \in 0..N |-> Step(F, i)]
  <2> HIDE DEF N
  <2>1. PICK f : SortRun(f, cards, N)
    BY <1>2, SortDefined
  <2> DEFINE g == [i \in 0..N |-> f[i]]
  <2>2. ASSUME NEW i \in 0..N PROVE g[i] = Step(g, i)
    <3>1. g[i] = Step(f, i)
      BY <2>1 DEF SortRun
    <3>2. i # 0 => g[i - 1] = f[i - 1]
      BY <1>2
    <3> HIDE DEF g
    <3> QED BY <3>1, <3>2 DEF SortStep
  <2>3. g = [i \in 0..N |-> g[i]]
    OBVIOUS
  <2> HIDE DEF g, Step
  <2>4. g = [i \in 0..N |-> Step(g, i)]
    BY <2>2, <2>3
  <2> QED BY <2>4
<1> HIDE DEF F
<1> DEFINE G == {n \in Nat : n <= N => Sorting(F[n], cards, n)}
<1>4. 0 \in G
  <2>1. F[0] = <<>>
    BY <1>2, <1>3 DEF SortStep
  <2>2. Sorting(<<>>, cards, 0)
    BY DEF Sorting, Rising
  <2> QED BY <2>1, <2>2
<1>5. ASSUME NEW n \in G PROVE n + 1 \in G
  <2>1. SUFFICES ASSUME n + 1 <= N PROVE Sorting(F[n + 1], cards, n + 1)
    OBVIOUS
  <2>2. n \in Nat /\ n <= N /\ n + 1 \in 0..N /\ n + 1 # 0 /\ (n + 1) - 1 = n /\ n + 1 \in 1..N
    BY <2>1, <1>2
  <2>3. PICK r : r = F[n] /\ Sorting(r, cards, n)
    BY <2>2
  <2>4. PICK c \in DeckCard : c = cards[n + 1]
    BY <2>2
  <2>5. F[n + 1] = Placing(r, c)
    BY <2>2, <2>3, <2>4, <1>3 DEF SortStep
  <2>6. ASSUME NEW k \in 1..Len(r) PROVE r[k].position # c.position
    <3>1. PICK m \in 1..n : r[k] = cards[m]
      BY <2>3 DEF Sorting
    <3>2. m \in 1..N /\ m # n + 1
      BY <2>2
    <3> QED BY <2>2, <2>4, <3>1, <3>2 DEF Distinct
  <2>7. PICK q : q = F[n + 1]
    OBVIOUS
  <2>8. /\ q \in Seq(DeckCard) /\ Rising(q)
        /\ \A i \in 1..Len(q) : q[i] = c \/ \E k \in 1..Len(r) : q[i] = r[k]
    <3>1. r \in Seq(DeckCard) /\ Rising(r)
      BY <2>3 DEF Sorting
    <3>2. q = Placing(r, c)
      BY <2>5, <2>7
    <3> QED BY <2>6, <3>1, <3>2, PlacingFact
  <2>9. ASSUME NEW i \in 1..Len(q) PROVE \E k \in 1..(n + 1) : q[i] = cards[k]
    <3>1. CASE q[i] = c
      <4>1. n + 1 \in 1..(n + 1)
        BY <2>2
      <4> QED BY <2>4, <3>1, <4>1
    <3>2. CASE \E k \in 1..Len(r) : q[i] = r[k]
      <4>1. PICK k \in 1..Len(r) : q[i] = r[k]
        BY <3>2
      <4>2. PICK m \in 1..n : r[k] = cards[m]
        BY <2>3 DEF Sorting
      <4>3. m \in 1..(n + 1)
        BY <2>2
      <4> QED BY <4>1, <4>2, <4>3
    <3> QED BY <2>8, <3>1, <3>2
  <2> QED BY <2>7, <2>8, <2>9 DEF Sorting
<1>6. G = Nat
  <2>1. G \in SUBSET Nat
    OBVIOUS
  <2> HIDE DEF G
  <2> QED BY <1>4, <1>5, <2>1, NumberInduction
<1>7. N \in G
  BY <1>2, <1>6
<1> QED BY <1>1, <1>2, <1>7 DEF Sorting, From

-----------------------------------------------------------------------------
\* The halves are of HalfSize positions each, and within a deck.
LEMMA HalfFact ==
  ASSUME NEW token
  PROVE  /\ HalfOf(token) \in SUBSET (0..(2 * HalfSize - 1))
         /\ IsFiniteSet(HalfOf(token)) /\ Cardinality(HalfOf(token)) = HalfSize
<1>1. HalfSize \in Nat \ {0}
  BY DeckBoundAssumption
<1>2. CASE token \in Monsters
  <2>1. HalfOf(token) = 0..(HalfSize - 1)
    BY <1>2 DEF HalfOf
  <2>2. IsFiniteSet(0..(HalfSize - 1)) /\ Cardinality(0..(HalfSize - 1)) = HalfSize
    BY <1>1, FS_Interval
  <2> QED BY <1>1, <2>1, <2>2
<1>3. CASE token \notin Monsters
  <2>1. HalfOf(token) = HalfSize..(2 * HalfSize - 1)
    BY <1>3 DEF HalfOf
  <2>2. PICK a \in Int, b \in Int : a = HalfSize /\ b = 2 * HalfSize - 1
    BY <1>1
  <2>3. IsFiniteSet(a..b) /\ Cardinality(a..b) = IF a > b THEN 0 ELSE b - a + 1
    BY FS_Interval
  <2> QED BY <1>1, <2>1, <2>2, <2>3
<1> QED BY <1>2, <1>3

\* A half whose positions are all taken is full.
LEMMA FullHalf ==
  ASSUME NEW cards, Ordered(cards), NEW token, HalfOf(token) \subseteq PositionsIn(cards)
  PROVE  Len(CardsIn(HalfOf(token), cards)) = HalfSize
<1> DEFINE half == HalfOf(token)
           set == {c \in DeckCard : c.position \in half}
           r == Kept(cards, set)
<1>1. /\ r \in Seq(DeckCard \cap set)
      /\ \E h : Selects(h, r, cards, set, Len(cards))
  <2> HIDE DEF set
  <2> QED BY KeptSelects DEF Ordered
<1>2. PICK h : Selects(h, r, cards, set, Len(cards))
  BY <1>1
<1>3. CardsIn(half, cards) = r
  BY DEF CardsIn
<1> HIDE DEF r
<1>4. r \in Seq(DeckCard) /\ Rising(r)
  <2> HIDE DEF set
  <2> QED BY KeptRises DEF Ordered, r
<1>5. PICK n \in Nat : n = Len(r)
  BY <1>4
<1> DEFINE f == [i \in 1..n |-> r[i].position]
<1>6. f \in [1..n -> half]
  <2>1. ASSUME NEW i \in 1..n PROVE r[i].position \in half
    BY <1>2, <1>5, <2>1 DEF Selects
  <2> QED BY <2>1
<1>7. \A i, j \in 1..n : f[i] = f[j] => i = j
  <2> SUFFICES ASSUME NEW i \in 1..n, NEW j \in 1..n, i < j PROVE f[i] # f[j]
    <3>1. \A i, j \in 1..n : i < j => f[i] # f[j]
      OBVIOUS
    <3> HIDE DEF f
    <3> QED BY <3>1
  <2>1. r[i].position < r[j].position
    BY <1>4, <1>5 DEF Rising
  <2>2. r[i].position \in half /\ r[j].position \in half
    BY <1>6
  <2>3. r[i].position \in Int /\ r[j].position \in Int
    BY <2>2, HalfFact, DeckBoundAssumption
  <2> QED BY <2>1, <2>3
<1>8. \A p \in half : \E i \in 1..n : f[i] = p
  <2> SUFFICES ASSUME NEW p \in half PROVE \E i \in 1..n : r[i].position = p
    OBVIOUS
  <2>1. PICK m \in 1..Len(cards) : cards[m].position = p
    BY DEF PositionsIn
  <2>2. cards[m] \in set
    BY <2>1 DEF Ordered
  <2>3. PICK i \in 1..n : h[i] = m
    BY <1>2, <1>5, <2>2 DEF Selects
  <2>4. r[i] = cards[m]
    BY <1>2, <1>5, <2>3 DEF Selects
  <2> QED BY <2>1, <2>4
<1>9. ExistsBijection(1..n, half)
  <2> HIDE DEF f, half
  <2>1. f \in Bijection(1..n, half)
    BY <1>6, <1>7, <1>8 DEF Bijection, Injection, Surjection, IsInjective
  <2> QED BY <2>1 DEF ExistsBijection
<1>10. IsFiniteSet(1..n) /\ Cardinality(1..n) = n
  BY FS_Interval
<1>11. Cardinality(half) = n
  <2> HIDE DEF half
  <2> QED BY <1>9, <1>10, FS_Bijection
<1> QED BY <1>3, <1>5, <1>11, HalfFact

\* addCardToDeck keeps a deck in order, and adds the token alone.
LEMMA AddedFact ==
  ASSUME NEW cards, Ordered(cards), NEW token \in Tokens, Accepts(cards, token),
         NEW new, new = Added(cards, token)
  PROVE  /\ Ordered(new)
         /\ \A i \in 1..Len(new) :
              new[i].token = token \/ \E k \in 1..Len(cards) : new[i] = cards[k]
<1> DEFINE left == HalfOf(token) \ PositionsIn(cards)
<1>1. left # {}
  BY FullHalf DEF Accepts
<1>2. left \in SUBSET Nat
  BY HalfFact, DeckBoundAssumption
<1>3. Min(left) \in left
  <2> HIDE DEF left
  <2>1. \E m \in left : \A k \in left : m <= k
    BY <1>1, <1>2, SmallestNumber
  <2> QED BY <2>1 DEF Min
<1>4. PICK c : c = [position |-> Min(left), token |-> token]
  OBVIOUS
<1>5. c \in DeckCard /\ c.token = token /\ c.position \in left
  <2> HIDE DEF left
  <2>1. Min(left) \in 0..(2 * HalfSize - 1)
    BY <1>3, HalfFact DEF left
  <2> QED BY <1>3, <1>4, <2>1 DEF DeckCard
<1>6. PICK more : more = Append(cards, c)
  OBVIOUS
<1>7. PICK n \in Nat : n = Len(cards)
  BY DEF Ordered
<1>8. /\ more \in Seq(DeckCard) /\ Len(more) = n + 1 /\ more[n + 1] = c
      /\ \A i \in 1..n : more[i] = cards[i]
  BY <1>5, <1>6, <1>7 DEF Ordered
<1>9. ASSUME NEW i \in 1..n
      PROVE  cards[i].position # c.position /\ cards[i].token # c.token
  <2>1. cards[i].position \in PositionsIn(cards) /\ cards[i].token \in TokensIn(cards)
    BY <1>7 DEF PositionsIn, TokensIn
  <2> QED BY <1>5, <2>1 DEF Accepts
<1>10. Distinct(more)
  <2> SUFFICES ASSUME NEW i \in 1..(n + 1), NEW j \in 1..(n + 1), i # j
               PROVE  more[i].position # more[j].position /\ more[i].token # more[j].token
    BY <1>8 DEF Distinct
  <2>1. (i \in 1..n \/ i = n + 1) /\ (j \in 1..n \/ j = n + 1)
    OBVIOUS
  <2>2. CASE i \in 1..n /\ j \in 1..n
    BY <1>7, <1>8, <2>2 DEF Ordered, Distinct
  <2> QED BY <1>8, <1>9, <2>1, <2>2
<1>11. Halved(more)
  <2> SUFFICES ASSUME NEW i \in 1..(n + 1) PROVE more[i].position \in HalfOf(more[i].token)
    BY <1>8 DEF Halved
  <2>1. CASE i \in 1..n
    BY <1>7, <1>8, <2>1 DEF Ordered, Halved
  <2>2. CASE i = n + 1
    BY <1>5, <1>8, <2>2
  <2> QED BY <2>1, <2>2
<1>12. new = Sorted(more)
  BY <1>4, <1>6 DEF Added
<1>13. new \in Seq(DeckCard) /\ Rising(new) /\ From(new, more)
  BY <1>8, <1>10, <1>12, SortedFact
<1>14. Halved(new)
  <2> SUFFICES ASSUME NEW i \in 1..Len(new) PROVE new[i].position \in HalfOf(new[i].token)
    BY DEF Halved
  <2>1. PICK k \in 1..Len(more) : new[i] = more[k]
    BY <1>13 DEF From
  <2> QED BY <1>11, <2>1 DEF Halved
<1>15. Distinct(new)
  <2>1. ASSUME NEW i \in 1..Len(new), NEW j \in 1..Len(new), i < j
        PROVE  new[i].position # new[j].position /\ new[i].token # new[j].token
    <3>1. PICK k, l \in 1..Len(more) : new[i] = more[k] /\ new[j] = more[l]
      BY <1>13 DEF From
    <3>2. new[i].position < new[j].position
      BY <1>13, <2>1 DEF Rising
    <3>3. new[i].position \in Int /\ new[j].position \in Int
      <4>1. new[i] \in DeckCard /\ new[j] \in DeckCard
        BY <1>13, <2>1
      <4> QED BY <4>1, DeckBoundAssumption DEF DeckCard
    <3>4. k # l
      BY <3>1, <3>2, <3>3
    <3> QED BY <1>10, <3>1, <3>4 DEF Distinct
  <2>2. ASSUME NEW i \in 1..Len(new), NEW j \in 1..Len(new), i # j
        PROVE  i < j \/ j < i
    BY <2>2
  <2> QED BY <2>1, <2>2 DEF Distinct
<1>16. ASSUME NEW i \in 1..Len(new)
       PROVE  new[i].token = token \/ \E k \in 1..Len(cards) : new[i] = cards[k]
  <2>1. PICK k \in 1..(n + 1) : new[i] = more[k]
    BY <1>8, <1>13 DEF From
  <2>2. k \in 1..n \/ k = n + 1
    OBVIOUS
  <2> QED BY <1>5, <1>7, <1>8, <2>1, <2>2
<1> QED BY <1>13, <1>14, <1>15, <1>16 DEF Ordered

\* removeCardFromDeck keeps a deck in order, and adds nothing.
LEMMA RemovedFact ==
  ASSUME NEW cards, Ordered(cards), NEW set, NEW new, new = Kept(cards, set)
  PROVE  Ordered(new) /\ From(new, cards)
<1>1. /\ new \in Seq(DeckCard) /\ Rising(new) /\ From(new, cards)
  BY KeptRises DEF Ordered
<1>2. PICK h : Selects(h, new, cards, set, Len(cards))
  <2>1. \E h : Selects(h, Kept(cards, set), cards, set, Len(cards))
    BY KeptSelects DEF Ordered
  <2> QED BY <2>1
<1>3. Halved(new)
  BY <1>1 DEF Halved, From, Ordered
<1>4. Distinct(new)
  <2> SUFFICES ASSUME NEW i \in 1..Len(new), NEW j \in 1..Len(new), i # j
               PROVE  new[i].position # new[j].position /\ new[i].token # new[j].token
    BY DEF Distinct
  <2>1. h[i] \in 1..Len(cards) /\ h[j] \in 1..Len(cards) /\ new[i] = cards[h[i]]
        /\ new[j] = cards[h[j]]
    BY <1>2 DEF Selects
  <2>2. h[i] # h[j]
    <3>1. (i < j \/ j < i) /\ h[i] \in Int /\ h[j] \in Int
      BY <1>1, <2>1
    <3>2. i < j => h[i] < h[j]
      BY <1>2 DEF Selects
    <3>3. j < i => h[j] < h[i]
      BY <1>2 DEF Selects
    <3> QED BY <3>1, <3>2, <3>3
  <2> QED BY <2>1, <2>2 DEF Ordered, Distinct
<1> QED BY <1>1, <1>3, <1>4 DEF Ordered

-----------------------------------------------------------------------------
(* The decks and the snapshots are in order                                 *)

\* A deck of u, or what a call of his has read of it.
Good(cards, u) == Ordered(cards) /\ \A i \in 1..Len(cards) : u \in held[cards[i].token]

\* The frames of the calls: one that will write has read its player's own cards, and
\* one that will add a token has seen that the deck accepts it.
Frame == [pc: CallPC, deck: DeckIds \cup {NoId}, seen: Seq(DeckCard),
          token: Tokens \cup {NoToken}]
FrameTyped(f, u) ==
  /\ f \in Frame /\ Good(f.seen, u)
  /\ f.pc \in Reading => f.token \in Tokens
  /\ f.pc = "writeAdded" => Accepts(f.seen, f.token) /\ u \in held[f.token]
CallsTyped == calls \in [Slots -> Frame] /\ \A s \in Slots : FrameTyped(calls[s], s[1])

\* The documents, and the chain.
DecksTyped ==
  \A d \in DOMAIN decks : decks[d].owner \in Users /\ Good(decks[d].cards, decks[d].owner)
ChainTyped ==
  /\ holder \in [Tokens -> Users] /\ held \in [Tokens -> SUBSET Users]
  /\ \A t \in Tokens : holder[t] \in held[t]
  /\ sales \in 0..MaxSales

\* The inductive invariant, with that of the first section.
TypeInv == CallsTyped /\ DecksTyped /\ ChainTyped /\ created \in 0..MaxDecks

\* No cards are in order.
LEMMA EmptyGood == \A u : Good(<<>>, u)
  BY DEF Good, Ordered, Rising, Distinct, Halved

\* A call that is not in flight has read nothing.
LEMMA IdleTyped == \A u : FrameTyped(IdleFrame, u)
  BY EmptyGood DEF FrameTyped, IdleFrame, Frame, CallPC, Reading

\* One call goes on.
LEMMA CallTyped ==
  ASSUME CallsTyped, held' = held, NEW s \in Slots, NEW f, FrameTyped(f, s[1]),
         calls' = [calls EXCEPT ![s] = f]
  PROVE  CallsTyped'
<1>1. calls' \in [Slots -> Frame]
  BY DEF CallsTyped, FrameTyped
<1>2. ASSUME NEW t \in Slots, NEW g, g = calls'[t] PROVE FrameTyped(g, t[1])'
  <2>1. FrameTyped(g, t[1])
    BY <1>2 DEF CallsTyped
  <2> QED BY <2>1 DEF FrameTyped, Good
<1> QED BY <1>1, <1>2 DEF CallsTyped

\* A call has written the cards of a deck, and returned.
LEMMA WriteTyped ==
  ASSUME Inv, TypeInv, NEW s \in Slots, NEW cards, Good(cards, s[1]),
         calls[s].pc \in Bound, Write(s, cards)
  PROVE  TypeInv'
<1>1. UNCHANGED <<holder, sales, held, created>> /\ Return(s)
  BY DEF Write, chain
<1>2. CallsTyped'
  BY <1>1, IdleTyped, CallTyped DEF TypeInv, Return
<1>3. DecksTyped'
  <2>1. ASSUME NEW d \in DOMAIN decks' PROVE (decks'[d].owner \in Users /\ Good(decks'[d].cards, decks'[d].owner))
    <3>1. CASE d = calls[s].deck
      <4>1. d \in DOMAIN decks /\ decks' = [decks EXCEPT ![d].cards = cards]
        BY <2>1, <3>1 DEF Write
      <4>2. decks[d].owner = s[1] /\ decks[d] = [owner |-> decks[d].owner, cards |-> decks[d].cards]
        BY <3>1, <4>1 DEF Inv, FramesOK, FrameOK, IdsOK
      <4>3. decks'[d] = [owner |-> s[1], cards |-> cards]
        <5>1. decks'[d] = [decks[d] EXCEPT !.cards = cards]
          BY <4>1
        <5>2. PICK u, old : u = decks[d].owner /\ old = decks[d].cards
          OBVIOUS
        <5> QED BY <4>2, <5>1, <5>2
      <4>4. s[1] \in Users
        BY SlotAssumption
      <4> QED BY <4>3, <4>4
    <3>2. CASE d # calls[s].deck
      <4>1. d \in DOMAIN decks /\ decks'[d] = decks[d]
        BY <2>1, <3>2 DEF Write
      <4> QED BY <4>1 DEF TypeInv, DecksTyped
    <3> QED BY <3>1, <3>2
  <2> QED BY <1>1, <2>1 DEF DecksTyped, Good
<1> QED BY <1>1, <1>2, <1>3 DEF TypeInv, ChainTyped

\* A call goes on, and nothing else changes.
LEMMA GoTyped ==
  ASSUME TypeInv, NEW s \in Slots, NEW f, FrameTyped(f, s[1]),
         calls' = [calls EXCEPT ![s] = f], UNCHANGED <<decks, chain, created>>
  PROVE  TypeInv'
<1>1. UNCHANGED <<decks, holder, sales, held, created>>
  BY DEF chain
<1>2. CallsTyped'
  BY <1>1, CallTyped DEF TypeInv
<1> QED BY <1>1, <1>2 DEF TypeInv, DecksTyped, ChainTyped, Good

\* createDeck.
LEMMA CreateTyped ==
  ASSUME Inv, TypeInv, NEW s \in Slots, CountDecks(s) \/ SaveDeck(s)
  PROVE  TypeInv'
<1>1. CASE CountDecks(s)
  <2>1. PICK f : f = [calls[s] EXCEPT !.pc = "save"]
    OBVIOUS
  <2>2. FrameTyped(calls[s], s[1]) /\ calls[s] \in Frame
    BY DEF TypeInv, CallsTyped
  <2>3. f \in Frame /\ f.pc = "save" /\ f.seen = calls[s].seen
    BY <2>1, <2>2 DEF Frame, CallPC
  <2>4. FrameTyped(f, s[1])
    BY <2>2, <2>3 DEF FrameTyped, Reading
  <2>5. calls' = [calls EXCEPT ![s] = f]
    BY <1>1, <2>1 DEF CountDecks, TypeInv, CallsTyped
  <2> QED BY <1>1, <2>4, <2>5, GoTyped DEF CountDecks
<1>2. CASE SaveDeck(s)
  <2>1. UNCHANGED <<holder, sales, held>> /\ Return(s) /\ created' = created + 1
        /\ created < MaxDecks
    BY <1>2 DEF SaveDeck, chain
  <2>2. CallsTyped'
    BY <2>1, IdleTyped, CallTyped DEF TypeInv, Return
  <2>3. created' \in 0..MaxDecks
    BY <2>1, DeckBoundAssumption DEF TypeInv
  <2>4. PICK deck : deck = [owner |-> s[1], cards |-> <<>>]
    OBVIOUS
  <2>5. decks' = With(decks, created', deck)
    BY <1>2, <2>4 DEF SaveDeck
  <2>6. deck.owner \in Users /\ Good(deck.cards, deck.owner)
    BY <2>4, EmptyGood, SlotAssumption
  <2>7. DecksTyped'
    BY <2>1, <2>5, <2>6 DEF DecksTyped, TypeInv, With, Good
  <2> QED BY <2>1, <2>2, <2>3, <2>7 DEF TypeInv, ChainTyped
<1> QED BY <1>1, <1>2

\* A call reads a deck of its player.
LEMMA ReadTyped ==
  ASSUME Inv, TypeInv, NEW s \in Slots, ReadToDelete(s) \/ ReadToAdd(s) \/ ReadToRemove(s)
  PROVE  TypeInv'
<1>1. FrameTyped(calls[s], s[1]) /\ calls[s] \in Frame /\ UNCHANGED <<decks, chain, created>>
  BY DEF TypeInv, CallsTyped, ReadToDelete, ReadToAdd, ReadToRemove
<1>2. CASE ReadToDelete(s)
  <2>1. PICK d \in DeckIds : calls' = [calls EXCEPT ![s].pc = "delete", ![s].deck = d]
    BY <1>2 DEF ReadToDelete
  <2>2. PICK f : f = [calls[s] EXCEPT !.pc = "delete", !.deck = d]
    OBVIOUS
  <2>3. f \in Frame /\ f.pc = "delete" /\ f.seen = calls[s].seen
    BY <1>1, <2>2 DEF Frame, CallPC
  <2>4. FrameTyped(f, s[1])
    BY <1>1, <2>3 DEF FrameTyped, Reading
  <2>5. calls' = [calls EXCEPT ![s] = f]
    BY <2>1, <2>2 DEF TypeInv, CallsTyped
  <2> QED BY <1>1, <2>4, <2>5, GoTyped
<1>3. CASE ReadToAdd(s) \/ ReadToRemove(s)
  <2>1. PICK d \in DeckIds, t \in Tokens, pc \in {"checkToken", "writeRemoved"} :
          /\ MayRead(s, d)
          /\ calls' = [calls EXCEPT ![s] = [pc |-> pc, deck |-> d, seen |-> decks[d].cards,
                                            token |-> t]]
    BY <1>3 DEF ReadToAdd, ReadToRemove
  <2>2. PICK f : f = [pc |-> pc, deck |-> d, seen |-> decks[d].cards, token |-> t]
    OBVIOUS
  <2>3. Good(decks[d].cards, s[1]) /\ decks[d].cards \in Seq(DeckCard)
    BY <2>1 DEF MayRead, DecksOf, TypeInv, DecksTyped, Good, Ordered
  <2>4. f \in Frame /\ f.pc = pc /\ f.seen = decks[d].cards /\ f.token \in Tokens
    BY <2>2, <2>3 DEF Frame, CallPC
  <2>5. FrameTyped(f, s[1])
    BY <2>3, <2>4 DEF FrameTyped
  <2>6. calls' = [calls EXCEPT ![s] = f]
    BY <2>1, <2>2
  <2> QED BY <1>1, <2>5, <2>6, GoTyped
<1> QED BY <1>2, <1>3

\* A token passes the checks, or the call returns.
LEMMA CheckTyped ==
  ASSUME Inv, TypeInv, NEW s \in Slots, CheckToken(s)
  PROVE  TypeInv'
<1>1. /\ FrameTyped(calls[s], s[1]) /\ calls[s] \in Frame /\ calls[s].pc = "checkToken"
      /\ UNCHANGED <<decks, chain, created>>
  BY DEF TypeInv, CallsTyped, CheckToken
<1>2. CASE Return(s)
  BY <1>1, <1>2, IdleTyped, GoTyped DEF Return
<1>3. CASE /\ holder[calls[s].token] = s[1] /\ Accepts(calls[s].seen, calls[s].token)
           /\ calls' = [calls EXCEPT ![s].pc = "writeAdded"]
  <2>1. PICK f : f = [calls[s] EXCEPT !.pc = "writeAdded"]
    OBVIOUS
  <2>2. /\ f \in Frame /\ f.pc = "writeAdded" /\ f.seen = calls[s].seen
        /\ f.token = calls[s].token
    BY <1>1, <2>1 DEF Frame, CallPC
  <2>3. f.token \in Tokens
    BY <1>1, <2>2 DEF FrameTyped, Reading
  <2>4. s[1] \in held[f.token]
    BY <1>3, <2>2, <2>3 DEF TypeInv, ChainTyped
  <2>5. FrameTyped(f, s[1])
    BY <1>1, <1>3, <2>2, <2>3, <2>4 DEF FrameTyped
  <2>6. calls' = [calls EXCEPT ![s] = f]
    BY <1>3, <2>1 DEF TypeInv, CallsTyped
  <2> QED BY <1>1, <2>5, <2>6, GoTyped
<1> QED BY <1>2, <1>3, Zenon DEF CheckToken

\* deleteDeck, and the writes of addCardToDeck and removeCardFromDeck.
LEMMA WritesTyped ==
  ASSUME Inv, TypeInv, NEW s \in Slots, DeleteDeck(s) \/ WriteAdded(s) \/ WriteRemoved(s)
  PROVE  TypeInv'
<1>1. FrameTyped(calls[s], s[1])
  BY DEF TypeInv, CallsTyped
<1>2. PICK seen, token : seen = calls[s].seen /\ token = calls[s].token /\ Good(seen, s[1])
  BY <1>1 DEF FrameTyped
<1>3. CASE DeleteDeck(s)
  <2>1. UNCHANGED <<holder, sales, held, created>> /\ Return(s)
        /\ decks' = Without(decks, calls[s].deck)
    BY <1>3 DEF DeleteDeck, chain
  <2>2. CallsTyped'
    BY <2>1, IdleTyped, CallTyped DEF TypeInv, Return
  <2>3. DecksTyped'
    BY <2>1 DEF Without, Restrict, TypeInv, DecksTyped, Good
  <2> QED BY <2>1, <2>2, <2>3 DEF TypeInv, ChainTyped
<1>4. CASE WriteAdded(s)
  <2>1. PICK cards : cards = Added(seen, token)
    OBVIOUS
  <2>2. Accepts(seen, token) /\ token \in Tokens /\ s[1] \in held[token]
    BY <1>1, <1>2, <1>4 DEF WriteAdded, FrameTyped, Reading
  <2>3. /\ Ordered(cards)
        /\ \A i \in 1..Len(cards) :
             cards[i].token = token \/ \E k \in 1..Len(seen) : cards[i] = seen[k]
    BY <1>2, <2>1, <2>2, AddedFact DEF Good
  <2>4. Good(cards, s[1])
    BY <1>2, <2>2, <2>3 DEF Good
  <2>5. calls[s].pc \in Bound /\ Write(s, cards)
    BY <1>2, <1>4, <2>1 DEF WriteAdded, Bound, Reading
  <2> QED BY <2>4, <2>5, WriteTyped
<1>5. CASE WriteRemoved(s)
  <2>1. PICK cards : cards = Kept(seen, {c \in DeckCard : c.token # calls[s].token})
    OBVIOUS
  <2>2. Ordered(cards) /\ From(cards, seen)
    BY <1>2, <2>1, RemovedFact DEF Good
  <2>3. Good(cards, s[1])
    BY <1>2, <2>2 DEF Good, From
  <2>4. calls[s].pc \in Bound /\ Write(s, cards)
    BY <1>2, <1>5, <2>1 DEF WriteRemoved, Bound, Reading
  <2> QED BY <2>3, <2>4, WriteTyped
<1> QED BY <1>3, <1>4, <1>5

\* A token that is sold has been held by its new owner.
LEMMA SoldTyped ==
  ASSUME TypeInv, NEW t \in Tokens, NEW u \in Users, TokenSold(t, u)
  PROVE  TypeInv'
<1>1. /\ UNCHANGED <<decks, calls, created>> /\ sales' = sales + 1 /\ sales < MaxSales
      /\ holder' = [holder EXCEPT ![t] = u] /\ held' = [held EXCEPT ![t] = @ \cup {u}]
  BY DEF TokenSold
<1>2. PICK us : us = held[t] \cup {u}
  OBVIOUS
<1>3. us \in SUBSET Users /\ held[t] \subseteq us /\ u \in us /\ held' = [held EXCEPT ![t] = us]
  BY <1>1, <1>2 DEF TypeInv, ChainTyped
<1>4. /\ holder' \in [Tokens -> Users] /\ held' \in [Tokens -> SUBSET Users]
      /\ \A x \in Tokens : held[x] \subseteq held'[x] /\ holder'[x] \in held'[x]
  BY <1>1, <1>3 DEF TypeInv, ChainTyped
<1>5. sales' \in 0..MaxSales
  BY <1>1, DeckBoundAssumption DEF TypeInv, ChainTyped
<1>6. ASSUME NEW cards, NEW v, Good(cards, v) PROVE Good(cards, v)'
  <2>1. ASSUME NEW i \in 1..Len(cards) PROVE cards[i].token \in Tokens
    <3>1. cards[i] \in DeckCard
      BY <1>6 DEF Good, Ordered
    <3> QED BY <3>1 DEF DeckCard
  <2> QED BY <1>4, <1>6, <2>1 DEF Good
<1>7. DecksTyped'
  BY <1>1, <1>6 DEF TypeInv, DecksTyped
<1>8. CallsTyped'
  <2>1. ASSUME NEW s \in Slots, NEW f, f = calls[s] PROVE FrameTyped(f, s[1])'
    <3>1. FrameTyped(f, s[1])
      BY <2>1 DEF TypeInv, CallsTyped
    <3>2. Good(f.seen, s[1])'
      BY <1>6, <3>1 DEF FrameTyped
    <3>3. f.pc = "writeAdded" => f.token \in Tokens
      BY <3>1 DEF FrameTyped, Reading
    <3> QED BY <1>4, <3>1, <3>2, <3>3 DEF FrameTyped
  <2> QED BY <1>1, <2>1 DEF TypeInv, CallsTyped
<1> QED BY <1>1, <1>4, <1>5, <1>7, <1>8 DEF TypeInv, ChainTyped

\* It is inductive: each write saves what the call has read, edited in order.
LEMMA TypeInvariance == Spec => []TypeInv
<1>1. Init => TypeInv
  <2> SUFFICES ASSUME Init PROVE TypeInv
    OBVIOUS
  <2>1. CallsTyped
    <3>1. \A u : FrameTyped(IdleFrame, u)
      BY IdleTyped
    <3>2. \A s \in Slots : calls[s] = IdleFrame
      BY DEF Init
    <3>3. IdleFrame \in Frame
      BY <3>1 DEF FrameTyped
    <3>4. calls \in [Slots -> Frame]
      BY <3>3 DEF Init
    <3> QED BY <3>1, <3>2, <3>4 DEF CallsTyped
  <2>2. DecksTyped
    BY DEF Init, DecksTyped
  <2>3. ChainTyped
    BY DeckBoundAssumption DEF Init, ChainTyped
  <2>4. created \in 0..MaxDecks
    BY DeckBoundAssumption DEF Init
  <2> QED BY <2>1, <2>2, <2>3, <2>4 DEF TypeInv
<1>2. Inv /\ TypeInv /\ [Next]_vars => TypeInv'
  <2> SUFFICES ASSUME Inv, TypeInv, [Next]_vars PROVE TypeInv'
    OBVIOUS
  <2>1. CASE \E s \in Slots :
               \/ CountDecks(s) \/ SaveDeck(s)
               \/ ReadToDelete(s) \/ DeleteDeck(s)
               \/ ReadToAdd(s) \/ CheckToken(s) \/ WriteAdded(s)
               \/ ReadToRemove(s) \/ WriteRemoved(s)
    BY <2>1, CreateTyped, ReadTyped, CheckTyped, WritesTyped
  <2>2. CASE \E t \in Tokens, u \in Users : TokenSold(t, u)
    BY <2>2, SoldTyped
  <2>3. CASE UNCHANGED vars
    BY <2>3 DEF vars, chain, TypeInv, CallsTyped, FrameTyped, DecksTyped, ChainTyped, Good
  <2> QED BY <2>1, <2>2, <2>3 DEF Next
<1> QED BY <1>1, <1>2, Invariance, PTL DEF Spec

-----------------------------------------------------------------------------
(* Theorems on the cards                                                    *)

\* The calls in flight, the documents and the holders of the tokens are of their types,
\* and the snapshots are lists of cards.
THEOREM TypeCorrect == Spec => []TypeOK
<1>1. Inv /\ TypeInv => TypeOK
  BY DEF Inv, IdsOK, TypeInv, CallsTyped, DecksTyped, ChainTyped, Frame, Good, Ordered, TypeOK
<1> QED
  BY <1>1, Invariance, TypeInvariance, PTL

\* Whatever stale snapshot a handler writes back, a deck is sorted, without
\* duplicates, and each card is in the half of its type.
THEOREM DecksOrdered == Spec => []WellFormed
<1>1. TypeInv => WellFormed
  BY DEF TypeInv, DecksTyped, Good, Ordered, Rising, Distinct, Halved, WellFormed, DeckCard
<1> QED
  BY <1>1, TypeInvariance, PTL

\* A deck names no token that its owner has never held.
THEOREM TokensHeld == Spec => []OnceHeld
<1>1. TypeInv => OnceHeld
  BY DEF TypeInv, DecksTyped, Good, OnceHeld, TokensIn
<1> QED
  BY <1>1, TypeInvariance, PTL
=============================================================================
