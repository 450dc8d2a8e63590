---------------------------- MODULE MatchProofs ----------------------------
(* Theorems about Match, for all decks, boards, jobs, failures and restarts, *)
(* and for every number of tabs.  The sections: what a board is made of, the *)
(* turns and the game that they implement when each player has one call in   *)
(* flight, the timeout that is never forgotten, the cards and the types, the *)
(* decision of the match, and its rewards.                                   *)
EXTENDS Match, DataLemmas

(***************************************************************************)
(* The cards of a match: what is on a board stays sound, whatever a skill, *)
(* an attack or a piece of equipment does to it.                           *)
(***************************************************************************)
USE CardAssumption

\* A card of p's deck that is on the board, alive, and not in the hand any more.
Placed(p, hand, c) ==
  /\ c \in BoardCard
  /\ c.token \in Deck[p] \ hand
  /\ c.equipment # NoCard => c.equipment \in Deck[p] \ hand
  /\ HP(c) > 0

\* Two entries of a board, the first one earlier.
Twins(a, b) ==
  /\ a.position = b.position <=> a.token = b.token
  /\ a.token = b.token => b.equipment # NoCard
  /\ a.equipment = b.equipment => b.equipment = NoCard

\* A board of p next to his hand.
Sound(p, hand, board) ==
  /\ board \in Seq(BoardCard)
  /\ \A i \in 1..Len(board) : Placed(p, hand, board[i])
  /\ \A i, j \in 1..Len(board) : i < j => Twins(board[i], board[j])

\* A status of p: the cards are his, and the board is sound.
Good(p, st) == st \in Status /\ st.onHand \subseteq Deck[p] /\ Sound(p, st.onHand, st.onBoard)

\* Both players' statuses are good.
AllGood(all) == all \in [Players -> Status] /\ \A p \in Players : Good(p, all[p])

-----------------------------------------------------------------------------
\* The index of the first entry of a sequence that is in a set of indices.
LEMMA FirstIndex ==
  ASSUME NEW n \in Nat, NEW I \in SUBSET (1..n), I # {}, NEW m, m = Min(I)
  PROVE  m \in I /\ \A k \in I : m <= k
<1>1. \E x \in I : \A k \in I : x <= k
  <2>1. I \in SUBSET Nat
    OBVIOUS
  <2> QED BY <2>1, SmallestNumber
<1> QED BY <1>1 DEF Min

\* The first HP of a card, if it has one.
HPAt(skills, i) ==
  /\ i \in 1..Len(skills) /\ skills[i].type = "HP"
  /\ \A k \in 1..Len(skills) : k < i => skills[k].type # "HP"

LEMMA HPFact ==
  ASSUME NEW card, card.skills \in Seq(Skill)
  PROVE  /\ HP(card) \in Nat
         /\ \A i : HPAt(card.skills, i) => HP(card) = card.skills[i].value
         /\ HP(card) > 0 => \E i : HPAt(card.skills, i)
<1> DEFINE s == card.skills
           isHP(x) == x.type = "HP"
           I == {i \in 1..Len(s) : isHP(s[i])}
           m == SelectInSeq(s, isHP)
<1>0. HP(card) = IF FirstOf(s, isHP) = {} THEN 0 ELSE Some(FirstOf(s, isHP)).value
  BY DEF HP
<1>1. m = IF I # {} THEN Min(I) ELSE 0
  BY DEF SelectInSeq
<1>2. FirstOf(s, isHP) = IF m = 0 THEN {} ELSE {s[m]}
  BY DEF FirstOf
<1>3. CASE I = {}
  <2>1. HP(card) = 0
    BY <1>0, <1>1, <1>2, <1>3
  <2>2. \A i : ~HPAt(s, i)
    BY <1>3 DEF HPAt
  <2> QED BY <2>1, <2>2
<1>4. CASE I # {}
  <2>1. m = Min(I)
    BY <1>1, <1>4
  <2>2. Len(s) \in Nat /\ I \in SUBSET (1..Len(s))
    OBVIOUS
  <2>3. m \in I /\ \A k \in I : m <= k
    <3> HIDE DEF I, m
    <3> QED BY <2>1, <2>2, <1>4, FirstIndex
  <2>4. HPAt(s, m) /\ \A i : HPAt(s, i) => i = m
    <3> HIDE DEF m
    <3> QED BY <2>3 DEF HPAt
  <2>5. m # 0 /\ FirstOf(s, isHP) = {s[m]}
    <3>1. m # 0
      BY <2>3
    <3> QED BY <3>1, <1>2
  <2>6. HP(card) = s[m].value
    <3>1. Some({s[m]}) = s[m]
      BY DEF Some
    <3> HIDE DEF m
    <3> QED BY <1>0, <2>5, <3>1
  <2>7. s[m] \in Skill
    <3> HIDE DEF m
    <3> QED BY <2>3
  <2>8. s[m].value \in Nat
    <3> HIDE DEF m
    <3> QED BY <2>7 DEF Skill
  <2> HIDE DEF m
  <2> QED BY <2>4, <2>6, <2>8
<1> QED BY <1>3, <1>4

\* The card at a position: the first one on the board that is there.
LEMMA CardsAtFact ==
  ASSUME NEW board \in Seq(BoardCard), NEW position, NEW found, found = CardsAt(board, position)
  PROVE  /\ found = {} => \A i \in 1..Len(board) : board[i].position # position
         /\ found # {} => \E m \in 1..Len(board) :
                             board[m].position = position /\ found = {board[m]}
<1> DEFINE there(c) == c.position = position
           I == {i \in 1..Len(board) : there(board[i])}
           m == SelectInSeq(board, there)
<1>1. m = IF I # {} THEN Min(I) ELSE 0
  BY DEF SelectInSeq
<1>2. found = IF m = 0 THEN {} ELSE {board[m]}
  BY DEF FirstOf, CardsAt
<1>3. CASE I = {}
  BY <1>1, <1>2, <1>3
<1>4. CASE I # {}
  <2>1. m = Min(I)
    BY <1>1, <1>4
  <2>2. Len(board) \in Nat /\ I \in SUBSET (1..Len(board))
    OBVIOUS
  <2>3. m \in I
    <3> HIDE DEF I, m
    <3> QED BY <2>1, <2>2, <1>4, FirstIndex
  <2>4. m # 0
    BY <2>3
  <2> HIDE DEF m
  <2> QED BY <1>2, <2>3, <2>4
<1> QED BY <1>3, <1>4

\* Equipment raises the skills that the card has, and adds others behind them.
LEMMA CombineFact ==
  ASSUME NEW skills \in Seq(Skill), NEW added \in Seq(Skill),
         NEW new, new = CombineSkills(skills, added)
  PROVE  /\ new \in Seq(Skill)
         /\ Len(new) >= Len(skills)
         /\ \A i \in 1..Len(skills) :
              new[i].type = skills[i].type /\ new[i].value >= skills[i].value
<1> DEFINE same(s, a) == a.type = s.type
           I(s) == {i \in 1..Len(added) : same(s, added[i])}
           m(s) == IF I(s) # {} THEN Min(I(s)) ELSE 0
           found(s) == IF m(s) = 0 THEN {} ELSE {added[m(s)]}
           raised(s) == IF found(s) = {} THEN s
                        ELSE [s EXCEPT !.value = @ + Some(found(s)).value]
           fresh == {a \in Skill : \A i \in 1..Len(skills) : skills[i].type # a.type}
           front == [i \in 1..Len(skills) |-> raised(skills[i])]
<1>1. new = front \o Kept(added, fresh)
  BY DEF CombineSkills, FirstOf, SelectInSeq
<1>2. ASSUME NEW s \in Skill
      PROVE  raised(s) \in Skill /\ raised(s).type = s.type /\ raised(s).value >= s.value
  <2>1. CASE I(s) = {}
    BY <2>1 DEF Skill
  <2>2. CASE I(s) # {}
    <3>1. Len(added) \in Nat /\ I(s) \in SUBSET (1..Len(added))
      OBVIOUS
    <3>2. m(s) = Min(I(s))
      BY <2>2
    <3>3. m(s) \in I(s)
      <4> DEFINE J == I(s)
                 k == m(s)
      <4>1. k = Min(J) /\ J \in SUBSET (1..Len(added)) /\ J # {}
        BY <3>1, <3>2, <2>2
      <4> HIDE DEF J, k
      <4>2. k \in J
        BY <3>1, <4>1, FirstIndex
      <4> QED BY <4>2 DEF J, k
    <3>4. PICK k \in 1..Len(added) : k = m(s)
      BY <3>3
    <3> HIDE DEF m
    <3>5. found(s) = {added[k]}
      BY <3>4
    <3>6. added[k] \in Skill /\ Some({added[k]}) = added[k]
      BY <3>4 DEF Some
    <3>7. raised(s) = [s EXCEPT !.value = @ + added[k].value]
      BY <3>5, <3>6
    <3>8. added[k].value \in Nat
      BY <3>6 DEF Skill
    <3> DEFINE v == added[k].value
    <3> HIDE DEF raised, v
    <3>9. v \in Nat /\ raised(s) = [s EXCEPT !.value = s.value + v]
      BY <3>7, <3>8 DEF v
    <3>10. s.type \in SkillTypes /\ s.value \in Nat /\ s = [type |-> s.type, value |-> s.value]
      BY DEF Skill
    <3>11. raised(s) = [type |-> s.type, value |-> s.value + v]
      BY <3>9, <3>10
    <3>12. PICK t, n, r : t = s.type /\ n = s.value /\ r = raised(s)
      OBVIOUS
    <3>13. r = [type |-> t, value |-> n + v] /\ t \in SkillTypes /\ n \in Nat
      BY <3>10, <3>11, <3>12
    <3>14. r \in Skill /\ r.type = t /\ r.value >= n
      BY <3>9, <3>13 DEF Skill
    <3> QED BY <3>12, <3>14
  <2> QED BY <2>1, <2>2
<1> HIDE DEF raised, fresh
<1>3. front \in Seq(Skill) /\ Len(front) = Len(skills)
      /\ \A i \in 1..Len(skills) : front[i] = raised(skills[i])
  BY <1>2
<1>4. Kept(added, fresh) \in Seq(Skill)
  <2> DEFINE K == Kept(added, fresh)
  <2>1. K \in Seq(Skill \cap fresh)
    BY KeptSelects
  <2>2. \A t \in Seq(Skill \cap fresh) : t \in Seq(Skill)
    OBVIOUS
  <2> QED BY <2>1, <2>2
<1>5. PICK a, b : a = front /\ b = Kept(added, fresh)
  OBVIOUS
<1>6. a \in Seq(Skill) /\ b \in Seq(Skill) /\ Len(a) = Len(skills) /\ new = a \o b
      /\ \A i \in 1..Len(skills) : a[i] = raised(skills[i])
  BY <1>1, <1>3, <1>4, <1>5
<1>7. /\ new \in Seq(Skill)
      /\ Len(new) >= Len(skills)
      /\ \A i \in 1..Len(skills) : new[i] = a[i]
  BY <1>6
<1>8. \A i \in 1..Len(skills) : skills[i] \in Skill
  OBVIOUS
<1> QED BY <1>2, <1>6, <1>7, <1>8

\* A card that is alive and new to the board: a monster where there is none, or one
\* that is there with its first equipment.
PutOn(board, card, position, new) ==
  /\ new \in BoardCard /\ HP(new) > 0 /\ new.position = position
  /\ \/ /\ new.token = card /\ new.equipment = NoCard
        /\ \A i \in 1..Len(board) : board[i].position # position
     \/ \E m \in 1..Len(board) :
          /\ board[m].position = position /\ board[m].equipment = NoCard
          /\ new.token = board[m].token /\ new.equipment = card

\* putToBoard puts such a card on the board.
LEMMA PutCardFact ==
  ASSUME NEW board \in Seq(BoardCard), \A i \in 1..Len(board) : HP(board[i]) > 0,
         NEW crystal, NEW card \in Cards, NEW position \in Positions,
         CanPut(crystal, card, board, position),
         NEW new, new = PutCard(card, board, position)
  PROVE  PutOn(board, card, position, new)
<1> DEFINE found == CardsAt(board, position)
<1>1. Skills[card] \in Seq(Skill)
  BY DEF CardAssumption
<1>2. CASE Kind[card] = "MONSTER"
  <2>1. new = [token |-> card, position |-> position, equipment |-> NoCard,
               skills |-> Skills[card]]
    BY <1>2 DEF PutCard
  <2>2. new \in BoardCard
    BY <1>1, <2>1 DEF BoardCard
  <2>3. HP(new) > 0
    <3> DEFINE c == [skills |-> Skills[card]]
    <3>1. HP(c) > 0 /\ c.skills = Skills[card]
      BY <1>2, MonsterAssumption
    <3>2. new.skills = Skills[card]
      BY <2>1
    <3> HIDE DEF c
    <3>3. PICK i : HPAt(Skills[card], i)
      BY <1>1, <3>1, HPFact
    <3>4. HP(c) = Skills[card][i].value /\ HP(new) = Skills[card][i].value
      BY <1>1, <3>1, <3>2, <3>3, HPFact
    <3> QED BY <3>1, <3>4
  <2>4. found = {}
    BY <1>2 DEF CanPut
  <2>5. \A i \in 1..Len(board) : board[i].position # position
    BY <2>4, CardsAtFact
  <2> QED BY <2>1, <2>2, <2>3, <2>5 DEF PutOn
<1>3. CASE Kind[card] # "MONSTER"
  <2>1. Kind[card] = "EQUIPMENT" /\ found # {} /\ Some(found).equipment = NoCard
    BY <1>3 DEF CanPut, CardAssumption
  <2>2. PICK m \in 1..Len(board) : board[m].position = position /\ found = {board[m]}
    BY <2>1, CardsAtFact
  <2>3. Some(found) = board[m] /\ board[m] \in BoardCard
    BY <2>2 DEF Some
  <2> DEFINE added == ArmorAsHP(Skills[card])
             skills == CombineSkills(board[m].skills, added)
  <2>4. new = [board[m] EXCEPT !.equipment = card, !.skills = skills]
    <3>1. new = [Some(found) EXCEPT !.equipment = card,
                                    !.skills = CombineSkills(Some(found).skills, added)]
      BY <2>1 DEF PutCard
    <3> QED BY <2>3, <3>1
  <2>5. added \in Seq(Skill)
    <3>1. \A i \in 1..Len(Skills[card]) : Skills[card][i] \in Skill
      BY <1>1
    <3>2. \A i \in 1..Len(Skills[card]) : added[i] \in Skill
      BY <3>1 DEF ArmorAsHP, Skill, SkillTypes
    <3> QED BY <1>1, <3>2 DEF ArmorAsHP
  <2>6. board[m].skills \in Seq(Skill)
    BY <2>3 DEF BoardCard
  <2> HIDE DEF added
  <2>7. /\ skills \in Seq(Skill) /\ Len(skills) >= Len(board[m].skills)
        /\ \A i \in 1..Len(board[m].skills) :
              /\ skills[i].type = board[m].skills[i].type
              /\ skills[i].value >= board[m].skills[i].value
    BY <2>5, <2>6, CombineFact
  <2> HIDE DEF skills, found
  <2>8. /\ new.token = board[m].token /\ new.equipment = card /\ new.position = position
        /\ new.skills = skills /\ new \in BoardCard
    BY <2>2, <2>3, <2>4, <2>7 DEF BoardCard
  <2>9. HP(new) > 0
    <3>1. PICK i : HPAt(board[m].skills, i)
      BY <2>6, HPFact
    <3>2. HPAt(skills, i)
      <4> DEFINE old == board[m].skills
      <4>1. Len(old) \in Nat /\ Len(skills) \in Nat
        BY <2>6, <2>7
      <4>2. i \in 1..Len(old) /\ old[i].type = "HP"
            /\ \A k \in 1..Len(old) : k < i => old[k].type # "HP"
        BY <3>1 DEF HPAt
      <4>3. \A k \in 1..Len(old) : skills[k].type = old[k].type
        BY <2>7
      <4>4. Len(skills) >= Len(old)
        BY <2>7
      <4> HIDE DEF old
      <4>5. i \in 1..Len(skills) /\ skills[i].type = "HP"
        BY <4>1, <4>2, <4>3, <4>4
      <4>6. ASSUME NEW k \in 1..Len(skills), k < i PROVE skills[k].type # "HP"
        <5>1. k \in 1..Len(old)
          BY <4>1, <4>2, <4>6
        <5> QED BY <4>2, <4>3, <4>6, <5>1
      <4> QED BY <4>5, <4>6 DEF HPAt
    <3>3. HP(board[m]) = board[m].skills[i].value /\ HP(new) = skills[i].value
      BY <2>6, <2>7, <2>8, <3>1, <3>2, HPFact
    <3>4. HP(board[m]) > 0 /\ i \in 1..Len(board[m].skills)
      BY <2>2, <3>1 DEF HPAt
    <3>5. skills[i].value >= board[m].skills[i].value
      BY <2>7, <3>4
    <3>6. skills[i] \in Skill /\ board[m].skills[i] \in Skill
      BY <2>6, <2>7, <3>2, <3>4 DEF HPAt
    <3> QED BY <3>3, <3>4, <3>5, <3>6 DEF Skill
  <2>10. board[m].equipment = NoCard
    BY <2>1, <2>3
  <2> QED BY <2>2, <2>8, <2>9, <2>10 DEF PutOn
<1> QED BY <1>2, <1>3

\* A card that is put goes from the hand to the board.
LEMMA PutGood ==
  ASSUME NEW p \in Players, NEW me, Good(p, me), NEW card \in me.onHand,
         NEW position \in Positions, CanPut(me.crystal, card, me.onBoard, position),
         NEW new, new = Put(me, card, position)
  PROVE  Good(p, new)
<1> DEFINE hand == me.onHand
           board == me.onBoard
           c == PutCard(card, board, position)
<1>1. /\ me \in Status /\ hand \subseteq Deck[p] /\ board \in Seq(BoardCard)
      /\ \A i \in 1..Len(board) : Placed(p, hand, board[i])
      /\ \A i, j \in 1..Len(board) : i < j => Twins(board[i], board[j])
  BY DEF Good, Sound
<1>2. Deck[p] \subseteq Cards /\ card \in Deck[p] /\ card \in Cards /\ NoCard \notin Cards
  BY <1>1, DeckAssumption DEF CardAssumption
<1>3. /\ c \in BoardCard /\ HP(c) > 0 /\ c.position = position
      /\ \/ /\ c.token = card /\ c.equipment = NoCard
            /\ \A i \in 1..Len(board) : board[i].position # position
         \/ \E m \in 1..Len(board) :
              /\ board[m].position = position /\ board[m].equipment = NoCard
              /\ c.token = board[m].token /\ c.equipment = card
  <2>1. \A i \in 1..Len(board) : HP(board[i]) > 0
    BY <1>1 DEF Placed
  <2>2. CanPut(me.crystal, card, board, position) /\ c = PutCard(card, board, position)
    OBVIOUS
  <2>3. PICK k : k = me.crystal
    OBVIOUS
  <2> HIDE DEF board, c
  <2>4. CanPut(k, card, board, position) /\ c = PutCard(card, board, position)
    BY <2>2, <2>3
  <2>5. board \in Seq(BoardCard) /\ card \in Cards
    BY <1>1, <1>2
  <2>6. PutOn(board, card, position, c)
    BY <2>1, <2>4, <2>5, PutCardFact
  <2> QED BY <2>6 DEF PutOn
<1>4. new = [me EXCEPT !.onHand = hand \ {card}, !.onBoard = Append(board, c),
                       !.crystal = me.crystal - Cost[card]]
  BY DEF Put
<1> DEFINE rest == hand \ {card}
           more == Append(board, c)
<1> HIDE DEF c
<1>5. me.crystal - Cost[card] \in Nat
  <2>1. me.crystal >= Cost[card] /\ me.crystal \in Nat /\ Cost[card] \in Nat
    BY <1>1, <1>2 DEF CanPut, Status, CardAssumption
  <2> QED BY <2>1
<1>6. /\ Len(more) = Len(board) + 1 /\ more[Len(board) + 1] = c
      /\ \A i \in 1..Len(board) : more[i] = board[i]
      /\ more \in Seq(BoardCard) /\ Len(board) \in Nat
  BY <1>1, <1>3
<1>7. new \in Status /\ new.onHand = rest /\ new.onBoard = more
  BY <1>1, <1>4, <1>5, <1>6 DEF Status
<1> HIDE DEF more, hand, board, rest
<1>8. ASSUME NEW i \in 1..Len(more) PROVE Placed(p, rest, more[i])
  <2>1. CASE i \in 1..Len(board)
    BY <1>1, <1>6, <2>1 DEF Placed, rest
  <2>2. CASE i = Len(board) + 1
    <3>1. CASE c.token = card /\ c.equipment = NoCard
      BY <1>2, <1>3, <1>6, <2>2, <3>1 DEF Placed, rest
    <3>2. CASE \E m \in 1..Len(board) : c.token = board[m].token /\ c.equipment = card
      <4>1. PICK m \in 1..Len(board) : c.token = board[m].token /\ c.equipment = card
        BY <3>2
      <4>2. board[m].token \in Deck[p] \ hand
        BY <1>1 DEF Placed
      <4> QED BY <1>2, <1>3, <1>6, <2>2, <4>1, <4>2 DEF Placed, rest
    <3> QED BY <1>3, <3>1, <3>2
  <2> QED BY <1>6, <2>1, <2>2
<1>9. ASSUME NEW i \in 1..Len(more), NEW j \in 1..Len(more), i < j PROVE Twins(more[i], more[j])
  <2>0. i \in 1..Len(board)
    BY <1>6, <1>9
  <2>1. CASE j \in 1..Len(board)
    BY <1>1, <1>6, <1>9, <2>0, <2>1
  <2>2. CASE j = Len(board) + 1
    <3>0. more[i] = board[i] /\ more[j] = c /\ Placed(p, hand, board[i])
      BY <1>1, <1>6, <2>0, <2>2
    <3>1. board[i].token # card /\ board[i].equipment # card
      BY <1>2, <3>0 DEF Placed, hand
    <3>2. CASE /\ c.token = card /\ c.equipment = NoCard
               /\ \A k \in 1..Len(board) : board[k].position # position
      BY <1>3, <2>0, <3>0, <3>1, <3>2 DEF Twins
    <3>3. CASE \E m \in 1..Len(board) :
                 /\ board[m].position = position /\ board[m].equipment = NoCard
                 /\ c.token = board[m].token /\ c.equipment = card
      <4>1. PICK m \in 1..Len(board) :
                 /\ board[m].position = position
                 /\ c.token = board[m].token /\ c.equipment = card
        BY <3>3
      <4>2. board[i].position = position <=> board[i].token = board[m].token
        <5>1. CASE i = m
          BY <4>1, <5>1
        <5>2. CASE i < m
          <6>1. Twins(board[i], board[m])
            BY <1>1, <2>0, <5>2
          <6> QED BY <4>1, <6>1 DEF Twins
        <5>3. CASE m < i
          <6>1. Twins(board[m], board[i])
            BY <1>1, <2>0, <5>3
          <6> QED BY <4>1, <6>1 DEF Twins
        <5>4. i \in Int /\ m \in Int
          BY <1>6, <2>0
        <5> QED BY <5>1, <5>2, <5>3, <5>4
      <4>3. card # NoCard
        BY <1>2
      <4> QED BY <1>3, <3>0, <3>1, <4>1, <4>2, <4>3 DEF Twins
    <3> QED BY <1>3, <3>2, <3>3
  <2> QED BY <1>6, <2>1, <2>2
<1>10. rest \subseteq Deck[p]
  BY <1>1 DEF rest
<1> QED BY <1>6, <1>7, <1>8, <1>9, <1>10 DEF Good, Sound

\* The denied card is what is left of the hand.
LEMMA DenyGood ==
  ASSUME NEW p \in Players, NEW me, Good(p, me), NEW card \in me.onHand,
         NEW new, new = Deny(me, card)
  PROVE  Good(p, new)
<1>1. me \in Status /\ card \in Cards /\ me.onHand \subseteq Deck[p]
  BY DEF Good, Status
<1>2. /\ new \in Status /\ new.onHand = {card} /\ new.onBoard = me.onBoard
  <2> DEFINE gain == IF Kind[card] = "MONSTER" THEN 2 ELSE 1
  <2>1. new = [me EXCEPT !.onHand = {card}, !.crystal = me.crystal + gain]
    BY DEF Deny
  <2>2. gain \in Nat
    OBVIOUS
  <2> HIDE DEF gain
  <2>3. PICK n \in Nat : n = me.crystal + gain
    <3>1. me.crystal \in Nat
      BY <1>1 DEF Status
    <3> QED BY <2>2, <3>1
  <2>4. new = [me EXCEPT !.onHand = {card}, !.crystal = n]
    BY <2>1, <2>3
  <2>5. new = [onHand |-> {card}, onBoard |-> me.onBoard, crystal |-> n,
               inTurn |-> me.inTurn, confirmTurn |-> me.confirmTurn]
    BY <1>1, <2>4 DEF Status
  <2>6. me.onBoard \in Seq(BoardCard) /\ me.inTurn \in BOOLEAN /\ me.confirmTurn \in BOOLEAN
    BY <1>1 DEF Status
  <2> QED BY <1>1, <2>5, <2>6 DEF Status
<1>3. \A i \in 1..Len(me.onBoard) : Placed(p, {card}, me.onBoard[i])
  BY <1>1 DEF Good, Sound, Placed
<1> QED BY <1>1, <1>2, <1>3 DEF Good, Sound

\* A card that is hit stays where it is, with fewer HP.
LEMMA SubHPFact ==
  ASSUME NEW card \in BoardCard, NEW damage \in Nat, NEW new, new = SubHP(card, damage)
  PROVE  /\ new \in BoardCard /\ new.token = card.token
         /\ new.position = card.position /\ new.equipment = card.equipment
<1> DEFINE s == card.skills
           down(x) == IF x.type # "HP" THEN x
                      ELSE [x EXCEPT !.value = IF @ > damage THEN @ - damage ELSE 0]
           less == [i \in 1..Len(s) |-> down(s[i])]
<1>1. new = [card EXCEPT !.skills = less]
  BY DEF SubHP
<1>2. s \in Seq(Skill)
  BY DEF BoardCard
<1>3. ASSUME NEW i \in 1..Len(s) PROVE less[i] \in Skill
  <2>1. s[i] \in Skill
    BY <1>2
  <2>2. PICK x : x = s[i]
    OBVIOUS
  <2>3. x.value \in Nat /\ x.type \in SkillTypes /\ x \in Skill
    BY <2>1, <2>2 DEF Skill
  <2>4. PICK n \in Nat : n = IF x.value > damage THEN x.value - damage ELSE 0
    BY <2>3
  <2>5. less[i] = IF x.type # "HP" THEN x ELSE [x EXCEPT !.value = n]
    BY <2>2, <2>4
  <2> HIDE DEF less
  <2> QED BY <2>3, <2>5 DEF Skill
<1>4. less \in Seq(Skill)
  <2>1. less = [i \in 1..Len(s) |-> less[i]] /\ Len(s) \in Nat
    BY <1>2
  <2> HIDE DEF less, s
  <2> QED BY <1>3, <2>1
<1> HIDE DEF less
<1> QED BY <1>1, <1>4 DEF BoardCard

\* A hit leaves a sound board: the struck cards stay what they are, and those that
\* leave take nothing with them.
LEMMA HitSound ==
  ASSUME NEW p, NEW hand, NEW board, Sound(p, hand, board), NEW target, NEW damage \in Nat,
         NEW new, new = Hit(board, target, damage)
  PROVE  Sound(p, hand, new)
<1> DEFINE hit == Struck(board, target, damage)
           living == {c \in BoardCard : HP(c) > 0}
           N == Len(board)
<1>1. board \in Seq(BoardCard) /\ N \in Nat
  BY DEF Sound
<1>2. ASSUME NEW i \in 1..N
      PROVE  /\ hit[i] \in BoardCard /\ hit[i].token = board[i].token
             /\ hit[i].position = board[i].position /\ hit[i].equipment = board[i].equipment
  <2>1. board[i] \in BoardCard
    BY <1>1
  <2>2. hit[i] = IF board[i].token = target.token THEN SubHP(board[i], damage) ELSE board[i]
    BY DEF Struck
  <2> HIDE DEF hit
  <2>3. PICK c \in BoardCard : c = board[i]
    BY <2>1
  <2>4. PICK s : s = SubHP(c, damage)
    OBVIOUS
  <2>5. /\ s \in BoardCard /\ s.token = c.token
        /\ s.position = c.position /\ s.equipment = c.equipment
    BY <2>4, SubHPFact
  <2> QED BY <2>1, <2>2, <2>3, <2>4, <2>5
<1>3. hit \in Seq(BoardCard) /\ Len(hit) = N
  BY <1>1, <1>2 DEF Struck
<1>4. new = Kept(hit, living)
  BY DEF Hit
<1> HIDE DEF hit, living
<1>5. new \in Seq(BoardCard \cap living)
  BY <1>3, <1>4, KeptSelects
<1>6. PICK h : Selects(h, new, hit, living, N)
  <2>1. \E h : Selects(h, Kept(hit, living), hit, living, Len(hit))
    BY <1>3, KeptSelects
  <2> QED BY <1>3, <1>4, <2>1
<1>7. /\ \A i \in 1..Len(new) : h[i] \in 1..N /\ new[i] = hit[h[i]] /\ new[i] \in living
      /\ \A i, j \in 1..Len(new) : i < j => h[i] < h[j]
  BY <1>6 DEF Selects
<1> HIDE DEF N
<1>8. new \in Seq(BoardCard)
  <2>1. \A r \in Seq(BoardCard \cap living) : r \in Seq(BoardCard)
    OBVIOUS
  <2> QED BY <1>5, <2>1
<1>9. ASSUME NEW i \in 1..Len(new) PROVE Placed(p, hand, new[i])
  <2>1. Placed(p, hand, board[h[i]])
    BY <1>7 DEF Sound, N
  <2>2. HP(new[i]) > 0
    BY <1>7 DEF living
  <2> QED BY <1>2, <1>7, <2>1, <2>2 DEF Placed
<1>10. ASSUME NEW i \in 1..Len(new), NEW j \in 1..Len(new), i < j PROVE Twins(new[i], new[j])
  <2>1. h[i] \in 1..N /\ h[j] \in 1..N /\ h[i] < h[j]
    BY <1>7, <1>10
  <2>2. Twins(board[h[i]], board[h[j]])
    BY <2>1 DEF Sound, N
  <2>3. \A k \in {i, j} : /\ new[k].token = board[h[k]].token
                          /\ new[k].position = board[h[k]].position
                          /\ new[k].equipment = board[h[k]].equipment
    BY <1>2, <1>7
  <2> QED BY <2>2, <2>3 DEF Twins
<1> QED BY <1>8, <1>9, <1>10 DEF Sound

\* Whatever a skill does, the board that it leaves is sound.
LEMMA CastSkillSound ==
  ASSUME NEW p, NEW hand, NEW board, Sound(p, hand, board), NEW card, NEW skill \in Skill,
         NEW new \in CastSkill(card, skill, board)
  PROVE  Sound(p, hand, new)
<1> DEFINE T == Targets(card.position, skill.type, board)
<1>1. CASE ~CanAttack(card.position, skill.type) \/ T = {}
  BY <1>1 DEF CastSkill
<1>2. CASE ~(~CanAttack(card.position, skill.type) \/ T = {})
  <2>1. new \in {Hit(board, t, d) : t \in T, d \in Damages(skill)}
    BY <1>2 DEF CastSkill
  <2>2. PICK t \in T, d \in Damages(skill) : new = Hit(board, t, d)
    BY <2>1
  <2>3. d \in Nat
    BY DEF Damages, Skill
  <2> QED BY <2>2, <2>3, HitSound
<1> QED BY <1>1, <1>2

\* f follows the loop of CastSkills over the first n skills.
CastStep(f, card, board, i) ==
  IF i = 0 THEN {board} ELSE UNION {CastSkill(card, card.skills[i], b) : b \in f[i - 1]}
CastRun(f, card, board, n) == \A i \in 0..n : f[i] = CastStep(f, card, board, i)

\* The recursion that defines CastSkills has a solution.
LEMMA CastSkillsRuns ==
  ASSUME NEW card, NEW board, NEW n \in Nat
  PROVE  \E f : CastRun(f, card, board, n)
<1> DEFINE G == {m \in Nat : \E f : CastRun(f, card, board, m)}
<1>1. 0 \in G
  <2>1. CastRun([i \in 0..0 |-> {board}], card, board, 0)
    BY DEF CastRun, CastStep
  <2> QED BY <2>1
<1>2. ASSUME NEW m \in G PROVE m + 1 \in G
  <2>1. PICK f : CastRun(f, card, board, m)
    OBVIOUS
  <2> DEFINE g == [i \in 0..(m + 1) |-> CastStep(f, card, board, i)]
  <2>2. ASSUME NEW i \in 0..m PROVE g[i] = f[i]
    <3>1. i \in 0..(m + 1)
      OBVIOUS
    <3>2. f[i] = CastStep(f, card, board, i)
      BY <2>1 DEF CastRun
    <3> QED BY <3>1, <3>2
  <2>3. ASSUME NEW i \in 0..(m + 1) PROVE g[i] = CastStep(g, card, board, i)
    <3>1. g[i] = CastStep(f, card, board, i)
      OBVIOUS
    <3>2. i # 0 => i - 1 \in 0..m
      OBVIOUS
    <3> HIDE DEF g
    <3> QED BY <2>2, <3>1, <3>2 DEF CastStep
  <2> HIDE DEF g
  <2>4. CastRun(g, card, board, m + 1)
    BY <2>3 DEF CastRun
  <2> QED BY <2>4
<1>3. G = Nat
  <2>1. G \in SUBSET Nat
    OBVIOUS
  <2> HIDE DEF G
  <2> QED BY <1>1, <1>2, <2>1, NumberInduction
<1>4. n \in G
  BY <1>3
<1> QED BY <1>4

\* The skills of a card leave sound boards.
LEMMA CastSkillsSound ==
  ASSUME NEW p, NEW hand, NEW board, Sound(p, hand, board), NEW card, card.skills \in Seq(Skill),
         NEW new \in CastSkills(card, board)
  PROVE  Sound(p, hand, new)
<1> DEFINE N == Len(card.skills)
           Step(f, i) == CastStep(f, card, board, i)
           F == CHOOSE f : f = [i \in 0..N |-> Step(f, i)]
<1>1. CastSkills(card, board) = F[N]
  BY DEF CastSkills, CastStep
<1>2. N \in Nat
  OBVIOUS
<1>3. F = [i \in 0..N |-> Step(F, i)]
  <2> HIDE DEF N
  <2>1. PICK f : CastRun(f, card, board, N)
    BY <1>2, CastSkillsRuns
  <2> DEFINE g == [i \in 0..N |-> f[i]]
  <2>2. ASSUME NEW i \in 0..N PROVE g[i] = Step(g, i)
    <3>1. g[i] = Step(f, i)
      BY <2>1 DEF CastRun
    <3>2. i # 0 => g[i - 1] = f[i - 1]
      BY <1>2
    <3> HIDE DEF g
    <3> QED BY <3>1, <3>2 DEF CastStep
  <2>3. g = [i \in 0..N |-> g[i]]
    OBVIOUS
  <2> HIDE DEF g, Step
  <2>4. g = [i \in 0..N |-> Step(g, i)]
    BY <2>2, <2>3
  <2> QED BY <2>4
<1> HIDE DEF F
<1> DEFINE G == {n \in Nat : n <= N => \A b \in F[n] : Sound(p, hand, b)}
<1>4. 0 \in G
  BY <1>2, <1>3 DEF CastStep
<1>5. ASSUME NEW n \in G PROVE n + 1 \in G
  <2>1. SUFFICES ASSUME n + 1 <= N, NEW b \in F[n + 1] PROVE Sound(p, hand, b)
    OBVIOUS
  <2>2. n \in Nat /\ n <= N /\ n + 1 \in 0..N /\ n + 1 # 0 /\ (n + 1) - 1 = n
        /\ n + 1 \in 1..N
    BY <2>1, <1>2
  <2>3. F[n + 1] = UNION {CastSkill(card, card.skills[n + 1], a) : a \in F[n]}
    BY <2>2, <1>3 DEF CastStep
  <2>4. PICK a \in F[n] : b \in CastSkill(card, card.skills[n + 1], a)
    BY <2>3
  <2>5. Sound(p, hand, a)
    BY <2>2
  <2> QED BY <2>2, <2>4, <2>5, CastSkillSound
<1>6. G = Nat
  <2>1. G \in SUBSET Nat
    OBVIOUS
  <2> HIDE DEF G
  <2> QED BY <1>4, <1>5, <2>1, NumberInduction
<1>7. N \in G
  BY <1>2, <1>6
<1> QED BY <1>1, <1>2, <1>7

\* f follows the loop of Attack over the first n attackers.
AttackStep(f, attackers, board, i) ==
  IF i = 0 THEN {board} ELSE UNION {CastSkills(attackers[i], b) : b \in f[i - 1]}
AttackRun(f, attackers, board, n) == \A i \in 0..n : f[i] = AttackStep(f, attackers, board, i)

\* The recursion that defines Attack has a solution.
LEMMA AttackRuns ==
  ASSUME NEW attackers, NEW board, NEW n \in Nat
  PROVE  \E f : AttackRun(f, attackers, board, n)
<1> DEFINE G == {m \in Nat : \E f : AttackRun(f, attackers, board, m)}
<1>1. 0 \in G
  <2>1. AttackRun([i \in 0..0 |-> {board}], attackers, board, 0)
    BY DEF AttackRun, AttackStep
  <2> QED BY <2>1
<1>2. ASSUME NEW m \in G PROVE m + 1 \in G
  <2>1. PICK f : AttackRun(f, attackers, board, m)
    OBVIOUS
  <2> DEFINE g == [i \in 0..(m + 1) |-> AttackStep(f, attackers, board, i)]
  <2>2. ASSUME NEW i \in 0..m PROVE g[i] = f[i]
    <3>1. i \in 0..(m + 1)
      OBVIOUS
    <3>2. f[i] = AttackStep(f, attackers, board, i)
      BY <2>1 DEF AttackRun
    <3> QED BY <3>1, <3>2
  <2>3. ASSUME NEW i \in 0..(m + 1) PROVE g[i] = AttackStep(g, attackers, board, i)
    <3>1. g[i] = AttackStep(f, attackers, board, i)
      OBVIOUS
    <3>2. i # 0 => i - 1 \in 0..m
      OBVIOUS
    <3> HIDE DEF g
    <3> QED BY <2>2, <3>1, <3>2 DEF AttackStep
  <2> HIDE DEF g
  <2>4. AttackRun(g, attackers, board, m + 1)
    BY <2>3 DEF AttackRun
  <2> QED BY <2>4
<1>3. G = Nat
  <2>1. G \in SUBSET Nat
    OBVIOUS
  <2> HIDE DEF G
  <2> QED BY <1>1, <1>2, <2>1, NumberInduction
<1>4. n \in G
  BY <1>3
<1> QED BY <1>4

\* An attack leaves sound boards.
LEMMA AttackSound ==
  ASSUME NEW p, NEW hand, NEW board, Sound(p, hand, board), NEW attackers \in Seq(BoardCard),
         NEW new \in Attack(attackers, board)
  PROVE  Sound(p, hand, new)
<1> DEFINE N == Len(attackers)
           Step(f, i) == AttackStep(f, attackers, board, i)
           F == CHOOSE f : f = [i \in 0..N |-> Step(f, i)]
<1>1. Attack(attackers, board) = F[N]
  BY DEF Attack, AttackStep
<1>2. N \in Nat
  OBVIOUS
<1>3. F = [i \in 0..N |-> Step(F, i)]
  <2> HIDE DEF N
  <2>1. PICK f : AttackRun(f, attackers, board, N)
    BY <1>2, AttackRuns
  <2> DEFINE g == [i \in 0..N |-> f[i]]
  <2>2. ASSUME NEW i \in 0..N PROVE g[i] = Step(g, i)
    <3>1. g[i] = Step(f, i)
      BY <2>1 DEF AttackRun
    <3>2. i # 0 => g[i - 1] = f[i - 1]
      BY <1>2
    <3> HIDE DEF g
    <3> QED BY <3>1, <3>2 DEF AttackStep
  <2>3. g = [i \in 0..N |-> g[i]]
    OBVIOUS
  <2> HIDE DEF g, Step
  <2>4. g = [i \in 0..N |-> Step(g, i)]
    BY <2>2, <2>3
  <2> QED BY <2>4
<1> HIDE DEF F
<1> DEFINE G == {n \in Nat : n <= N => \A b \in F[n] : Sound(p, hand, b)}
<1>4. 0 \in G
  BY <1>2, <1>3 DEF AttackStep
<1>5. ASSUME NEW n \in G PROVE n + 1 \in G
  <2>1. SUFFICES ASSUME n + 1 <= N, NEW b \in F[n + 1] PROVE Sound(p, hand, b)
    OBVIOUS
  <2>2. n \in Nat /\ n <= N /\ n + 1 \in 0..N /\ n + 1 # 0 /\ (n + 1) - 1 = n
        /\ n + 1 \in 1..N
    BY <2>1, <1>2
  <2>3. F[n + 1] = UNION {CastSkills(attackers[n + 1], a) : a \in F[n]}
    BY <2>2, <1>3 DEF AttackStep
  <2>4. PICK a \in F[n] : b \in CastSkills(attackers[n + 1], a)
    BY <2>3
  <2>5. Sound(p, hand, a)
    BY <2>2
  <2>6. PICK card : card = attackers[n + 1]
    OBVIOUS
  <2>7. card \in BoardCard
    BY <2>2, <2>6
  <2>8. card.skills \in Seq(Skill)
    BY <2>7 DEF BoardCard
  <2> QED BY <2>4, <2>5, <2>6, <2>8, CastSkillsSound
<1>6. G = Nat
  <2>1. G \in SUBSET Nat
    OBVIOUS
  <2> HIDE DEF G
  <2> QED BY <1>4, <1>5, <2>1, NumberInduction
<1>7. N \in G
  BY <1>2, <1>6
<1> QED BY <1>1, <1>2, <1>7
HIDE CardAssumption

USE PlayerAssumption, SlotAssumption

(***************************************************************************)
(* The turns of a match: with one call per player, the handlers play Game. *)
(***************************************************************************)
\* The clients wait for an answer before they call again.
Serial == \A s, t \in Slots : s[1] = t[1] => s = t

-----------------------------------------------------------------------------
(* The inductive invariant                                                  *)

\* What putToBoard, denyCard or confirmTurn of p may make of `all`.
Acted(all, p, next) ==
  LET me == all[p] IN
  /\ MayAct(me)
  /\ \/ \E card \in me.onHand, position \in Positions :
          /\ CanPut(me.crystal, card, me.onBoard, position)
          /\ next = [all EXCEPT ![p] = Put(me, card, position)]
     \/ \E card \in me.onHand : next = [all EXCEPT ![p] = Deny(me, card)]
     \/ \E board \in Attack(me.onBoard, all[Opponent(p)].onBoard) :
          next = [all EXCEPT ![Opponent(p)].onBoard = board, ![p].confirmTurn = TRUE]

\* What endTurn of p makes of `all`.
Ended(all, p, next) ==
  all[p].inTurn /\ all[p].confirmTurn /\ next = PassTurn(all, p)

\* A function on the players whose values have the fields of a status.
StatusFields == {"onHand", "onBoard", "crystal", "inTurn", "confirmTurn"}
StatusOK(st) == DOMAIN st = StatusFields /\ st = [x \in StatusFields |-> st[x]]
Shaped(all) ==
  /\ DOMAIN all = Players /\ all = [p \in Players |-> all[p]]
  /\ \A p \in Players : StatusOK(all[p])

\* A match has the two players, in one of the two orders.
OrderOK == order = <<>> \/ \E p \in Players : order = <<p, Opponent(p)>>

\* The awaits of endTurn between the read and the write.
Moving == {"removeJob", "addJob", "writeTurn"}

\* The local variables of a call.
FrameFields == {"pc", "next", "job", "winner"}

\* What a call of p is about to write follows from the order o and the statuses
\* `all` of now.
FrameOK(o, all, f, p) ==
  /\ DOMAIN f = FrameFields /\ f = [x \in FrameFields |-> f[x]]
  /\ f.pc # "idle" => o # <<>>
  /\ f.pc = "write" => Acted(all, p, f.next)
  /\ f.pc \in Moving => Ended(all, p, f.next)
  /\ f.pc = "setWinner" => f.winner # Nobody

\* Every call in flight is as FrameOK says.
FramesOK ==
  /\ DOMAIN calls = Slots /\ calls = [s \in Slots |-> calls[s]]
  /\ \A s \in Slots : FrameOK(order, statuses, calls[s], s[1])

\* A timeout belongs to a match, and one that is about to decide it has a winner.
JobsOK ==
  /\ jobs = [j \in DOMAIN jobs |-> jobs[j]]
  /\ \A j \in DOMAIN jobs :
       /\ DOMAIN jobs[j] = {"state", "winner"}
       /\ jobs[j] = [x \in {"state", "winner"} |-> jobs[j][x]]
       /\ jobs[j].state = "setWinner" => jobs[j].winner # Nobody
       /\ order # <<>>

\* createMatch saves a match where there is none, and then queues its timeout.
CreatorOK ==
  /\ DOMAIN creator = {"pc", "job"} /\ creator = [x \in {"pc", "job"} |-> creator[x]]
  /\ creator.pc = "save" => order = <<>>
  /\ creator.pc = "addJob" => order # <<>>

\* The parts together: OneInTurn needs all the others to be inductive.
Inv == OrderOK /\ Shaped(statuses) /\ OneInTurn /\ FramesOK /\ JobsOK /\ CreatorOK

-----------------------------------------------------------------------------
(* Facts about statuses                                                     *)

\* The two players are each other's opponents, and there is no third.
LEMMA OpponentFact ==
  ASSUME NEW p \in Players
  PROVE  Opponent(p) \in Players /\ Opponent(p) # p /\ Players = {p, Opponent(p)}
  BY DEF Opponent

\* putToBoard leaves the turn of its player alone, and his confirmation.
LEMMA PutFact ==
  ASSUME NEW st, StatusOK(st), NEW card, NEW position, NEW new, new = Put(st, card, position)
  PROVE  StatusOK(new) /\ new.inTurn = st.inTurn /\ new.confirmTurn = st.confirmTurn
  BY DEF StatusOK, StatusFields, Put

\* denyCard leaves the turn of its player alone, and his confirmation.
LEMMA DenyFact ==
  ASSUME NEW st, StatusOK(st), NEW card, NEW new, new = Deny(st, card)
  PROVE  StatusOK(new) /\ new.inTurn = st.inTurn /\ new.confirmTurn = st.confirmTurn
  BY DEF StatusOK, StatusFields, Deny

\* An act of p leaves the turn alone, and confirms nobody but p.
LEMMA ActedFact ==
  ASSUME NEW all, Shaped(all), NEW p \in Players, NEW next, Acted(all, p, next)
  PROVE  /\ Shaped(next)
         /\ \A q \in Players : /\ next[q].inTurn = all[q].inTurn
                               /\ q # p => next[q].confirmTurn = all[q].confirmTurn
<1>0. StatusOK(all[p]) /\ DOMAIN all = Players
  BY DEF Shaped
<1>1. ASSUME NEW new, StatusOK(new), new.inTurn = all[p].inTurn,
             next = [all EXCEPT ![p] = new]
      PROVE  /\ Shaped(next)
             /\ \A q \in Players : /\ next[q].inTurn = all[q].inTurn
                                   /\ q # p => next[q].confirmTurn = all[q].confirmTurn
  <2>1. /\ DOMAIN next = Players /\ next = [q \in Players |-> next[q]]
        /\ \A q \in Players : next[q] = IF q = p THEN new ELSE all[q]
    BY <1>0, <1>1
  <2>2. \A q \in Players : StatusOK(next[q])
    BY <1>1, <2>1 DEF Shaped
  <2> QED
    BY <1>1, <2>1, <2>2 DEF Shaped
<1>2. CASE \E card \in all[p].onHand, position \in Positions :
             next = [all EXCEPT ![p] = Put(all[p], card, position)]
  <2>1. PICK card, position : next = [all EXCEPT ![p] = Put(all[p], card, position)]
    BY <1>2
  <2>2. PICK new : new = Put(all[p], card, position)
    OBVIOUS
  <2>3. StatusOK(new) /\ new.inTurn = all[p].inTurn
    BY <1>0, <2>2, PutFact
  <2>4. next = [all EXCEPT ![p] = new]
    BY <2>1, <2>2
  <2> QED
    BY <2>3, <2>4, <1>1
<1>3. CASE \E card \in all[p].onHand : next = [all EXCEPT ![p] = Deny(all[p], card)]
  <2>1. PICK card : next = [all EXCEPT ![p] = Deny(all[p], card)]
    BY <1>3
  <2>2. PICK new : new = Deny(all[p], card)
    OBVIOUS
  <2>3. StatusOK(new) /\ new.inTurn = all[p].inTurn
    BY <1>0, <2>2, DenyFact
  <2>4. next = [all EXCEPT ![p] = new]
    BY <2>1, <2>2
  <2> QED
    BY <2>3, <2>4, <1>1
<1>4. CASE \E board :
             next = [all EXCEPT ![Opponent(p)].onBoard = board, ![p].confirmTurn = TRUE]
  <2>1. PICK board :
             next = [all EXCEPT ![Opponent(p)].onBoard = board, ![p].confirmTurn = TRUE]
    BY <1>4
  <2>2. Opponent(p) \in Players /\ Opponent(p) # p
    BY OpponentFact
  <2>3. /\ DOMAIN next = Players /\ next = [q \in Players |-> next[q]]
        /\ \A q \in Players : q # p /\ q # Opponent(p) => next[q] = all[q]
        /\ next[p] = [all[p] EXCEPT !.confirmTurn = TRUE]
        /\ next[Opponent(p)] = [all[Opponent(p)] EXCEPT !.onBoard = board]
    <3>1. next = [q \in Players |->
                    IF q = p THEN [all[p] EXCEPT !.confirmTurn = TRUE]
                    ELSE IF q = Opponent(p) THEN [all[q] EXCEPT !.onBoard = board]
                    ELSE all[q]]
      <4> DEFINE o == Opponent(p)
                 half == [all EXCEPT ![o] = [all[o] EXCEPT !.onBoard = board]]
      <4>1. next = [half EXCEPT ![p] = [half[p] EXCEPT !.confirmTurn = TRUE]]
        BY <2>1
      <4>2. half = [q \in Players |->
                      IF q = o THEN [all[q] EXCEPT !.onBoard = board] ELSE all[q]]
        BY DEF Shaped
      <4>3. half[p] = all[p]
        BY <2>2, <4>2
      <4> QED
        BY <4>1, <4>2, <4>3
    <3> QED
      BY <2>2, <3>1
  <2> QED
    BY <2>2, <2>3 DEF Shaped, StatusOK, StatusFields
<1> QED
  BY <1>2, <1>3, <1>4 DEF Acted

\* The end of p's turn makes it the turn of the opponent, who is not confirmed.
LEMMA EndedFact ==
  ASSUME NEW all, Shaped(all), NEW p \in Players, NEW next, Ended(all, p, next)
  PROVE  /\ Shaped(next)
         /\ ~next[p].inTurn /\ ~next[p].confirmTurn
         /\ next[Opponent(p)].inTurn /\ ~next[Opponent(p)].confirmTurn
<1> DEFINE o == Opponent(p)
<1>1. o \in Players /\ o # p /\ Players = {p, o}
  BY OpponentFact
<1>2. /\ DOMAIN next = Players /\ next = [q \in Players |-> next[q]]
      /\ next[p] = [all[p] EXCEPT !.inTurn = FALSE, !.confirmTurn = FALSE]
      /\ next[o] = [all[o] EXCEPT !.inTurn = TRUE, !.confirmTurn = FALSE, !.crystal = @ + 3]
  BY <1>1 DEF Shaped, Ended, PassTurn
<1>3. StatusOK(next[p]) /\ ~next[p].inTurn /\ ~next[p].confirmTurn
  BY <1>2 DEF Shaped, StatusOK, StatusFields
<1>4. StatusOK(next[o]) /\ next[o].inTurn /\ ~next[o].confirmTurn
  <2>1. StatusOK(all[o])
    BY <1>1 DEF Shaped
  <2> HIDE DEF o
  <2> QED
    BY <1>2, <2>1 DEF StatusOK, StatusFields
<1> QED
  BY <1>1, <1>2, <1>3, <1>4 DEF Shaped

\* Only the player in turn has a call that is going to write.
LEMMA OneWriter ==
  ASSUME Serial, Inv, NEW s \in Slots, NEW t \in Slots,
         calls[s].pc \in Moving \cup {"write"}, calls[t].pc \in Moving \cup {"write"}
  PROVE  s = t
<1>1. s[1] \in Players /\ t[1] \in Players
  OBVIOUS
<1>2. statuses[s[1]].inTurn /\ statuses[t[1]].inTurn
  BY <1>1 DEF Inv, FramesOK, FrameOK, Acted, Ended, MayAct, Moving
<1>3. order # <<>>
  BY DEF Inv, FramesOK, FrameOK, Moving
<1>4. s[1] = t[1]
  BY <1>1, <1>2, <1>3, OpponentFact DEF Inv, OneInTurn
<1> QED
  BY <1>4 DEF Serial

-----------------------------------------------------------------------------
(* The parts of the invariant that a step can disturb                       *)

\* A call that has not begun, or has returned.
LEMMA IdleOK ==
  ASSUME NEW o, NEW all, NEW p
  PROVE  FrameOK(o, all, IdleFrame, p)
  BY DEF FrameOK, FrameFields, IdleFrame, Moving

\* One call goes on, while the document stays.
LEMMA OneFrame ==
  ASSUME FramesOK, order' = order, statuses' = statuses, NEW s \in Slots, NEW f,
         FrameOK(order, statuses, f, s[1]), calls' = [calls EXCEPT ![s] = f]
  PROVE  FramesOK'
  BY DEF FramesOK

\* A call returns, while the document stays.
LEMMA ReturnFrames ==
  ASSUME FramesOK, order' = order, statuses' = statuses, NEW s \in Slots, Return(s)
  PROVE  FramesOK'
  BY OneFrame, IdleOK DEF Return

\* No call goes on, and the document stays.
LEMMA SameFrames ==
  ASSUME FramesOK, order' = order, statuses' = statuses, calls' = calls
  PROVE  FramesOK'
  BY DEF FramesOK

\* A call goes to another await of its handler.
LEMMA GotoFrames ==
  ASSUME FramesOK, order' = order, statuses' = statuses, NEW s \in Slots, NEW pc, NEW job,
         calls[s].pc # "idle",
         pc = "setWinner" => calls[s].winner # Nobody,
         pc \in Moving \cup {"setWinner", "award"},
         pc \in Moving => calls[s].pc \in Moving,
         calls' = [calls EXCEPT ![s].pc = pc] \/ calls' = [calls EXCEPT ![s].pc = pc, ![s].job = job]
  PROVE  FramesOK'
<1>1. FrameOK(order, statuses, calls[s], s[1])
  BY DEF FramesOK
<1>2. PICK f : calls' = [calls EXCEPT ![s] = f]
               /\ (f = [calls[s] EXCEPT !.pc = pc] \/ f = [calls[s] EXCEPT !.pc = pc, !.job = job])
  BY <1>1 DEF FramesOK
<1>3. FrameOK(order, statuses, f, s[1])
  BY <1>1, <1>2 DEF FrameOK, FrameFields, Moving
<1> QED
  BY <1>2, <1>3, OneFrame

\* The rest of the invariant, while the document and the jobs stay.
LEMMA SameJobs ==
  ASSUME JobsOK, order' = order, jobs' = jobs
  PROVE  JobsOK'
  BY DEF JobsOK

\* What the invariant says of the document holds while it stays.
LEMMA SameStatuses ==
  ASSUME Inv, order' = order, statuses' = statuses
  PROVE  OrderOK' /\ Shaped(statuses)' /\ OneInTurn'
  BY DEF Inv, OrderOK, Shaped, StatusOK, OneInTurn

\* createMatch does not go on, and the match is neither created nor lost.
LEMMA SameCreator ==
  ASSUME CreatorOK, order' = order, creator' = creator
  PROVE  CreatorOK'
  BY DEF CreatorOK

\* A job is queued, or starts again.
LEMMA QueuedJob ==
  ASSUME JobsOK, order' = order, order # <<>>, QueueTimeout
  PROVE  JobsOK'
  BY DEF JobsOK, QueueTimeout, With

\* A job is removed: by removeTimeoutJob, or by Bull when it is completed.
LEMMA RemovedJob ==
  ASSUME JobsOK, order' = order, NEW j, jobs' = Without(jobs, j)
  PROVE  JobsOK'
  BY DEF JobsOK, Without, Restrict

\* One job changes its state.
LEMMA OneJob ==
  ASSUME JobsOK, order' = order, NEW j \in DOMAIN jobs, NEW job,
         DOMAIN job = {"state", "winner"}, job = [x \in {"state", "winner"} |-> job[x]],
         job.state = "setWinner" => job.winner # Nobody,
         jobs' = [jobs EXCEPT ![j] = job]
  PROVE  JobsOK'
  BY DEF JobsOK

\* A job that has decided goes on.
LEMMA JobGoesOn ==
  ASSUME JobsOK, order' = order, NEW j \in DOMAIN jobs, NEW state,
         state # "setWinner", jobs' = [jobs EXCEPT ![j].state = state]
  PROVE  JobsOK'
<1>1. PICK job : job = [jobs[j] EXCEPT !.state = state] /\ jobs' = [jobs EXCEPT ![j] = job]
  BY DEF JobsOK
<1>2. DOMAIN job = {"state", "winner"} /\ job = [x \in {"state", "winner"} |-> job[x]]
      /\ job.state = state
  BY <1>1 DEF JobsOK
<1> QED
  BY <1>1, <1>2, OneJob

-----------------------------------------------------------------------------
(* The invariant is inductive                                               *)

\* No match, no calls and no jobs satisfy the invariant.
LEMMA InvInit == Init => Inv
<1> SUFFICES ASSUME Init PROVE Inv
  OBVIOUS
<1>1. OrderOK /\ OneInTurn /\ JobsOK
  BY DEF Init, OrderOK, OneInTurn, JobsOK
<1>2. Shaped(statuses)
  BY DEF Init, NoStatuses, Shaped, StatusOK, StatusFields
<1>3. FramesOK
  BY IdleOK DEF Init, FramesOK
<1>4. CreatorOK
  BY DEF Init, CreatorOK
<1> QED
  BY <1>1, <1>2, <1>3, <1>4 DEF Inv

\* Nobody moves in a match that has not been created.
LEMMA SaveMatchInv ==
  ASSUME Inv, SaveMatch
  PROVE  Inv'
<1>1. order = <<>> /\ \A s \in Slots : calls[s].pc = "idle"
  BY DEF Inv, CreatorOK, FramesOK, FrameOK, SaveMatch
<1>2. PICK first \in Players : order' = <<first, Opponent(first)>> /\ statuses' = NewStatuses(first)
  BY DEF SaveMatch
<1>3. OrderOK' /\ order' # <<>>
  BY <1>2 DEF OrderOK
<1>4. Shaped(statuses)' /\ OneInTurn'
  BY <1>2, OpponentFact DEF NewStatuses, Shaped, StatusOK, StatusFields, OneInTurn
<1>5. FramesOK'
  BY <1>1 DEF Inv, FramesOK, FrameOK, Moving, SaveMatch
<1>6. JobsOK'
  BY <1>3 DEF Inv, JobsOK, SaveMatch
<1>7. CreatorOK'
  BY <1>3 DEF Inv, CreatorOK, SaveMatch
<1> QED
  BY <1>3, <1>4, <1>5, <1>6, <1>7 DEF Inv

\* The three handlers that read and write compute an act of the player.
LEMMA ComputedAct ==
  ASSUME NEW s \in Slots, PutToBoard(s) \/ DenyCard(s) \/ ConfirmTurn(s)
  PROVE  /\ Playing /\ UNCHANGED <<document, jobs, creator>>
         /\ \E next : Acted(statuses, s[1], next) /\ Computed(s, next)
<1>1. CASE PutToBoard(s)
  BY <1>1 DEF PutToBoard, Acted
<1>2. CASE DenyCard(s)
  BY <1>2 DEF DenyCard, Acted
<1>3. CASE ConfirmTurn(s)
  BY <1>3 DEF ConfirmTurn, Acted
<1> QED
  BY <1>1, <1>2, <1>3

\* A handler that reads the document and computes its move keeps the invariant,
\* because the document is still what it has read.
LEMMA ActInv ==
  ASSUME Inv, NEW s \in Slots, Act(s)
  PROVE  Inv'
<1>1. UNCHANGED <<document, jobs, creator>>
  BY ComputedAct DEF Act, EndTurn, Surrender
<1>2. FramesOK'
  <2>1. CASE PutToBoard(s) \/ DenyCard(s) \/ ConfirmTurn(s)
    <3>1. PICK next : Acted(statuses, s[1], next) /\ Computed(s, next)
      BY <2>1, ComputedAct
    <3>2. PICK f : f = [IdleFrame EXCEPT !.pc = "write", !.next = next]
      OBVIOUS
    <3>3. FrameOK(order, statuses, f, s[1])
      BY <2>1, <3>1, <3>2, ComputedAct
      DEF FrameOK, FrameFields, IdleFrame, Moving, Playing
    <3> QED
      BY <1>1, <3>1, <3>2, <3>3, OneFrame DEF Computed, Inv, document
  <2>2. CASE EndTurn(s)
    <3>1. PICK f : f = [pc |-> "removeJob", next |-> PassTurn(statuses, s[1]),
                        job |-> timeoutJobId, winner |-> Winner(order, statuses)]
      OBVIOUS
    <3>2. FrameOK(order, statuses, f, s[1])
      BY <2>2, <3>1 DEF FrameOK, FrameFields, Moving, EndTurn, Ended, Playing
    <3> QED
      BY <1>1, <2>2, <3>1, <3>2, OneFrame DEF EndTurn, Inv, document
  <2>3. CASE Surrender(s)
    <3>1. PICK f : f = [IdleFrame EXCEPT !.pc = "setWinner", !.winner = Opponent(s[1])]
      OBVIOUS
    <3>2. Opponent(s[1]) # Nobody
      BY OpponentFact
    <3>3. FrameOK(order, statuses, f, s[1])
      BY <2>3, <3>1, <3>2 DEF FrameOK, FrameFields, IdleFrame, Moving, Surrender, Playing
    <3> QED
      BY <1>1, <2>3, <3>1, <3>3, OneFrame DEF Surrender, Inv, document
  <2> QED
    BY <2>1, <2>2, <2>3 DEF Act
<1> QED
  BY <1>1, <1>2, SameJobs, SameStatuses, SameCreator DEF Inv, document

\* When a call writes what it computed, no other one is about to write.
LEMMA WriteInv ==
  ASSUME Serial, Inv, NEW s \in Slots, Return(s), UNCHANGED <<order, jobs, creator>>,
         calls[s].pc \in {"write", "writeTurn"}, statuses' = calls[s].next
  PROVE  Inv'
<1>1. s[1] \in Players /\ FrameOK(order, statuses, calls[s], s[1]) /\ Shaped(statuses)
  BY DEF Inv, FramesOK
<1>2. Shaped(statuses)' /\ OneInTurn'
  <2>1. CASE calls[s].pc = "write"
    <3>1. Acted(statuses, s[1], statuses')
      BY <1>1, <2>1 DEF FrameOK
    <3>2. MayAct(statuses[s[1]]) /\ order # <<>>
      BY <1>1, <2>1, <3>1 DEF Acted, FrameOK
    <3> QED
      BY <1>1, <3>1, <3>2, ActedFact, OpponentFact DEF Inv, OneInTurn, MayAct
  <2>2. CASE calls[s].pc = "writeTurn"
    <3>1. Ended(statuses, s[1], statuses')
      BY <1>1, <2>2 DEF FrameOK, Moving
    <3> QED
      BY <1>1, <3>1, EndedFact, OpponentFact DEF Inv, OneInTurn
  <2> QED
    BY <2>1, <2>2
<1>3. FramesOK'
  <2>1. \A t \in Slots : t # s => calls[t].pc \notin Moving \cup {"write"}
    BY OneWriter DEF Moving
  <2>2. \A t \in Slots : t # s => FrameOK(order, statuses', calls[t], t[1])
    BY <2>1 DEF Inv, FramesOK, FrameOK
  <2>3. FrameOK(order, statuses', IdleFrame, s[1])
    BY IdleOK
  <2> QED
    BY <2>2, <2>3 DEF Inv, FramesOK, Return
<1> QED
  BY <1>2, <1>3, SameJobs, SameCreator DEF Inv, OrderOK

\* An await of a handler that settles, or rejects, keeps the invariant.
LEMMA ServeInv ==
  ASSUME Serial, Inv, NEW s \in Slots, Serve(s)
  PROVE  Inv'
<1> USE DEF Inv
<1>0. UNCHANGED <<order, creator>> /\ calls[s].pc # "idle" /\ order # <<>>
  BY DEF Serve, WriteStatuses, RemoveJob, AddJob, WriteTurn, SetWinner, Award, document,
         FramesOK, FrameOK
<1>1. CASE statuses' # statuses
  BY <1>0, <1>1, WriteInv DEF Serve, WriteStatuses, RemoveJob, AddJob, WriteTurn,
     SetWinner, Award, document
<1>2. CASE statuses' = statuses
  <2>1. JobsOK'
    <3>1. CASE RemoveJob(s)
      BY <1>0, <3>1, RemovedJob, SameJobs DEF RemoveJob
    <3>2. CASE AddJob(s)
      BY <1>0, <3>2, QueuedJob, SameJobs DEF AddJob
    <3>3. CASE jobs' = jobs
      BY <1>0, <3>3, SameJobs
    <3> QED
      BY <3>1, <3>2, <3>3 DEF Serve, WriteStatuses, WriteTurn, SetWinner, Award
  <2>2. FramesOK'
    <3>1. CASE Return(s)
      BY <1>0, <1>2, <3>1, ReturnFrames
    <3>2. CASE RemoveJob(s) /\ ~Return(s)
      <4>1. calls[s].pc = "removeJob" /\ {"removeJob", "addJob"} \subseteq Moving
        BY <3>2 DEF RemoveJob, Moving
      <4>2. CASE calls[s].winner # Nobody
        <5>1. calls' = [calls EXCEPT ![s].pc = "setWinner"]
          BY <3>2, <4>2 DEF RemoveJob, Goto
        <5>2. "setWinner" \notin Moving
          BY DEF Moving
        <5> QED
          BY <1>0, <1>2, <4>2, <5>1, <5>2, GotoFrames
      <4>3. CASE calls[s].winner = Nobody
        <5>1. calls' = [calls EXCEPT ![s].pc = "addJob"]
          BY <3>2, <4>3 DEF RemoveJob, Goto
        <5> QED
          BY <1>0, <1>2, <4>1, <5>1, GotoFrames
      <4> QED
        BY <4>2, <4>3
    <3>3. CASE AddJob(s) /\ ~Return(s)
      <4>1. calls[s].pc \in Moving /\ "writeTurn" \in Moving
        BY <3>3 DEF AddJob, Moving
      <4>2. PICK job : calls' = [calls EXCEPT ![s].pc = "writeTurn", ![s].job = job]
        BY <3>3 DEF AddJob
      <4> QED
        BY <1>0, <1>2, <4>1, <4>2, GotoFrames
    <3>4. CASE SetWinner(s) /\ ~Return(s)
      BY <1>0, <1>2, <3>4, GotoFrames DEF SetWinner, Goto, Moving
    <3> QED
      BY <3>1, <3>2, <3>3, <3>4 DEF Serve, WriteStatuses, WriteTurn, Award
  <2> QED
    BY <1>0, <1>2, <2>1, <2>2, SameStatuses, SameCreator
<1> QED
  BY <1>1, <1>2

\* The awaits of createMatch after the document is saved keep the invariant.
LEMMA CreateInv ==
  ASSUME Inv, CreatorAddJob \/ CreatorSetJob
  PROVE  Inv'
<1> USE DEF Inv
<1>0. UNCHANGED <<order, statuses, calls>>
  BY DEF CreatorAddJob, CreatorSetJob, document
<1>1. JobsOK'
  <2>1. CASE CreatorAddJob
    <3>1. order # <<>>
      BY <2>1 DEF CreatorAddJob, CreatorOK
    <3> QED
      BY <1>0, <2>1, <3>1, QueuedJob, SameJobs DEF CreatorAddJob
  <2>2. CASE CreatorSetJob
    BY <1>0, <2>2, SameJobs DEF CreatorSetJob
  <2> QED
    BY <2>1, <2>2
<1>2. CreatorOK'
  BY <1>0 DEF CreatorAddJob, CreatorSetJob, CreatorOK, IdleCreator
<1> QED
  BY <1>0, <1>1, <1>2, SameStatuses, SameFrames

\* The timeout names the player who is not in turn.
LEMMA IdlerFact ==
  ASSUME OrderOK, order # <<>>
  PROVE  Idler # Nobody
<1>1. PICK p \in Players : order = <<p, Opponent(p)>>
  BY DEF OrderOK
<1>2. order[1] \in Players /\ order[2] \in Players
  BY <1>1, OpponentFact
<1> QED
  BY <1>2 DEF Idler

\* The MATCH_TIMEOUT job, at each of its awaits, keeps the invariant.
LEMMA TimeoutInv ==
  ASSUME Inv, NEW j \in JobIds, Timeout(j) \/ RetryTimeout(j)
  PROVE  Inv'
<1> USE DEF Inv
<1>0. UNCHANGED <<order, statuses, calls, creator>> /\ j \in DOMAIN jobs
  BY DEF Timeout, RetryTimeout, StartTimeout, TimeoutRead, TimeoutSetWinner, TimeoutAward,
         TimeoutPublish, Waiting, document
<1>1. JobsOK'
  <2>1. CASE TimeoutRead(j)
    <3>1. PICK job : job = [state |-> "setWinner", winner |-> Idler]
      OBVIOUS
    <3>2. job.winner # Nobody
      BY <1>0, <3>1, IdlerFact DEF JobsOK
    <3> QED
      BY <1>0, <2>1, <3>1, <3>2, OneJob DEF TimeoutRead
  <2>2. CASE RetryTimeout(j)
    <3>1. PICK job : job = [state |-> "delayed", winner |-> Nobody]
      OBVIOUS
    <3> QED
      BY <1>0, <2>2, <3>1, OneJob DEF RetryTimeout
  <2>3. CASE jobs' = Without(jobs, j)
    BY <1>0, <2>3, RemovedJob
  <2>4. CASE \E state : state # "setWinner" /\ jobs' = [jobs EXCEPT ![j].state = state]
    BY <1>0, <2>4, JobGoesOn
  <2>5. StartTimeout(j) \/ TimeoutSetWinner(j) \/ TimeoutAward(j) \/ TimeoutPublish(j) =>
          \/ jobs' = Without(jobs, j)
          \/ \E state \in {"active", "award", "publish", "failed"} :
               jobs' = [jobs EXCEPT ![j].state = state]
    BY DEF StartTimeout, TimeoutSetWinner, TimeoutAward, TimeoutPublish
  <2> QED
    BY <2>1, <2>2, <2>3, <2>4, <2>5 DEF Timeout
<1> QED
  BY <1>0, <1>1, SameStatuses, SameFrames, SameCreator

\* A restart, which loses every frame, keeps the invariant.
LEMMA CrashInv ==
  ASSUME Inv, Crash
  PROVE  Inv'
<1> USE DEF Inv
<1>0. UNCHANGED <<order, statuses>>
  BY DEF Crash, document
<1>1. JobsOK'
  BY <1>0 DEF Crash, JobsOK
<1>2. FramesOK'
  BY <1>0, IdleOK DEF Crash, FramesOK
<1>3. CreatorOK'
  BY DEF Crash, CreatorOK, IdleCreator
<1> QED
  BY <1>0, <1>1, <1>2, <1>3, SameStatuses

\* The invariant holds in every state, when clients wait for each answer.
LEMMA Invariance ==
  ASSUME Serial
  PROVE  Spec => []Inv
<1>1. Inv /\ [Next]_vars => Inv'
  <2> SUFFICES ASSUME Inv, [Next]_vars PROVE Inv'
    OBVIOUS
  <2>1. CASE Create
    BY <2>1, SaveMatchInv, CreateInv DEF Create
  <2>2. CASE \E s \in Slots : Act(s) \/ Serve(s)
    BY <2>2, ActInv, ServeInv
  <2>3. CASE \E j \in JobIds : Timeout(j) \/ RetryTimeout(j)
    BY <2>3, TimeoutInv
  <2>4. CASE Crash
    BY <2>4, CrashInv
  <2>5. CASE UNCHANGED vars
    BY <2>5, SameStatuses, SameFrames, SameJobs, SameCreator DEF Inv, vars
  <2> QED
    BY <2>1, <2>2, <2>3, <2>4, <2>5 DEF Next
<1> QED
  BY InvInit, <1>1, PTL DEF Spec

-----------------------------------------------------------------------------
(* The operators of Turn that Game sees are those that Match sees           *)

\* The opponent is the same to both.
LEMMA SameOpponent ==
  ASSUME NEW p
  PROVE  Abstract!Opponent(p) = Opponent(p)
  BY DEF Abstract!Opponent, Opponent

\* No match, and a new one, are the same to both.
LEMMA SameStart ==
  /\ Abstract!NoStatuses = NoStatuses
  /\ \A p : Abstract!NewStatuses(p) = NewStatuses(p)
  BY DEF Abstract!NoStatuses, NoStatuses, Abstract!NewStatuses, NewStatuses

\* The card at a position is the same to both.
LEMMA SameCardsAt ==
  ASSUME NEW board, NEW position
  PROVE  Abstract!CardsAt(board, position) = CardsAt(board, position)
  BY DEF Abstract!CardsAt, Abstract!FirstOf, Abstract!SelectInSeq, Abstract!Min,
         CardsAt, FirstOf, SelectInSeq, Min

\* The checks of putToBoard are the same to both.
LEMMA SameCanPut ==
  ASSUME NEW crystal, NEW card, NEW board, NEW position
  PROVE  Abstract!CanPut(crystal, card, board, position)
           <=> CanPut(crystal, card, board, position)
  BY SameCardsAt DEF Abstract!CanPut, Abstract!Some, CanPut, Some

\* What putToBoard computes is the same to both.
LEMMA SamePut ==
  ASSUME NEW me, NEW card, NEW position
  PROVE  Abstract!Put(me, card, position) = Put(me, card, position)
  BY DEF Abstract!Put, Abstract!PutCard, Abstract!CombineSkills, Abstract!ArmorAsHP,
         Abstract!CardsAt, Abstract!FirstOf, Abstract!SelectInSeq, Abstract!Min,
         Abstract!Some, Abstract!Skill, Abstract!SkillTypes, Abstract!AttackTypes,
         Abstract!Kept, Put, PutCard, CombineSkills, ArmorAsHP, CardsAt, FirstOf,
         SelectInSeq, Min, Some, Skill, SkillTypes, AttackTypes, Kept

\* What denyCard computes is the same to both.
LEMMA SameDeny ==
  ASSUME NEW me, NEW card
  PROVE  Abstract!Deny(me, card) = Deny(me, card)
  BY DEF Abstract!Deny, Deny

\* The outcomes of the attack in confirmTurn are the same to both.
LEMMA SameAttack ==
  ASSUME NEW attackers, NEW board
  PROVE  Abstract!Attack(attackers, board) = Attack(attackers, board)
  BY DEF Abstract!Attack, Abstract!CastSkills, Abstract!CastSkill, Abstract!CanAttack,
         Abstract!AttackTypes, Abstract!Targets, Abstract!Diagonal, Abstract!CardsAt,
         Abstract!FirstOf, Abstract!SelectInSeq, Abstract!Min, Abstract!Some,
         Abstract!Damages, Abstract!Hit, Abstract!Struck, Abstract!SubHP, Abstract!HP,
         Abstract!Kept, Abstract!BoardCard, Abstract!Positions, Abstract!Skill,
         Abstract!SkillTypes, Attack, CastSkills, CastSkill, CanAttack, AttackTypes,
         Targets, Diagonal, CardsAt, FirstOf, SelectInSeq, Min, Some, Damages, Hit,
         Struck, SubHP, HP, Kept, BoardCard, Positions, Skill, SkillTypes

\* What endTurn computes is the same to both.
LEMMA SamePassTurn ==
  ASSUME NEW all, NEW p
  PROVE  Abstract!PassTurn(all, p) = PassTurn(all, p)
  BY DEF Abstract!PassTurn, Abstract!Opponent, PassTurn, Opponent

-----------------------------------------------------------------------------
(* Match implements Game                                                    *)

\* The players with a call between the read and the write, as the mapping has them.
Begun == {s[1] : s \in {c \in Slots : calls[c].pc \in
                          {"write", "removeJob", "addJob", "writeTurn"}}}

\* The variables of Game, as the refinement mapping gives them.
LEMMA AbstractVars ==
  Abstract!vars = <<order, statuses, Begun, winnerId # Nobody>>
  BY DEF Abstract!vars, Begun

\* Before the match there is no game.
LEMMA InitSimulates == Init => Abstract!Init
  BY SameStart DEF Init, IdleFrame, Abstract!Init

\* A step that changes nothing but drops moves.
LEMMA DropStep ==
  ASSUME order' = order, statuses' = statuses, (winnerId # Nobody)' = (winnerId # Nobody),
         Begun' \subseteq Begun
  PROVE  Abstract!Drop
  BY DEF Begun, Abstract!Drop

\* A call that returns, or that goes on, begins no move.
LEMMA BegunShrinks ==
  ASSUME DOMAIN calls = Slots, NEW s \in Slots,
         DOMAIN calls' = Slots, \A t \in Slots : t # s => calls'[t] = calls[t],
         \/ calls[s].pc \in Moving \cup {"write"}
         \/ calls'[s].pc \notin Moving \cup {"write"}
  PROVE  Begun' \subseteq Begun
  BY DEF Begun, Moving

\* What a handler computes and writes is what Game lets a player do.
LEMMA ActedIsAct ==
  ASSUME NEW p \in Players, Acted(statuses, p, statuses')
  PROVE  Abstract!Act(p)
<1> DEFINE me == statuses[p]
<1>0. Abstract!MayAct(me)
  BY DEF Acted, MayAct, Abstract!MayAct
<1>1. CASE \E card \in me.onHand, position \in Positions :
             /\ CanPut(me.crystal, card, me.onBoard, position)
             /\ statuses' = [statuses EXCEPT ![p] = Put(me, card, position)]
  BY <1>0, <1>1, SameCanPut, SamePut DEF Abstract!Act, Abstract!Positions, Positions
<1>2. CASE \E card \in me.onHand : statuses' = [statuses EXCEPT ![p] = Deny(me, card)]
  BY <1>0, <1>2, SameDeny DEF Abstract!Act
<1>3. CASE \E board \in Attack(me.onBoard, statuses[Opponent(p)].onBoard) :
             statuses' = [statuses EXCEPT ![Opponent(p)].onBoard = board,
                                          ![p].confirmTurn = TRUE]
  BY <1>0, <1>3, SameAttack, SameOpponent DEF Abstract!Act
<1> QED
  BY <1>1, <1>2, <1>3 DEF Acted

\* What endTurn computes and writes is the end of a turn in Game.
LEMMA EndedIsEnd ==
  ASSUME NEW p \in Players, Ended(statuses, p, statuses')
  PROVE  Abstract!EndTurn(p)
  BY SamePassTurn DEF Ended, Abstract!EndTurn

\* The creation is the start of the game.
LEMMA StartStep ==
  ASSUME Inv, SaveMatch
  PROVE  Abstract!Start
<1>1. order = <<>> /\ UNCHANGED <<calls, winnerId>>
  BY DEF Inv, CreatorOK, SaveMatch
<1>2. \E p \in Players : order' = <<p, Abstract!Opponent(p)>>
                         /\ statuses' = Abstract!NewStatuses(p)
  BY SameOpponent, SameStart DEF SaveMatch
<1> QED
  BY <1>1, <1>2 DEF Abstract!Start

\* A call that has computed a move has begun one; a surrender has not.
LEMMA ActStep ==
  ASSUME Inv, NEW s \in Slots, Act(s)
  PROVE  Abstract!Drop \/ Abstract!Begin(s[1])
<1>1. Playing /\ UNCHANGED <<order, statuses, winnerId>>
  BY ComputedAct DEF Act, EndTurn, Surrender, document
<1>2. DOMAIN calls = Slots /\ \E f : calls' = [calls EXCEPT ![s] = f]
  BY ComputedAct DEF Act, EndTurn, Surrender, Computed, Inv, FramesOK
<1>3. DOMAIN calls' = Slots /\ \A t \in Slots : t # s => calls'[t] = calls[t]
  BY <1>2
<1>4. CASE calls'[s].pc \in Moving \cup {"write"}
  <2>1. Begun' = Begun \cup {s[1]}
    BY <1>3, <1>4 DEF Begun, Moving
  <2> QED
    BY <1>1, <2>1 DEF Begun, Abstract!Begin, Playing
<1>5. CASE calls'[s].pc \notin Moving \cup {"write"}
  BY <1>1, <1>2, <1>3, <1>5, BegunShrinks, DropStep
<1> QED
  BY <1>4, <1>5

\* A write is a move, made of the statuses that are there.
LEMMA MoveStep ==
  ASSUME Serial, Inv, NEW s \in Slots, Return(s), UNCHANGED <<order, winnerId>>,
         calls[s].pc \in {"write", "writeTurn"}, statuses' = calls[s].next
  PROVE  Abstract!Move(s[1])
<1>1. s[1] \in Players /\ FrameOK(order, statuses, calls[s], s[1]) /\ DOMAIN calls = Slots
  BY DEF Inv, FramesOK
<1>2. Abstract!Act(s[1]) \/ Abstract!EndTurn(s[1])
  BY <1>1, ActedIsAct, EndedIsEnd DEF FrameOK, Moving
<1>3. s[1] \in Begun
  BY DEF Begun
<1>4. Begun' = Begun \ {s[1]}
  <2>1. calls' = [calls EXCEPT ![s] = IdleFrame] /\ IdleFrame.pc = "idle"
    BY DEF Return, IdleFrame
  <2>2. \A t \in Slots : t # s => calls'[t] = calls[t] /\ t[1] # s[1]
    BY <1>1, <2>1 DEF Serial
  <2>3. calls'[s].pc = "idle"
    BY <1>1, <2>1
  <2> QED
    BY <2>2, <2>3 DEF Begun
<1> QED
  BY <1>2, <1>3, <1>4 DEF Begun, Abstract!Move

\* A step that keeps the calls, or lets one go on, and decides or not.
LEMMA DecideStep ==
  ASSUME order # <<>>, UNCHANGED <<order, statuses>>, Begun' = Begun, winnerId' # Nobody
  PROVE  Abstract!Decide
  BY DEF Begun, Abstract!Decide

\* An await of a handler is a move, the decision, or nothing in Game.
LEMMA ServeStep ==
  ASSUME Serial, Inv, NEW s \in Slots, Serve(s)
  PROVE  Abstract!Drop \/ Abstract!Decide \/ Abstract!Move(s[1])
<1>1. /\ order' = order /\ order # <<>> /\ DOMAIN calls = Slots
      /\ FrameOK(order, statuses, calls[s], s[1])
  BY DEF Inv, FramesOK, FrameOK, Serve, WriteStatuses, RemoveJob, AddJob, WriteTurn,
         SetWinner, Award, document
<1>2. DOMAIN calls' = Slots /\ \A t \in Slots : t # s => calls'[t] = calls[t]
  BY <1>1 DEF Serve, WriteStatuses, RemoveJob, AddJob, WriteTurn, SetWinner, Award,
              Goto, Return
<1>3. CASE WriteStatuses(s) \/ WriteTurn(s)
  <2>1. Return(s) /\ calls[s].pc \in {"write", "writeTurn"} /\ winnerId' = winnerId
    BY <1>3 DEF WriteStatuses, WriteTurn
  <2>2. CASE statuses' = calls[s].next
    BY <1>1, <2>1, <2>2, MoveStep
  <2>3. CASE statuses' = statuses
    <3>1. Begun' \subseteq Begun
      BY <1>1, <1>2, <2>1, BegunShrinks DEF Moving
    <3> QED
      BY <1>1, <2>1, <2>3, <3>1, DropStep
  <2> QED
    BY <1>3, <2>2, <2>3 DEF WriteStatuses, WriteTurn
<1>4. CASE RemoveJob(s) \/ AddJob(s)
  <2>1. calls[s].pc \in Moving /\ UNCHANGED <<statuses, winnerId>>
    BY <1>4 DEF RemoveJob, AddJob, Moving, document
  <2>2. Begun' \subseteq Begun
    BY <1>1, <1>2, <2>1, BegunShrinks
  <2> QED
    BY <1>1, <2>1, <2>2, DropStep
<1>5. CASE SetWinner(s) \/ Award(s)
  <2>1. /\ calls[s].pc \in {"setWinner", "award"} /\ statuses' = statuses
        /\ calls'[s].pc \in {"idle", "award"}
        /\ \/ winnerId' = winnerId
           \/ calls[s].pc = "setWinner" /\ winnerId' = calls[s].winner
    <3>1. FrameOK(order, statuses, calls[s], s[1]) /\ "pc" \in DOMAIN calls[s]
      BY <1>1 DEF FrameOK, FrameFields
    <3>2. CASE SetWinner(s) /\ ~Return(s)
      <4>1. calls' = [calls EXCEPT ![s].pc = "award"] /\ calls[s].pc = "setWinner"
            /\ statuses' = statuses /\ winnerId' = calls[s].winner
        BY <3>2 DEF SetWinner, Goto
      <4>2. calls'[s].pc = "award"
        BY <1>1, <3>1, <4>1
      <4> QED
        BY <4>1, <4>2
    <3>3. CASE (SetWinner(s) \/ Award(s)) /\ Return(s)
      <4>1. calls'[s].pc = "idle"
        BY <1>1, <3>3 DEF Return, IdleFrame
      <4>2. CASE SetWinner(s)
        BY <4>1, <4>2 DEF SetWinner
      <4>3. CASE Award(s)
        BY <4>1, <4>3 DEF Award, document
      <4> QED
        BY <3>3, <4>2, <4>3
    <3> QED
      BY <1>5, <3>2, <3>3 DEF Award
  <2>2. Begun' = Begun
    BY <1>2, <2>1 DEF Begun
  <2>3. CASE winnerId' = winnerId
    BY <1>1, <2>1, <2>2, <2>3, DropStep
  <2>4. CASE winnerId' # winnerId
    <3>1. winnerId' # Nobody
      BY <1>1, <2>1, <2>4 DEF FrameOK
    <3> QED
      BY <1>1, <2>1, <2>2, <3>1, DecideStep
  <2> QED
    BY <2>3, <2>4
<1> QED
  BY <1>3, <1>4, <1>5 DEF Serve

\* An await of the MATCH_TIMEOUT job is the decision, or nothing in Game.
LEMMA TimeoutStep ==
  ASSUME Inv, NEW j \in JobIds, Timeout(j) \/ RetryTimeout(j)
  PROVE  Abstract!Drop \/ Abstract!Decide
<1>1. UNCHANGED <<order, statuses, calls>> /\ j \in DOMAIN jobs
  BY DEF Timeout, RetryTimeout, StartTimeout, TimeoutRead, TimeoutSetWinner, TimeoutAward,
         TimeoutPublish, Waiting, document
<1>2. Begun' = Begun
  BY <1>1 DEF Begun
<1>3. order # <<>> /\ (jobs[j].state = "setWinner" => jobs[j].winner # Nobody)
  BY <1>1 DEF Inv, JobsOK
<1>4. winnerId' = winnerId \/ winnerId' # Nobody
  BY <1>3 DEF Timeout, RetryTimeout, StartTimeout, TimeoutRead, TimeoutSetWinner,
              TimeoutAward, TimeoutPublish, document
<1> QED
  BY <1>1, <1>2, <1>3, <1>4, DropStep, DecideStep

\* Every step of Match, a restart included, is a step of Game or a stutter.
LEMMA Simulates ==
  ASSUME Serial, Inv, [Next]_vars
  PROVE  [Abstract!Next]_(Abstract!vars)
<1>1. CASE SaveMatch
  BY <1>1, StartStep DEF Abstract!Next
<1>2. CASE CreatorAddJob \/ CreatorSetJob
  <2>1. UNCHANGED <<order, statuses, calls, winnerId>>
    BY <1>2 DEF CreatorAddJob, CreatorSetJob, document
  <2> QED
    BY <2>1, DropStep DEF Begun, Abstract!Next
<1>3. CASE \E s \in Slots : Act(s) \/ Serve(s)
  <2>1. PICK s \in Slots : Act(s) \/ Serve(s)
    BY <1>3
  <2>2. s[1] \in Players
    OBVIOUS
  <2> QED
    BY <2>1, <2>2, ActStep, ServeStep DEF Abstract!Next
<1>4. CASE \E j \in JobIds : Timeout(j) \/ RetryTimeout(j)
  BY <1>4, TimeoutStep DEF Abstract!Next
<1>5. CASE Crash
  <2>1. UNCHANGED <<order, statuses, winnerId>> /\ Begun' = {}
    BY <1>5 DEF Crash, document, Begun, IdleFrame
  <2> QED
    BY <2>1, DropStep DEF Abstract!Next
<1>6. CASE UNCHANGED vars
  <2>1. UNCHANGED <<order, statuses, Begun>> /\ winnerId' = winnerId
    BY <1>6 DEF vars, Begun
  <2> QED
    BY <2>1, AbstractVars, DropStep DEF Abstract!Next
<1> QED
  BY <1>1, <1>2, <1>3, <1>4, <1>5, <1>6 DEF Next, Create

\* When clients wait for each answer, the handlers of a match implement the atomic
\* game, for every deck, timeout, failure and restart.
THEOREM Refinement ==
  ASSUME Serial
  PROVE  Spec => PlaysAtomically
<1>1. Inv /\ [Next]_vars => [Abstract!Next]_(Abstract!vars)
  BY Simulates
<1> QED
  BY Invariance, InitSimulates, <1>1, PTL DEF Spec, PlaysAtomically, Abstract!Spec

(***************************************************************************)
(* The timeout of a match is never forgotten: TimerArmed.                  *)
(***************************************************************************)
-----------------------------------------------------------------------------
(* The inductive invariant                                                  *)

\* A call is of a match that exists, and one that is about to end it has a winner.
CallOK(o, f) ==
  /\ DOMAIN f = FrameFields /\ f = [x \in FrameFields |-> f[x]]
  /\ f.pc # "idle" => o # <<>>
  /\ f.pc = "setWinner" => f.winner # Nobody

\* Every call in flight is as CallOK says.
CallsOK ==
  /\ DOMAIN calls = Slots /\ calls = [s \in Slots |-> calls[s]]
  /\ \A s \in Slots : CallOK(order, calls[s])

\* A timeout that rewards its winner has written him.
Written ==
  \A j \in DOMAIN jobs : jobs[j].state \in {"award", "publish"} => winnerId # Nobody

\* The parts together: TimerArmed needs all the others to be inductive.
TimerInv == OrderOK /\ CallsOK /\ JobsOK /\ CreatorOK /\ Written /\ TimerArmed

\* A job that a worker will run, or runs.
Armed == \E j \in DOMAIN jobs : jobs[j].state # "failed"

-----------------------------------------------------------------------------
(* The parts of the invariant that a step can disturb                       *)

\* One call goes on, while the match is neither created nor lost.
LEMMA CallGoesOn ==
  ASSUME CallsOK, order' = order, NEW s \in Slots, NEW f, CallOK(order, f),
         calls' = [calls EXCEPT ![s] = f]
  PROVE  CallsOK' /\ calls'[s] = f /\ \A t \in Slots : t # s => calls'[t] = calls[t]
  BY DEF CallsOK

\* One call returns.
LEMMA CallReturns ==
  ASSUME CallsOK, order' = order, NEW s \in Slots, Return(s)
  PROVE  CallsOK' /\ \A t \in Slots : t # s => calls'[t] = calls[t]
<1>1. CallOK(order, IdleFrame)
  BY DEF CallOK, IdleFrame, FrameFields
<1> QED
  BY <1>1, CallGoesOn DEF Return

\* One call goes to another await of its handler.
LEMMA CallGoes ==
  ASSUME CallsOK, order' = order, order # <<>>, NEW s \in Slots, NEW pc,
         pc = "setWinner" => calls[s].winner # Nobody,
         NEW job,
         calls' = [calls EXCEPT ![s].pc = pc] \/ calls' = [calls EXCEPT ![s].pc = pc, ![s].job = job]
  PROVE  CallsOK' /\ calls'[s].pc = pc /\ \A t \in Slots : t # s => calls'[t] = calls[t]
<1>1. CallOK(order, calls[s])
  BY DEF CallsOK
<1>2. PICK f : /\ calls' = [calls EXCEPT ![s] = f]
               /\ \/ f = [calls[s] EXCEPT !.pc = pc]
                  \/ f = [calls[s] EXCEPT !.pc = pc, !.job = job]
  BY <1>1 DEF CallsOK
<1>3. CallOK(order, f) /\ f.pc = pc
  BY <1>1, <1>2 DEF CallOK, FrameFields
<1> QED
  BY <1>2, <1>3, CallGoesOn

\* Jobs and calls that stay, or a call that was not about to arm or to end.
LEMMA StaysArmed ==
  ASSUME TimerArmed, order # <<>>, UNCHANGED <<winnerId, stranded, creator>>, Armed => Armed',
         NEW s \in Slots, calls[s].pc \notin {"addJob", "setWinner"},
         \A t \in Slots : t # s => calls'[t] = calls[t]
  PROVE  TimerArmed'
<1> SUFFICES ASSUME Playing', ~stranded', ~Armed', creator'.pc # "addJob"
             PROVE  \E t \in Slots : calls'[t].pc \in {"addJob", "setWinner"}
  BY DEF TimerArmed, Armed
<1>1. \E t \in Slots : calls[t].pc \in {"addJob", "setWinner"}
  BY DEF TimerArmed, Armed, Playing
<1> QED
  BY <1>1

\* A timeout that has been queued is one that a worker will run.
LEMMA QueuedArms ==
  ASSUME QueueTimeout
  PROVE  Armed'
<1>1. issued'.job \in DOMAIN jobs' /\ jobs'[issued'.job].state = "delayed"
  BY DEF QueueTimeout, With
<1> QED
  BY <1>1 DEF Armed

-----------------------------------------------------------------------------
(* The invariant is inductive                                               *)

\* No match, no calls and no jobs satisfy the invariant.
LEMMA TimerInit == Init => TimerInv
<1> SUFFICES ASSUME Init PROVE TimerInv
  OBVIOUS
<1>1. OrderOK /\ JobsOK /\ Written /\ CreatorOK
  BY DEF Init, OrderOK, JobsOK, Written, CreatorOK
<1>2. CallsOK
  BY DEF Init, CallsOK, CallOK, IdleFrame, FrameFields
<1>3. TimerArmed
  BY DEF Init, TimerArmed, Playing
<1> QED
  BY <1>1, <1>2, <1>3 DEF TimerInv

\* createMatch saves the document and then queues the first timeout, or is
\* stranded between the two.
LEMMA CreateTimer ==
  ASSUME TimerInv, Create
  PROVE  TimerInv'
<1> USE DEF TimerInv
<1>1. CASE SaveMatch
  <2>1. PICK p \in Players : order' = <<p, Opponent(p)>>
    BY <1>1 DEF SaveMatch
  <2>2. order' # <<>> /\ OrderOK'
    BY <2>1 DEF OrderOK
  <2>3. creator'.pc = "addJob" /\ CreatorOK'
    BY <1>1, <2>2 DEF SaveMatch, CreatorOK
  <2>4. CallsOK'
    BY <1>1, <2>2 DEF SaveMatch, CallsOK, CallOK
  <2> QED
    BY <1>1, <2>2, <2>3, <2>4 DEF SaveMatch, JobsOK, Written, TimerArmed
<1>2. CASE CreatorAddJob
  <2>1. UNCHANGED <<order, winnerId, calls>> /\ order # <<>>
    BY <1>2 DEF CreatorAddJob, CreatorOK, document
  <2>2. JobsOK' /\ (Armed' \/ stranded')
    BY <1>2, <2>1, QueuedJob, SameJobs, QueuedArms DEF CreatorAddJob, FaultInTheGap
  <2>3. CreatorOK'
    BY <1>2 DEF CreatorAddJob, CreatorOK, IdleCreator
  <2>4. Written'
    BY <1>2, <2>1 DEF CreatorAddJob, Written, QueueTimeout, With
  <2> QED
    BY <2>1, <2>2, <2>3, <2>4 DEF OrderOK, CallsOK, TimerArmed, Armed
<1>3. CASE CreatorSetJob
  BY <1>3, SameJobs DEF CreatorSetJob, history, OrderOK, CallsOK, CreatorOK, IdleCreator, Written,
     TimerArmed, Playing
<1> QED
  BY <1>1, <1>2, <1>3 DEF Create

\* A handler that computes its move touches neither the timeout nor the winner.
LEMMA ActTimer ==
  ASSUME TimerInv, NEW s \in Slots, Act(s)
  PROVE  TimerInv'
<1> USE DEF TimerInv
<1>1. /\ calls[s].pc = "idle" /\ order # <<>>
      /\ UNCHANGED <<document, jobs, creator, history>>
  BY DEF Act, PutToBoard, DenyCard, ConfirmTurn, EndTurn, Surrender, Playing
<1>2. \E f : CallOK(order, f) /\ calls' = [calls EXCEPT ![s] = f]
  <2>1. CASE PutToBoard(s) \/ DenyCard(s) \/ ConfirmTurn(s)
    <3>1. PICK next : Computed(s, next)
      BY <2>1, ComputedAct
    <3>2. CallOK(order, [IdleFrame EXCEPT !.pc = "write", !.next = next])
      BY <1>1 DEF CallOK, IdleFrame, FrameFields
    <3> QED
      BY <3>1, <3>2 DEF Computed
  <2>2. CASE EndTurn(s)
    BY <1>1, <2>2 DEF EndTurn, CallOK, FrameFields
  <2>3. CASE Surrender(s)
    <3>1. Opponent(s[1]) # Nobody
      BY OpponentFact
    <3>2. CallOK(order, [IdleFrame EXCEPT !.pc = "setWinner", !.winner = Opponent(s[1])])
      BY <1>1, <3>1 DEF CallOK, IdleFrame, FrameFields
    <3> QED
      BY <2>3, <3>2 DEF Surrender
  <2> QED
    BY <2>1, <2>2, <2>3 DEF Act
<1>3. CallsOK' /\ \A t \in Slots : t # s => calls'[t] = calls[t]
  BY <1>1, <1>2, CallGoesOn DEF document
<1>4. Armed => Armed'
  BY <1>1 DEF Armed
<1>5. TimerArmed'
  BY <1>1, <1>3, <1>4, StaysArmed DEF document, history
<1> QED
  BY <1>1, <1>3, <1>5, SameJobs, SameCreator DEF document, OrderOK, Written

\* endTurn takes the timeout away and is then about to queue another or to end the
\* match; no other handler takes one away.
LEMMA ServeTimer ==
  ASSUME TimerInv, NEW s \in Slots, Serve(s)
  PROVE  TimerInv'
<1> USE DEF TimerInv
<1>0. UNCHANGED <<order, creator>> /\ order # <<>> /\ OrderOK' /\ CreatorOK'
  <2>1. UNCHANGED <<order, creator>> /\ calls[s].pc # "idle"
    BY DEF Serve, WriteStatuses, RemoveJob, AddJob, WriteTurn, SetWinner, Award, document
  <2> QED
    BY <2>1, SameCreator DEF CallsOK, CallOK, OrderOK
<1>1. CASE WriteStatuses(s) \/ WriteTurn(s) \/ Award(s)
  <2>1. /\ Return(s) /\ UNCHANGED <<winnerId, stranded, jobs>>
        /\ calls[s].pc \notin {"addJob", "setWinner"}
    BY <1>1 DEF WriteStatuses, WriteTurn, Award, document, history
  <2>2. CallsOK' /\ \A t \in Slots : t # s => calls'[t] = calls[t]
    BY <1>0, <2>1, CallReturns
  <2>3. TimerArmed'
    BY <1>0, <2>1, <2>2, StaysArmed DEF Armed
  <2> QED
    BY <1>0, <2>1, <2>2, <2>3, SameJobs DEF Written
<1>2. CASE RemoveJob(s)
  <2>1. UNCHANGED <<winnerId, stranded>> /\ calls[s].pc = "removeJob"
    BY <1>2 DEF RemoveJob, document
  <2>2. CASE Return(s) /\ jobs' = jobs
    <3>1. CallsOK' /\ \A t \in Slots : t # s => calls'[t] = calls[t]
      BY <1>0, <2>2, CallReturns
    <3>2. TimerArmed'
      BY <1>0, <2>1, <2>2, <3>1, StaysArmed DEF Armed
    <3> QED
      BY <1>0, <2>1, <2>2, <3>1, <3>2, SameJobs DEF Written
  <2>3. CASE jobs' = Without(jobs, calls[s].job)
             /\ Goto(s, IF calls[s].winner # Nobody THEN "setWinner" ELSE "addJob")
    <3>1. CallsOK' /\ calls'[s].pc \in {"addJob", "setWinner"}
      <4>1. CASE calls[s].winner # Nobody
        <5>1. calls' = [calls EXCEPT ![s].pc = "setWinner"]
          BY <2>3, <4>1 DEF Goto
        <5> QED
          BY <1>0, <4>1, <5>1, CallGoes
      <4>2. CASE calls[s].winner = Nobody
        <5>1. calls' = [calls EXCEPT ![s].pc = "addJob"]
          BY <2>3, <4>2 DEF Goto
        <5> QED
          BY <1>0, <5>1, CallGoes
      <4> QED
        BY <4>1, <4>2
    <3>2. JobsOK' /\ Written'
      BY <1>0, <2>1, <2>3, RemovedJob DEF Written, Without, Restrict
    <3> QED
      BY <1>0, <3>1, <3>2 DEF TimerArmed
  <2> QED
    BY <1>2, <2>2, <2>3 DEF RemoveJob
<1>3. CASE AddJob(s)
  <2>1. winnerId' = winnerId
    BY <1>3 DEF AddJob, document
  <2>2. JobsOK' /\ (Armed' \/ stranded') /\ Written'
    <3>1. CASE QueueTimeout
      BY <1>0, <2>1, <3>1, QueuedJob, QueuedArms DEF Written, QueueTimeout, With
    <3>2. CASE FaultInTheGap /\ jobs' = jobs
      BY <1>0, <2>1, <3>2, SameJobs DEF Written, FaultInTheGap
    <3> QED
      BY <1>3, <3>1, <3>2 DEF AddJob
  <2>3. CallsOK'
    <3>1. CASE Return(s)
      BY <1>0, <3>1, CallReturns
    <3>2. CASE ~Return(s)
      <4>1. PICK job : calls' = [calls EXCEPT ![s].pc = "writeTurn", ![s].job = job]
        BY <1>3, <3>2 DEF AddJob
      <4>2. PICK pc : pc = "writeTurn"
        OBVIOUS
      <4>3. calls' = [calls EXCEPT ![s].pc = pc, ![s].job = job] /\ pc # "setWinner"
        BY <4>1, <4>2
      <4> QED
        BY <1>0, <4>3, CallGoes
    <3> QED
      BY <3>1, <3>2
  <2> QED
    BY <1>0, <2>2, <2>3 DEF TimerArmed, Armed
<1>4. CASE SetWinner(s)
  <2>1. calls[s].winner # Nobody
    BY <1>4 DEF SetWinner, CallsOK, CallOK
  <2>2. jobs' = jobs /\ (stranded' \/ winnerId' # Nobody)
        /\ (winnerId' = winnerId \/ winnerId' # Nobody)
    BY <1>4, <2>1 DEF SetWinner, FaultInTheGap
  <2>3. CallsOK'
    <3>1. CASE Return(s)
      BY <1>0, <3>1, CallReturns
    <3>2. CASE ~Return(s)
      <4>1. calls' = [calls EXCEPT ![s].pc = "award"]
        BY <1>4, <3>2 DEF SetWinner, Goto
      <4> QED
        <5>1. PICK pc : pc = "award"
          OBVIOUS
        <5>2. calls' = [calls EXCEPT ![s].pc = pc] /\ pc # "setWinner"
          BY <4>1, <5>1
        <5> QED
          BY <1>0, <5>2, CallGoes
    <3> QED
      BY <3>1, <3>2
  <2> QED
    BY <1>0, <2>2, <2>3, SameJobs DEF Written, TimerArmed, Playing
<1> QED
  BY <1>1, <1>2, <1>3, <1>4 DEF Serve

\* A timeout that is run is there until its winner is written.
LEMMA TimeoutTimer ==
  ASSUME TimerInv, NEW j \in JobIds, Timeout(j) \/ RetryTimeout(j)
  PROVE  TimerInv'
<1> USE DEF TimerInv
<1>0. /\ UNCHANGED <<order, calls, creator>> /\ j \in DOMAIN jobs /\ order # <<>>
      /\ DOMAIN jobs[j] = {"state", "winner"}
      /\ jobs[j] = [x \in {"state", "winner"} |-> jobs[j][x]]
  BY DEF Timeout, RetryTimeout, StartTimeout, TimeoutRead, TimeoutSetWinner, TimeoutAward,
         TimeoutPublish, Waiting, document, JobsOK
<1>1. OrderOK' /\ CallsOK' /\ CreatorOK'
  BY <1>0, SameCreator DEF OrderOK, CallsOK
<1>2. CASE StartTimeout(j) \/ TimeoutRead(j) \/ RetryTimeout(j)
  <2>1. UNCHANGED <<winnerId, stranded>>
    BY <1>2 DEF StartTimeout, TimeoutRead, RetryTimeout, document, history
  <2>2. PICK job : /\ jobs' = [jobs EXCEPT ![j] = job]
                   /\ DOMAIN job = {"state", "winner"}
                   /\ job = [x \in {"state", "winner"} |-> job[x]]
                   /\ job.state \in {"active", "setWinner", "delayed"}
                   /\ job.state = "setWinner" => job.winner # Nobody
    <3>1. CASE StartTimeout(j)
      <4>1. PICK job : job = [jobs[j] EXCEPT !.state = "active"]
        OBVIOUS
      <4>2. jobs' = [jobs EXCEPT ![j] = job]
        BY <1>0, <3>1, <4>1 DEF StartTimeout, JobsOK
      <4>3. DOMAIN job = {"state", "winner"} /\ job.state = "active"
            /\ job = [x \in {"state", "winner"} |-> job[x]]
        BY <1>0, <4>1
      <4> QED
        BY <4>2, <4>3
    <3>2. CASE TimeoutRead(j)
      <4>1. PICK job : job = [state |-> "setWinner", winner |-> Idler]
        OBVIOUS
      <4>2. jobs' = [jobs EXCEPT ![j] = job] /\ job.winner # Nobody
        BY <1>0, <3>2, <4>1, IdlerFact DEF TimeoutRead
      <4>3. DOMAIN job = {"state", "winner"} /\ job.state = "setWinner"
            /\ job = [x \in {"state", "winner"} |-> job[x]]
        BY <4>1
      <4> QED
        BY <4>2, <4>3
    <3>3. CASE RetryTimeout(j)
      <4>1. PICK job : job = [state |-> "delayed", winner |-> Nobody]
        OBVIOUS
      <4>2. jobs' = [jobs EXCEPT ![j] = job]
        BY <3>3, <4>1 DEF RetryTimeout
      <4>3. DOMAIN job = {"state", "winner"} /\ job.state = "delayed"
            /\ job = [x \in {"state", "winner"} |-> job[x]]
        BY <4>1
      <4> QED
        BY <4>2, <4>3
    <3> QED
      BY <1>2, <3>1, <3>2, <3>3
  <2>3. JobsOK'
    BY <1>0, <2>2, OneJob
  <2>4. Written' /\ Armed'
    BY <1>0, <2>1, <2>2 DEF JobsOK, Written, Armed
  <2> QED
    BY <1>1, <2>3, <2>4 DEF TimerArmed, Armed
<1>3. CASE TimeoutSetWinner(j)
  <2>1. jobs[j].winner # Nobody
    BY <1>0, <1>3 DEF TimeoutSetWinner, JobsOK
  <2>2. stranded' \/ winnerId' # Nobody
    BY <1>3, <2>1 DEF TimeoutSetWinner, FaultInTheGap
  <2>3. JobsOK'
    BY <1>0, <1>3, JobGoesOn DEF TimeoutSetWinner
  <2>4. Written'
    BY <1>0, <1>3, <2>1 DEF TimeoutSetWinner, JobsOK, Written
  <2> QED
    BY <1>1, <2>2, <2>3, <2>4 DEF TimerArmed, Playing
<1>4. CASE TimeoutAward(j) \/ TimeoutPublish(j)
  <2>1. winnerId' = winnerId /\ winnerId # Nobody
    BY <1>4 DEF TimeoutAward, TimeoutPublish, Written, document
  <2>2. JobsOK'
    BY <1>0, <1>4, JobGoesOn, RemovedJob DEF TimeoutAward, TimeoutPublish
  <2> QED
    BY <1>1, <2>1, <2>2 DEF Written, TimerArmed, Playing
<1> QED
  BY <1>2, <1>3, <1>4 DEF Timeout

\* A restart strands a match whose call was about to queue a timeout or to end it;
\* a job that was active runs again.
LEMMA CrashTimer ==
  ASSUME TimerInv, Crash
  PROVE  TimerInv'
<1> USE DEF TimerInv
<1>1. UNCHANGED <<order, winnerId>>
  BY DEF Crash, document
<1>2. OrderOK' /\ CreatorOK'
  BY <1>1 DEF OrderOK, Crash, CreatorOK, IdleCreator
<1>3. CallsOK'
  BY <1>1 DEF Crash, CallsOK, CallOK, IdleFrame, FrameFields
<1>4. JobsOK' /\ Written'
  BY <1>1 DEF Crash, JobsOK, Written
<1>5. Armed => Armed'
  BY DEF Crash, Armed
<1>6. TimerArmed'
  BY <1>1, <1>5 DEF Crash, TimerArmed, Armed, Playing
<1> QED
  BY <1>2, <1>3, <1>4, <1>6

\* Every step keeps the invariant.
LEMMA TimerInvariance == Spec => []TimerInv
<1>1. TimerInv /\ [Next]_vars => TimerInv'
  <2> SUFFICES ASSUME TimerInv, [Next]_vars PROVE TimerInv'
    OBVIOUS
  <2>1. CASE Create
    BY <2>1, CreateTimer
  <2>2. CASE \E s \in Slots : Act(s) \/ Serve(s)
    BY <2>2, ActTimer, ServeTimer
  <2>3. CASE \E j \in JobIds : Timeout(j) \/ RetryTimeout(j)
    BY <2>3, TimeoutTimer
  <2>4. CASE Crash
    BY <2>4, CrashTimer
  <2>5. CASE UNCHANGED vars
    BY <2>5, SameJobs, SameCreator DEF TimerInv, vars, OrderOK, CallsOK, Written,
       TimerArmed, Playing
  <2> QED
    BY <2>1, <2>2, <2>3, <2>4, <2>5 DEF Next
<1> QED
  BY TimerInit, <1>1, PTL DEF Spec

\* A match that goes on has a timeout, or a handler that is about to queue one or
\* to end the match, however many calls overlap and whatever they overwrite, unless
\* a failure in exactly that gap has stranded it.
THEOREM TimeoutKept == Spec => []TimerArmed
<1>1. TimerInv => TimerArmed
  BY DEF TimerInv
<1> QED
  BY <1>1, TimerInvariance, PTL

-----------------------------------------------------------------------------
(* What the moves do to the statuses                                        *)

\* A board is sound in the properties' own words.
LEMMA GoodStatuses ==
  AllGood(statuses) => CardsConserved /\ BoardAlive /\ TwinsAreEquipped
<1> SUFFICES ASSUME AllGood(statuses) PROVE CardsConserved /\ BoardAlive /\ TwinsAreEquipped
  OBVIOUS
<1>1. ASSUME NEW p \in Players
      PROVE  Good(p, statuses[p]) /\ Sound(p, statuses[p].onHand, statuses[p].onBoard)
  BY DEF AllGood, Good
<1>2. CardsConserved
  BY <1>1 DEF CardsConserved, Good, Sound, Placed, TokensOf, EquipmentOf
<1>3. BoardAlive
  BY <1>1 DEF BoardAlive, Sound, Placed
<1>4. TwinsAreEquipped
  <2> SUFFICES ASSUME NEW p \in Players, NEW j \in 1..Len(statuses[p].onBoard), NEW i \in 1..(j - 1)
               PROVE  Twins(statuses[p].onBoard[i], statuses[p].onBoard[j])
    BY DEF TwinsAreEquipped, Twins
  <2>1. i \in 1..Len(statuses[p].onBoard) /\ i < j
    BY <1>1 DEF Sound
  <2> QED BY <1>1, <2>1 DEF Sound
<1> QED BY <1>2, <1>3, <1>4

\* No match, and a new one.
LEMMA StartGood ==
  AllGood(NoStatuses) /\ \A first \in Players : AllGood(NewStatuses(first))
<1>1. ASSUME NEW hand, NEW p \in Players PROVE Sound(p, hand, <<>>)
  BY DEF Sound
<1>2. ASSUME NEW p \in Players, NEW crystal \in Nat, NEW turn \in BOOLEAN,
             NEW hand \in SUBSET Deck[p], NEW st,
             st = [onHand |-> hand, onBoard |-> <<>>, crystal |-> crystal,
                   inTurn |-> turn, confirmTurn |-> FALSE]
      PROVE  Good(p, st) /\ st \in Status
  <2>1. hand \in SUBSET Cards
    BY DeckAssumption
  <2>2. st \in Status
    BY <1>2, <2>1 DEF Status
  <2> QED BY <1>1, <1>2, <2>2 DEF Good
<1>3. AllGood(NoStatuses)
  BY <1>2 DEF AllGood, NoStatuses
<1>4. ASSUME NEW first \in Players PROVE AllGood(NewStatuses(first))
  <2>1. ASSUME NEW p \in Players
        PROVE  Good(p, NewStatuses(first)[p]) /\ NewStatuses(first)[p] \in Status
    <3>1. PICK crystal \in Nat : crystal = IF p = first THEN 3 ELSE 0
      OBVIOUS
    <3>2. PICK turn \in BOOLEAN : turn = (p = first)
      OBVIOUS
    <3>3. NewStatuses(first)[p] = [onHand |-> Deck[p], onBoard |-> <<>>, crystal |-> crystal,
                                   inTurn |-> turn, confirmTurn |-> FALSE]
      BY <3>1, <3>2 DEF NewStatuses
    <3> QED BY <1>2, <3>3
  <2>2. NewStatuses(first) = [p \in Players |-> NewStatuses(first)[p]]
    BY DEF NewStatuses
  <2> QED BY <2>1, <2>2 DEF AllGood
<1> QED BY <1>3, <1>4

\* One player's status changes.
LEMMA OneGood ==
  ASSUME NEW all, AllGood(all), NEW p \in Players, NEW st, Good(p, st),
         NEW next, next = [all EXCEPT ![p] = st]
  PROVE  AllGood(next)
  BY DEF AllGood, Good

\* Putting, denying and attacking keep the cards and the boards in order.
LEMMA ActedGood ==
  ASSUME NEW all, AllGood(all), NEW p \in Players, NEW next, Acted(all, p, next)
  PROVE  AllGood(next)
<1> DEFINE me == all[p]
           o == Opponent(p)
<1>0. Good(p, me) /\ Good(o, all[o]) /\ o \in Players /\ o # p
  BY OpponentFact DEF AllGood
<1>1. CASE \E card \in me.onHand, position \in Positions :
             /\ CanPut(me.crystal, card, me.onBoard, position)
             /\ next = [all EXCEPT ![p] = Put(me, card, position)]
  <2>1. PICK card \in me.onHand, position \in Positions :
             /\ CanPut(me.crystal, card, me.onBoard, position)
             /\ next = [all EXCEPT ![p] = Put(me, card, position)]
    BY <1>1
  <2>2. PICK st : st = Put(me, card, position)
    OBVIOUS
  <2>3. Good(p, st)
    <3> HIDE DEF me
    <3> QED BY <1>0, <2>1, <2>2, PutGood
  <2> QED BY <2>1, <2>2, <2>3, OneGood
<1>2. CASE \E card \in me.onHand : next = [all EXCEPT ![p] = Deny(me, card)]
  <2>1. PICK card \in me.onHand : next = [all EXCEPT ![p] = Deny(me, card)]
    BY <1>2
  <2>2. PICK st : st = Deny(me, card)
    OBVIOUS
  <2>3. Good(p, st)
    <3> HIDE DEF me
    <3> QED BY <1>0, <2>1, <2>2, DenyGood
  <2> QED BY <2>1, <2>2, <2>3, OneGood
<1>3. CASE \E board \in Attack(me.onBoard, all[o].onBoard) :
             next = [all EXCEPT ![o].onBoard = board, ![p].confirmTurn = TRUE]
  <2>1. PICK board \in Attack(me.onBoard, all[o].onBoard) :
             next = [all EXCEPT ![o].onBoard = board, ![p].confirmTurn = TRUE]
    BY <1>3
  <2>2. Sound(o, all[o].onHand, board)
    <3>1. PICK b, hand : b = all[o].onBoard /\ hand = all[o].onHand
      OBVIOUS
    <3>2. Sound(o, hand, b)
      BY <1>0, <3>1 DEF Good
    <3>3. PICK attackers : attackers = me.onBoard
      OBVIOUS
    <3>4. attackers \in Seq(BoardCard)
      BY <1>0, <3>3 DEF Good, Sound
    <3>5. board \in Attack(attackers, b)
      BY <2>1, <3>1, <3>3
    <3> QED BY <3>1, <3>2, <3>4, <3>5, AttackSound
  <2>3. PICK his : his = [all[o] EXCEPT !.onBoard = board]
    OBVIOUS
  <2>4. PICK mine : mine = [me EXCEPT !.confirmTurn = TRUE]
    OBVIOUS
  <2>5. board \in Seq(BoardCard)
    BY <2>2 DEF Sound
  <2>6. Good(o, his)
    <3>1. all[o] \in Status /\ all[o].onHand \subseteq Deck[o]
      BY <1>0 DEF Good
    <3>2. his \in Status /\ his.onHand = all[o].onHand /\ his.onBoard = board
      BY <2>3, <2>5, <3>1 DEF Status
    <3> QED BY <2>2, <3>1, <3>2 DEF Good
  <2>7. Good(p, mine)
    <3>1. mine \in Status /\ mine.onHand = me.onHand /\ mine.onBoard = me.onBoard
      BY <1>0, <2>4 DEF Good, Status
    <3> QED BY <1>0, <3>1 DEF Good
  <2>8. PICK half : half = [all EXCEPT ![o] = his]
    OBVIOUS
  <2>9. AllGood(half)
    BY <1>0, <2>6, <2>8, OneGood
  <2>10. half[p] = me
    BY <1>0, <2>8 DEF AllGood
  <2>11. next = [half EXCEPT ![p] = mine]
    <3>1. next = [[all EXCEPT ![o] = [all[o] EXCEPT !.onBoard = board]]
                    EXCEPT ![p] = [[all EXCEPT ![o] = [all[o] EXCEPT !.onBoard = board]][p]
                                     EXCEPT !.confirmTurn = TRUE]]
      BY <2>1
    <3> QED BY <2>3, <2>4, <2>8, <2>10, <3>1
  <2> QED BY <2>7, <2>9, <2>11, OneGood
<1> QED BY <1>1, <1>2, <1>3 DEF Acted

\* A turn that passes moves no card.
LEMMA PassGood ==
  ASSUME NEW all, AllGood(all), NEW p \in Players, NEW next, next = PassTurn(all, p)
  PROVE  AllGood(next)
<1> DEFINE o == Opponent(p)
<1>1. o \in Players /\ o # p /\ Players = {p, o}
  BY OpponentFact
<1>2. PICK mine, his : /\ mine = [all[p] EXCEPT !.inTurn = FALSE, !.confirmTurn = FALSE]
                       /\ his = [all[o] EXCEPT !.inTurn = TRUE, !.confirmTurn = FALSE,
                                               !.crystal = @ + 3]
  OBVIOUS
<1>3. next = [q \in Players |-> IF q = p THEN mine ELSE his]
  BY <1>1, <1>2 DEF PassTurn, AllGood
<1>4. Good(p, mine)
  <2>1. all[p] \in Status /\ Good(p, all[p])
    BY DEF AllGood, Good
  <2>2. mine \in Status /\ mine.onHand = all[p].onHand /\ mine.onBoard = all[p].onBoard
    BY <1>2, <2>1 DEF Status
  <2> QED BY <2>1, <2>2 DEF Good
<1>5. Good(o, his)
  <2>1. all[o] \in Status /\ Good(o, all[o])
    BY <1>1 DEF AllGood, Good
  <2>2. PICK n \in Nat : n = all[o].crystal + 3
    BY <2>1 DEF Status
  <2>3. his = [all[o] EXCEPT !.inTurn = TRUE, !.confirmTurn = FALSE, !.crystal = n]
    BY <1>2, <2>2
  <2>4. his \in Status /\ his.onHand = all[o].onHand /\ his.onBoard = all[o].onBoard
    BY <2>1, <2>3 DEF Status
  <2> QED BY <2>1, <2>4 DEF Good
<1> HIDE DEF o
<1> QED BY <1>1, <1>3, <1>4, <1>5 DEF AllGood, Good

-----------------------------------------------------------------------------
(* Types, and the ids of the timeouts                                       *)

\* A call that is going to queue a timeout, unless it fails.
Adds(f) == f.pc = "addJob" \/ (f.pc = "removeJob" /\ f.winner = Nobody)
Adding == {s \in Slots : Adds(calls[s])}

\* A job id is left for every timeout that a handler is going to queue.
Allocated ==
  issued.job + Cardinality(Adding) + (IF creator.pc \in {"save", "addJob"} THEN 1 ELSE 0)
    <= MaxJobs

\* The values of a call, and of the jobs.
Frame == [pc: CallPC, next: [Players -> Status], job: JobIds \cup {NoId},
          winner: Players \cup {Nobody}]
FramesTyped == calls \in [Slots -> Frame] /\ \A s \in Slots : AllGood(calls[s].next)
Job == [state: {"delayed", "active", "setWinner", "award", "publish", "failed"},
        winner: Players \cup {Nobody}]
JobsTyped == DOMAIN jobs \subseteq JobIds /\ \A j \in DOMAIN jobs : jobs[j] \in Job

\* What else TypeOK says.
DocumentTyped ==
  /\ OrderOK /\ timeoutJobId \in JobIds \cup {NoId} /\ winnerId \in Players \cup {Nobody}
CreatorTyped == creator \in [pc: {"idle", "save", "addJob", "setJob"}, job: JobIds \cup {NoId}]
CountsTyped ==
  /\ rewards \in [Players -> Nat]
  /\ issued \in [job: 0..MaxJobs, quit: 0..MaxQuits, fault: 0..MaxFaults]
  /\ raced \in BOOLEAN /\ stranded \in BOOLEAN

\* The parts together, and that a job id is left for every timeout to come.
TypeInv ==
  /\ AllGood(statuses) /\ FramesTyped /\ JobsTyped /\ DocumentTyped /\ CreatorTyped
  /\ CountsTyped /\ Allocated

\* The invariant says what TypeOK says.
LEMMA TypeInvTypes == TypeInv => TypeOK /\ AllGood(statuses)
<1> SUFFICES ASSUME TypeInv PROVE TypeOK /\ AllGood(statuses)
  OBVIOUS
<1>1. statuses \in [Players -> Status] /\ AllGood(statuses)
  BY DEF TypeInv, AllGood
<1> QED
  BY <1>1 DEF TypeInv, FramesTyped, Frame, JobsTyped, Job, DocumentTyped, OrderOK,
     CreatorTyped, CountsTyped, TypeOK

\* A call that has not begun, or has returned.
LEMMA IdleTyped == IdleFrame \in Frame /\ AllGood(IdleFrame.next) /\ ~Adds(IdleFrame)
<1>1. AllGood(NoStatuses) /\ NoStatuses \in [Players -> Status]
  BY StartGood DEF AllGood
<1> QED BY <1>1 DEF IdleFrame, Frame, CallPC, Adds

\* One call goes on.
LEMMA FrameTyped ==
  ASSUME FramesTyped, NEW s \in Slots, NEW f \in Frame, AllGood(f.next),
         calls' = [calls EXCEPT ![s] = f]
  PROVE  /\ FramesTyped'
         /\ Cardinality(Adding) \in Nat /\ Cardinality(Adding') \in Nat
         /\ Cardinality(Adding') + (IF Adds(calls[s]) THEN 1 ELSE 0)
              = Cardinality(Adding) + (IF Adds(f) THEN 1 ELSE 0)
<1>1. FramesTyped'
  BY DEF FramesTyped
<1>2. calls'[s] = f /\ \A t \in Slots \ {s} : calls'[t] = calls[t]
  BY DEF FramesTyped
<1>3. PICK A, B : A = Adding /\ B = Adding'
  OBVIOUS
<1>4. /\ A \in SUBSET Slots /\ B \in SUBSET Slots /\ A \ {s} = B \ {s}
      /\ s \in A <=> Adds(calls[s])
      /\ s \in B <=> Adds(f)
  BY <1>2, <1>3 DEF Adding
<1>5. IsFiniteSet(Slots)
  BY SlotAssumption
<1>6. /\ Cardinality(A) \in Nat /\ Cardinality(B) \in Nat
      /\ Cardinality(B) + (IF s \in A THEN 1 ELSE 0)
           = Cardinality(A) + (IF s \in B THEN 1 ELSE 0)
  BY <1>4, <1>5, CountChange
<1> QED BY <1>1, <1>3, <1>4, <1>6

\* A call that is not going to queue a timeout.
LEMMA FrameNoAdd ==
  ASSUME FramesTyped, NEW s \in Slots, NEW f \in Frame, AllGood(f.next), ~Adds(f),
         calls' = [calls EXCEPT ![s] = f]
  PROVE  /\ FramesTyped'
         /\ Cardinality(Adding) \in Nat /\ Cardinality(Adding') \in Nat
         /\ Cardinality(Adding') + (IF Adds(calls[s]) THEN 1 ELSE 0) = Cardinality(Adding)
         /\ Cardinality(Adding') <= Cardinality(Adding)
<1>1. /\ FramesTyped'
      /\ Cardinality(Adding) \in Nat /\ Cardinality(Adding') \in Nat
      /\ Cardinality(Adding') + (IF Adds(calls[s]) THEN 1 ELSE 0)
           = Cardinality(Adding) + (IF Adds(f) THEN 1 ELSE 0)
  BY FrameTyped
<1> QED BY <1>1

\* A call returns.
LEMMA ReturnTyped ==
  ASSUME FramesTyped, NEW s \in Slots, Return(s)
  PROVE  /\ FramesTyped'
         /\ Cardinality(Adding) \in Nat /\ Cardinality(Adding') \in Nat
         /\ Cardinality(Adding') + (IF Adds(calls[s]) THEN 1 ELSE 0) = Cardinality(Adding)
         /\ Cardinality(Adding') <= Cardinality(Adding)
<1>1. PICK f : f = IdleFrame
  OBVIOUS
<1>2. f \in Frame /\ AllGood(f.next) /\ ~Adds(f) /\ calls' = [calls EXCEPT ![s] = f]
  BY <1>1, IdleTyped DEF Return
<1> QED BY <1>2, FrameNoAdd

\* A timeout is queued: an id is left.
LEMMA QueueTyped ==
  ASSUME JobsTyped, CountsTyped, issued.job < MaxJobs, QueueTimeout
  PROVE  /\ JobsTyped' /\ issued'.job = issued.job + 1 /\ issued'.job \in JobIds
         /\ issued' \in [job: 0..MaxJobs, quit: 0..MaxQuits, fault: 0..MaxFaults]
<1>1. issued \in [job: 0..MaxJobs, quit: 0..MaxQuits, fault: 0..MaxFaults] /\ MaxJobs \in Nat
  BY MatchBoundAssumption DEF CountsTyped
<1>2. PICK n : n = issued.job + 1
  OBVIOUS
<1>3. n \in 1..MaxJobs /\ issued' = [issued EXCEPT !.job = n]
  BY <1>1, <1>2 DEF QueueTimeout
<1>4. /\ issued' \in [job: 0..MaxJobs, quit: 0..MaxQuits, fault: 0..MaxFaults]
      /\ issued'.job = n
  BY <1>1, <1>3
<1>5. jobs' = With(jobs, n, [state |-> "delayed", winner |-> Nobody])
  BY <1>4 DEF QueueTimeout
<1>6. [state |-> "delayed", winner |-> Nobody] \in Job
  BY DEF Job
<1>7. JobsTyped'
  BY <1>3, <1>5, <1>6 DEF JobsTyped, With, JobIds
<1> QED BY <1>2, <1>3, <1>4, <1>7 DEF JobIds

\* An operation fails.
LEMMA FaultTyped ==
  ASSUME CountsTyped, Fault
  PROVE  /\ issued' \in [job: 0..MaxJobs, quit: 0..MaxQuits, fault: 0..MaxFaults]
         /\ issued'.job = issued.job
<1>1. issued \in [job: 0..MaxJobs, quit: 0..MaxQuits, fault: 0..MaxFaults] /\ MaxFaults \in Nat
  BY MatchBoundAssumption DEF CountsTyped
<1>2. PICK n : n = issued.fault + 1
  OBVIOUS
<1>3. n \in 0..MaxFaults /\ issued' = [issued EXCEPT !.fault = n]
  BY <1>1, <1>2 DEF Fault
<1> QED BY <1>1, <1>3

\* The calls that are going to queue a timeout are finitely many.
LEMMA AddingFinite == IsFiniteSet(Adding) /\ Cardinality(Adding) \in Nat
<1>1. Adding \in SUBSET Slots /\ IsFiniteSet(Slots)
  BY SlotAssumption DEF Adding
<1> QED BY <1>1, FS_Subset, FS_CardinalityType

\* Winner names a player of the match, or nobody.
LEMMA WinnerFact ==
  ASSUME NEW o, NEW p \in Players, o = <<p, Opponent(p)>>, NEW all
  PROVE  Winner(o, all) \in Players \cup {Nobody}
<1>1. o[1] \in Players /\ o[2] \in Players
  BY OpponentFact
<1> QED BY <1>1 DEF Winner

\* createMatch.
LEMMA CreateTypes ==
  ASSUME TypeInv, Create
  PROVE  TypeInv'
<1> USE DEF TypeInv
<1>1. CASE SaveMatch
  <2>1. PICK first \in Players : order' = <<first, Opponent(first)>> /\ statuses' = NewStatuses(first)
    BY <1>1 DEF SaveMatch
  <2>2. AllGood(statuses)'
    BY <2>1, StartGood
  <2>3. DocumentTyped'
    BY <1>1, <2>1 DEF SaveMatch, DocumentTyped, OrderOK
  <2>4. CreatorTyped' /\ creator.pc = "save" /\ creator'.pc = "addJob"
    BY <1>1 DEF SaveMatch, CreatorTyped
  <2>5. UNCHANGED <<calls, jobs, rewards, issued, raced, stranded>>
    BY <1>1 DEF SaveMatch, history
  <2>6. Adding' = Adding /\ FramesTyped' /\ JobsTyped' /\ CountsTyped'
    BY <2>5 DEF Adding, FramesTyped, JobsTyped, CountsTyped
  <2>7. Allocated'
    BY <2>4, <2>5, <2>6 DEF Allocated
  <2> QED BY <2>2, <2>3, <2>4, <2>6, <2>7
<1>2. CASE CreatorAddJob
  <2>1. UNCHANGED <<document, calls, rewards, raced>> /\ creator.pc = "addJob"
    BY <1>2 DEF CreatorAddJob
  <2>2. AllGood(statuses)' /\ DocumentTyped' /\ FramesTyped' /\ Adding' = Adding
    BY <2>1 DEF document, DocumentTyped, OrderOK, FramesTyped, Adding
  <2>3. issued.job + Cardinality(Adding) + 1 <= MaxJobs /\ issued.job \in Nat /\ MaxJobs \in Nat
    BY <2>1, MatchBoundAssumption DEF Allocated, CountsTyped
  <2>4. CASE QueueTimeout /\ creator' = [pc |-> "setJob", job |-> issued'.job]
             /\ stranded' = stranded
    <3>1. issued.job < MaxJobs
      BY <2>3, AddingFinite
    <3>2. /\ JobsTyped' /\ issued'.job = issued.job + 1 /\ issued'.job \in JobIds
          /\ issued' \in [job: 0..MaxJobs, quit: 0..MaxQuits, fault: 0..MaxFaults]
      BY <2>4, <3>1, QueueTyped
    <3>3. CreatorTyped' /\ creator'.pc = "setJob"
      BY <2>4, <3>2 DEF CreatorTyped
    <3>4. CountsTyped'
      BY <2>1, <2>4, <3>2 DEF CountsTyped
    <3>5. Allocated'
      BY <2>2, <2>3, <3>2, <3>3, AddingFinite DEF Allocated
    <3> QED BY <2>2, <3>2, <3>3, <3>4, <3>5
  <2>5. CASE FaultInTheGap /\ creator' = IdleCreator /\ jobs' = jobs
    <3>1. /\ issued' \in [job: 0..MaxJobs, quit: 0..MaxQuits, fault: 0..MaxFaults]
          /\ issued'.job = issued.job /\ stranded' = TRUE
      BY <2>5, FaultTyped DEF FaultInTheGap
    <3>2. CreatorTyped' /\ creator'.pc = "idle"
      BY <2>5 DEF CreatorTyped, IdleCreator
    <3>3. CountsTyped' /\ JobsTyped'
      BY <2>1, <2>5, <3>1 DEF CountsTyped, JobsTyped
    <3>4. Allocated'
      BY <2>2, <2>3, <3>1, <3>2, AddingFinite DEF Allocated
    <3> QED BY <2>2, <3>2, <3>3, <3>4
  <2> QED BY <1>2, <2>4, <2>5 DEF CreatorAddJob
<1>3. CASE CreatorSetJob
  <2>1. UNCHANGED <<order, statuses, winnerId, jobs, calls, rewards, raced, stranded>>
        /\ creator.pc = "setJob" /\ creator' = IdleCreator
    BY <1>3 DEF CreatorSetJob, history
  <2>2. DocumentTyped'
    BY <1>3, <2>1 DEF CreatorSetJob, DocumentTyped, OrderOK, CreatorTyped
  <2>3. CreatorTyped' /\ creator'.pc = "idle"
    BY <2>1 DEF CreatorTyped, IdleCreator
  <2>4. /\ issued' \in [job: 0..MaxJobs, quit: 0..MaxQuits, fault: 0..MaxFaults]
        /\ issued'.job = issued.job
    BY <1>3, FaultTyped DEF CreatorSetJob, CountsTyped
  <2>5. AllGood(statuses)' /\ FramesTyped' /\ JobsTyped' /\ CountsTyped' /\ Adding' = Adding
    BY <2>1, <2>4 DEF FramesTyped, JobsTyped, CountsTyped, Adding
  <2>6. Allocated'
    BY <2>1, <2>3, <2>4, <2>5 DEF Allocated
  <2> QED BY <2>2, <2>3, <2>5, <2>6
<1> QED BY <1>1, <1>2, <1>3 DEF Create

\* A handler that reads the document.
LEMMA ActTypes ==
  ASSUME TypeInv, NEW s \in Slots, Act(s)
  PROVE  TypeInv'
<1> USE DEF TypeInv
<1>0. s[1] \in Players
  BY SlotAssumption
<1>1. CASE PutToBoard(s) \/ DenyCard(s) \/ ConfirmTurn(s)
  <2>1. PICK next : Acted(statuses, s[1], next) /\ Computed(s, next)
    BY <1>1, ComputedAct
  <2>2. AllGood(next) /\ next \in [Players -> Status]
    BY <1>0, <2>1, ActedGood DEF AllGood
  <2>3. PICK f : f = [IdleFrame EXCEPT !.pc = "write", !.next = next]
    OBVIOUS
  <2>4. f \in Frame /\ AllGood(f.next) /\ ~Adds(f)
    BY <2>2, <2>3, IdleTyped DEF Frame, IdleFrame, CallPC, Adds
  <2>5. calls' = [calls EXCEPT ![s] = f]
    BY <2>1, <2>3 DEF Computed
  <2>6. UNCHANGED <<document, jobs, creator, rewards, issued, history>>
    BY <1>1 DEF PutToBoard, DenyCard, ConfirmTurn
  <2>7. /\ FramesTyped' /\ Cardinality(Adding') \in Nat /\ Cardinality(Adding) \in Nat
        /\ Cardinality(Adding') <= Cardinality(Adding)
    BY <2>4, <2>5, FrameNoAdd
  <2>8. Allocated'
    BY <2>6, <2>7, MatchBoundAssumption DEF Allocated, CountsTyped
  <2> QED
    BY <2>6, <2>7, <2>8 DEF document, history, DocumentTyped, OrderOK, CreatorTyped,
       CountsTyped, JobsTyped
<1>2. CASE EndTurn(s)
  <2>1. UNCHANGED <<document, jobs, creator, rewards, issued, history>> /\ order # <<>>
    BY <1>2 DEF EndTurn, Playing
  <2>2. PICK next, winner, job : /\ next = PassTurn(statuses, s[1])
                                 /\ winner = Winner(order, statuses) /\ job = timeoutJobId
    OBVIOUS
  <2>3. AllGood(next) /\ next \in [Players -> Status]
    BY <1>0, <2>2, PassGood DEF AllGood
  <2>4. winner \in Players \cup {Nobody} /\ job \in JobIds \cup {NoId}
    BY <2>1, <2>2, WinnerFact DEF DocumentTyped, OrderOK
  <2>5. PICK f : f = [pc |-> "removeJob", next |-> next, job |-> job, winner |-> winner]
    OBVIOUS
  <2>6. f \in Frame /\ AllGood(f.next) /\ (Adds(f) <=> winner = Nobody)
    BY <2>3, <2>4, <2>5 DEF Frame, CallPC, Adds
  <2>7. calls' = [calls EXCEPT ![s] = f] /\ calls[s].pc = "idle"
    BY <1>2, <2>2, <2>5 DEF EndTurn
  <2>8. /\ FramesTyped' /\ Cardinality(Adding') \in Nat /\ Cardinality(Adding) \in Nat
        /\ Cardinality(Adding') + (IF Adds(calls[s]) THEN 1 ELSE 0)
             = Cardinality(Adding) + (IF Adds(f) THEN 1 ELSE 0)
    BY <2>6, <2>7, FrameTyped
  <2>9. ~Adds(calls[s])
    BY <2>7 DEF Adds
  <2>10. Allocated'
    <3>0. issued.job \in Nat /\ MaxJobs \in Nat
      BY MatchBoundAssumption DEF CountsTyped
    <3>1. CASE winner # Nobody
      BY <2>1, <2>6, <2>8, <2>9, <3>0, <3>1 DEF Allocated
    <3>2. CASE winner = Nobody
      <4>1. MayQueue
        BY <1>2, <2>2, <3>2 DEF EndTurn
      <4>2. Cardinality(Adding) <= Cardinality(Queueing) /\ Cardinality(Queueing) \in Nat
        <5>1. IsFiniteSet(Queueing)
          <6>1. Queueing \in SUBSET Slots /\ IsFiniteSet(Slots)
            BY SlotAssumption DEF Queueing
          <6> QED BY <6>1, FS_Subset
        <5>2. Adding \in SUBSET Queueing
          BY DEF Adding, Queueing, Adds
        <5> QED BY <5>1, <5>2, FS_Subset, FS_CardinalityType
      <4> QED BY <2>1, <2>6, <2>8, <2>9, <3>0, <3>2, <4>1, <4>2 DEF Allocated, MayQueue
    <3> QED BY <3>1, <3>2
  <2> QED
    BY <2>1, <2>8, <2>10 DEF document, history, DocumentTyped, OrderOK, CreatorTyped,
       CountsTyped, JobsTyped
<1>3. CASE Surrender(s)
  <2>1. UNCHANGED <<document, jobs, creator, rewards, history>>
    BY <1>3 DEF Surrender
  <2>2. PICK f : f = [IdleFrame EXCEPT !.pc = "setWinner", !.winner = Opponent(s[1])]
    OBVIOUS
  <2>3. f \in Frame /\ AllGood(f.next) /\ ~Adds(f)
    BY <1>0, <2>2, IdleTyped, OpponentFact DEF Frame, IdleFrame, CallPC, Adds
  <2>4. calls' = [calls EXCEPT ![s] = f]
    BY <1>3, <2>2 DEF Surrender
  <2>5. /\ FramesTyped' /\ Cardinality(Adding') \in Nat /\ Cardinality(Adding) \in Nat
        /\ Cardinality(Adding') <= Cardinality(Adding)
    BY <2>3, <2>4, FrameNoAdd
  <2>6. issued' = [issued EXCEPT !.quit = issued.quit + 1] /\ issued.quit < MaxQuits
    BY <1>3 DEF Surrender
  <2>7. /\ issued' \in [job: 0..MaxJobs, quit: 0..MaxQuits, fault: 0..MaxFaults]
        /\ issued'.job = issued.job
    <3>1. issued \in [job: 0..MaxJobs, quit: 0..MaxQuits, fault: 0..MaxFaults] /\ MaxQuits \in Nat
      BY MatchBoundAssumption DEF CountsTyped
    <3>2. PICK n : n = issued.quit + 1
      OBVIOUS
    <3>3. n \in 0..MaxQuits /\ issued' = [issued EXCEPT !.quit = n]
      BY <2>6, <3>1, <3>2
    <3> QED BY <3>1, <3>3
  <2>8. Allocated'
    BY <2>1, <2>5, <2>7, MatchBoundAssumption DEF Allocated, CountsTyped
  <2> QED
    BY <2>1, <2>5, <2>7, <2>8 DEF document, history, DocumentTyped, OrderOK, CreatorTyped,
       CountsTyped, JobsTyped
<1> QED BY <1>1, <1>2, <1>3 DEF Act

\* A card is minted to the winner.
LEMMA RewardTyped ==
  ASSUME rewards \in [Players -> Nat], NEW w, rewards' = [rewards EXCEPT ![w] = @ + 1]
  PROVE  rewards' \in [Players -> Nat]
<1>1. CASE w \in Players
  <2>1. PICK n \in Nat : n = rewards[w] + 1
    BY <1>1
  <2>2. rewards' = [rewards EXCEPT ![w] = n]
    BY <2>1
  <2> QED BY <2>2
<1>2. CASE w \notin Players
  BY <1>2
<1> QED BY <1>1, <1>2

\* A handler that goes on after its read.
LEMMA ServeTypes ==
  ASSUME TypeInv, NEW s \in Slots, Serve(s)
  PROVE  TypeInv'
<1> USE DEF TypeInv
<1>0. /\ calls[s] \in Frame /\ AllGood(calls[s].next) /\ creator' = creator /\ CreatorTyped'
      /\ issued.job \in Nat /\ MaxJobs \in Nat /\ order' = order
  BY MatchBoundAssumption DEF FramesTyped, Serve, WriteStatuses, RemoveJob, AddJob,
     WriteTurn, SetWinner, Award, document, CreatorTyped, CountsTyped
<1>1. CASE WriteStatuses(s) \/ WriteTurn(s)
  <2>1. /\ Return(s) /\ UNCHANGED <<winnerId, jobs, rewards, stranded>>
        /\ raced' \in BOOLEAN
    BY <1>1 DEF WriteStatuses, WriteTurn, history, CountsTyped
  <2>2. (statuses' = statuses \/ statuses' = calls[s].next)
        /\ (timeoutJobId' = timeoutJobId \/ timeoutJobId' = calls[s].job)
        /\ (issued' = issued \/ Fault)
    BY <1>1 DEF WriteStatuses, WriteTurn
  <2>3. AllGood(statuses)' /\ DocumentTyped'
    BY <1>0, <2>1, <2>2 DEF DocumentTyped, OrderOK, Frame
  <2>4. /\ FramesTyped' /\ Cardinality(Adding') \in Nat /\ Cardinality(Adding) \in Nat
        /\ Cardinality(Adding') <= Cardinality(Adding)
    BY <2>1, ReturnTyped
  <2>5. /\ issued' \in [job: 0..MaxJobs, quit: 0..MaxQuits, fault: 0..MaxFaults]
        /\ issued'.job = issued.job
    BY <2>2, FaultTyped DEF CountsTyped
  <2>6. CountsTyped' /\ JobsTyped'
    BY <2>1, <2>5 DEF CountsTyped, JobsTyped
  <2>7. Allocated'
    BY <1>0, <2>4, <2>5 DEF Allocated
  <2> QED BY <1>0, <2>3, <2>4, <2>6, <2>7
<1>2. CASE RemoveJob(s)
  <2>1. /\ UNCHANGED <<document, creator, rewards, stranded>> /\ calls[s].pc = "removeJob"
        /\ raced' \in BOOLEAN
    BY <1>2 DEF RemoveJob, CountsTyped
  <2>2. /\ issued' \in [job: 0..MaxJobs, quit: 0..MaxQuits, fault: 0..MaxFaults]
        /\ issued'.job = issued.job
    BY <1>2, FaultTyped DEF RemoveJob, CountsTyped
  <2>3. JobsTyped'
    BY <1>2 DEF RemoveJob, JobsTyped, Without, Restrict
  <2>4. /\ FramesTyped' /\ Cardinality(Adding') \in Nat /\ Cardinality(Adding) \in Nat
        /\ Cardinality(Adding') <= Cardinality(Adding)
    <3>1. CASE Return(s)
      BY <3>1, ReturnTyped
    <3>2. CASE Goto(s, IF calls[s].winner # Nobody THEN "setWinner" ELSE "addJob")
      <4>1. PICK pc : pc = IF calls[s].winner # Nobody THEN "setWinner" ELSE "addJob"
        OBVIOUS
      <4>2. PICK f : f = [calls[s] EXCEPT !.pc = pc]
        OBVIOUS
      <4>3. f \in Frame /\ AllGood(f.next) /\ (Adds(f) <=> Adds(calls[s]))
        BY <1>0, <2>1, <4>1, <4>2 DEF Frame, CallPC, Adds
      <4>4. calls' = [calls EXCEPT ![s] = f]
        BY <3>2, <4>1, <4>2 DEF Goto, FramesTyped
      <4>5. /\ FramesTyped' /\ Cardinality(Adding') \in Nat /\ Cardinality(Adding) \in Nat
            /\ Cardinality(Adding') + (IF Adds(calls[s]) THEN 1 ELSE 0)
                 = Cardinality(Adding) + (IF Adds(f) THEN 1 ELSE 0)
        BY <4>3, <4>4, FrameTyped
      <4> QED BY <4>3, <4>5
    <3> QED BY <1>2, <3>1, <3>2 DEF RemoveJob
  <2>5. Allocated'
    BY <1>0, <2>2, <2>4 DEF Allocated
  <2> QED
    BY <1>0, <2>1, <2>2, <2>3, <2>4, <2>5 DEF document, DocumentTyped, OrderOK, CountsTyped
<1>3. CASE AddJob(s)
  <2>1. UNCHANGED <<document, creator, rewards, raced>> /\ calls[s].pc = "addJob"
    BY <1>3 DEF AddJob
  <2>2. Adds(calls[s])
    BY <2>1 DEF Adds
  <2>3. CASE /\ QueueTimeout /\ stranded' = stranded
             /\ calls' = [calls EXCEPT ![s].pc = "writeTurn", ![s].job = issued'.job]
    <3>1. issued.job < MaxJobs
      <4>1. s \in Adding
        BY <2>2 DEF Adding
      <4>2. Cardinality(Adding) # 0
        BY <4>1, AddingFinite, FS_EmptySet
      <4> QED BY <1>0, <4>2, AddingFinite DEF Allocated
    <3>2. /\ JobsTyped' /\ issued'.job = issued.job + 1 /\ issued'.job \in JobIds
          /\ issued' \in [job: 0..MaxJobs, quit: 0..MaxQuits, fault: 0..MaxFaults]
      BY <2>3, <3>1, QueueTyped
    <3>3. PICK job : job = issued'.job
      OBVIOUS
    <3>4. PICK f : f = [calls[s] EXCEPT !.pc = "writeTurn", !.job = job]
      OBVIOUS
    <3>5. f \in Frame /\ AllGood(f.next) /\ ~Adds(f)
      BY <1>0, <3>2, <3>3, <3>4 DEF Frame, CallPC, Adds
    <3>6. calls' = [calls EXCEPT ![s] = f]
      BY <2>3, <3>3, <3>4 DEF FramesTyped
    <3>7. /\ FramesTyped' /\ Cardinality(Adding') \in Nat /\ Cardinality(Adding) \in Nat
          /\ Cardinality(Adding') + (IF Adds(calls[s]) THEN 1 ELSE 0) = Cardinality(Adding)
      BY <3>5, <3>6, FrameNoAdd
    <3>8. Allocated'
      BY <1>0, <2>2, <3>2, <3>7 DEF Allocated
    <3> QED
      BY <1>0, <2>1, <2>3, <3>2, <3>7, <3>8 DEF document, DocumentTyped, OrderOK, CountsTyped
  <2>4. CASE FaultInTheGap /\ Return(s) /\ jobs' = jobs
    <3>1. /\ issued' \in [job: 0..MaxJobs, quit: 0..MaxQuits, fault: 0..MaxFaults]
          /\ issued'.job = issued.job /\ stranded' = TRUE
      BY <2>4, FaultTyped DEF FaultInTheGap
    <3>2. /\ FramesTyped' /\ Cardinality(Adding') \in Nat /\ Cardinality(Adding) \in Nat
          /\ Cardinality(Adding') <= Cardinality(Adding)
      BY <2>4, ReturnTyped
    <3>3. Allocated'
      BY <1>0, <3>1, <3>2 DEF Allocated
    <3> QED
      BY <1>0, <2>1, <2>4, <3>1, <3>2, <3>3 DEF document, DocumentTyped, OrderOK,
         CountsTyped, JobsTyped
  <2> QED BY <1>3, <2>3, <2>4 DEF AddJob
<1>4. CASE SetWinner(s) \/ Award(s)
  <2>1. /\ UNCHANGED <<order, statuses, timeoutJobId, jobs, creator, raced>>
        /\ (winnerId' = winnerId \/ winnerId' = calls[s].winner)
        /\ (stranded' = stranded \/ stranded' = TRUE)
        /\ (issued' = issued \/ Fault)
    BY <1>4 DEF SetWinner, Award, document, history, FaultInTheGap
  <2>2. DocumentTyped' /\ JobsTyped'
    BY <1>0, <2>1 DEF DocumentTyped, OrderOK, JobsTyped, Frame
  <2>3. rewards' \in [Players -> Nat]
    <3>1. rewards \in [Players -> Nat]
      BY DEF CountsTyped
    <3>2. CASE rewards' = rewards
      BY <3>1, <3>2
    <3>3. CASE rewards' = [rewards EXCEPT ![calls[s].winner] = @ + 1]
      BY <3>1, <3>3, RewardTyped
    <3> QED BY <1>4, <3>2, <3>3 DEF SetWinner, Award
  <2>4. /\ issued' \in [job: 0..MaxJobs, quit: 0..MaxQuits, fault: 0..MaxFaults]
        /\ issued'.job = issued.job
    BY <2>1, FaultTyped DEF CountsTyped
  <2>5. CountsTyped'
    BY <2>1, <2>3, <2>4 DEF CountsTyped
  <2>6. /\ FramesTyped' /\ Cardinality(Adding') \in Nat /\ Cardinality(Adding) \in Nat
        /\ Cardinality(Adding') <= Cardinality(Adding)
    <3>1. CASE Return(s)
      BY <3>1, ReturnTyped
    <3>2. CASE Goto(s, "award")
      <4>1. PICK f : f = [calls[s] EXCEPT !.pc = "award"]
        OBVIOUS
      <4>2. f \in Frame /\ AllGood(f.next) /\ ~Adds(f)
        BY <1>0, <4>1 DEF Frame, CallPC, Adds
      <4>3. calls' = [calls EXCEPT ![s] = f]
        BY <3>2, <4>1 DEF Goto, FramesTyped
      <4> QED BY <4>2, <4>3, FrameNoAdd
    <3> QED BY <1>4, <3>1, <3>2 DEF SetWinner, Award
  <2>7. Allocated'
    BY <1>0, <2>4, <2>6 DEF Allocated
  <2> QED BY <1>0, <2>1, <2>2, <2>5, <2>6, <2>7
<1> QED BY <1>1, <1>2, <1>3, <1>4 DEF Serve

\* One job changes.
LEMMA JobTyped ==
  ASSUME JobsTyped, NEW j \in DOMAIN jobs, NEW job \in Job, jobs' = [jobs EXCEPT ![j] = job]
  PROVE  JobsTyped'
  BY DEF JobsTyped

\* A timeout runs, or runs again.
LEMMA TimeoutTypes ==
  ASSUME TypeInv, TimerInv, NEW j \in JobIds, Timeout(j) \/ RetryTimeout(j)
  PROVE  TypeInv'
<1> USE DEF TypeInv
<1>1. /\ UNCHANGED <<order, statuses, timeoutJobId, creator, calls, raced>>
      /\ j \in DOMAIN jobs
      /\ (stranded' = stranded \/ stranded' = TRUE)
      /\ (issued' = issued \/ Fault)
  BY DEF Timeout, RetryTimeout, StartTimeout, TimeoutRead, TimeoutSetWinner, TimeoutAward,
     TimeoutPublish, Waiting, document, history, FaultInTheGap
<1>2. jobs[j] \in Job
  BY <1>1 DEF JobsTyped
<1>3. /\ issued' \in [job: 0..MaxJobs, quit: 0..MaxQuits, fault: 0..MaxFaults]
      /\ issued'.job = issued.job
  BY <1>1, FaultTyped DEF CountsTyped
<1>4. rewards' \in [Players -> Nat]
  <2>1. rewards \in [Players -> Nat]
    BY DEF CountsTyped
  <2>2. CASE rewards' = rewards
    BY <2>1, <2>2
  <2>3. CASE rewards' = [rewards EXCEPT ![jobs[j].winner] = @ + 1]
    BY <2>1, <2>3, RewardTyped
  <2> QED
    BY <2>2, <2>3 DEF Timeout, RetryTimeout, StartTimeout, TimeoutRead, TimeoutSetWinner,
       TimeoutAward, TimeoutPublish
<1>5. winnerId' = winnerId \/ winnerId' = jobs[j].winner
  BY DEF Timeout, RetryTimeout, StartTimeout, TimeoutRead, TimeoutSetWinner, TimeoutAward,
     TimeoutPublish, document
<1>6. JobsTyped'
  <2>1. Idler \in Players
    <3>1. PICK p \in Players : order = <<p, Opponent(p)>>
      BY <1>1 DEF TimerInv, JobsOK, OrderOK
    <3>2. order[1] \in Players /\ order[2] \in Players
      BY <3>1, OpponentFact
    <3> QED BY <3>2 DEF Idler
  <2>2. CASE \E job \in Job : jobs' = [jobs EXCEPT ![j] = job]
    BY <1>1, <2>2, JobTyped
  <2>3. CASE jobs' = Without(jobs, j)
    BY <2>3 DEF JobsTyped, Without, Restrict
  <2>4. ASSUME NEW state \in {"active", "award", "publish", "failed"},
               jobs' = [jobs EXCEPT ![j].state = state]
        PROVE  \E job \in Job : jobs' = [jobs EXCEPT ![j] = job]
    <3>1. PICK job : job = [jobs[j] EXCEPT !.state = state]
      OBVIOUS
    <3>2. job \in Job
      BY <1>2, <3>1 DEF Job
    <3>3. jobs' = [jobs EXCEPT ![j] = job]
      BY <2>4, <3>1
    <3> QED BY <3>2, <3>3
  <2>5. ASSUME NEW job, job = [state |-> "setWinner", winner |-> Idler]
                        \/ job = [state |-> "delayed", winner |-> Nobody]
        PROVE  job \in Job
    BY <2>1, <2>5 DEF Job
  <2>6. CASE TimeoutPublish(j)
    BY <2>2, <2>3, <2>4, <2>6 DEF TimeoutPublish
  <2>7. CASE StartTimeout(j) \/ TimeoutSetWinner(j) \/ TimeoutAward(j)
    BY <2>2, <2>4, <2>7 DEF StartTimeout, TimeoutSetWinner, TimeoutAward
  <2>8. CASE TimeoutRead(j) \/ RetryTimeout(j)
    BY <2>2, <2>5, <2>8 DEF TimeoutRead, RetryTimeout
  <2> QED BY <2>6, <2>7, <2>8 DEF Timeout
<1>7. CountsTyped' /\ DocumentTyped' /\ CreatorTyped' /\ FramesTyped' /\ Adding' = Adding
  BY <1>1, <1>2, <1>3, <1>4, <1>5 DEF CountsTyped, DocumentTyped, OrderOK, CreatorTyped,
     FramesTyped, Adding, Job
<1>8. Allocated'
  BY <1>1, <1>3, <1>7 DEF Allocated
<1> QED BY <1>1, <1>6, <1>7, <1>8

\* A restart drops the calls, and jobs that were active wait again.
LEMMA CrashTypes ==
  ASSUME TypeInv, Crash
  PROVE  TypeInv'
<1> USE DEF TypeInv
<1>1. UNCHANGED <<order, statuses, timeoutJobId, winnerId, rewards, raced>>
      /\ creator' = IdleCreator /\ calls' = [s \in Slots |-> IdleFrame]
      /\ stranded' \in BOOLEAN /\ Fault
  BY DEF Crash, document, CountsTyped
<1>2. /\ issued' \in [job: 0..MaxJobs, quit: 0..MaxQuits, fault: 0..MaxFaults]
      /\ issued'.job = issued.job
  BY <1>1, FaultTyped
<1>3. FramesTyped' /\ Adding' = {}
  <2>1. \A s \in Slots : calls'[s] = IdleFrame
    BY <1>1
  <2>2. calls' \in [Slots -> Frame] /\ \A s \in Slots : AllGood(calls'[s].next) /\ ~Adds(calls'[s])
    BY <1>1, <2>1, IdleTyped
  <2> QED BY <2>2 DEF FramesTyped, Adding
<1>4. JobsTyped'
  <2>1. [state |-> "delayed", winner |-> Nobody] \in Job
    BY DEF Job
  <2> QED BY <2>1 DEF Crash, JobsTyped
<1>5. CreatorTyped' /\ creator'.pc = "idle"
  BY <1>1 DEF CreatorTyped, IdleCreator
<1>6. Allocated'
  <2>1. Cardinality(Adding') = 0
    BY <1>3, FS_EmptySet
  <2>2. issued.job \in 0..MaxJobs /\ MaxJobs \in Nat
    BY MatchBoundAssumption DEF CountsTyped
  <2> QED BY <1>2, <1>5, <2>1, <2>2 DEF Allocated
<1> QED
  BY <1>1, <1>2, <1>3, <1>4, <1>5, <1>6 DEF DocumentTyped, OrderOK, CountsTyped

\* The initial state is of the types, and one id is left for createMatch.
LEMMA InitTypes == Init => TypeInv
<1> SUFFICES ASSUME Init PROVE TypeInv
  OBVIOUS
<1>1. AllGood(statuses)
  BY StartGood DEF Init
<1>2. FramesTyped /\ Adding = {}
  <2>1. calls \in [Slots -> Frame] /\ \A s \in Slots : AllGood(calls[s].next) /\ ~Adds(calls[s])
    BY IdleTyped DEF Init
  <2> QED BY <2>1 DEF FramesTyped, Adding
<1>3. JobsTyped /\ DocumentTyped /\ CreatorTyped
  BY DEF Init, JobsTyped, DocumentTyped, OrderOK, CreatorTyped
<1>4. CountsTyped
  <2>1. 0 \in 0..MaxJobs /\ 0 \in 0..MaxQuits /\ 0 \in 0..MaxFaults
    BY MatchBoundAssumption
  <2>2. issued \in [job: 0..MaxJobs, quit: 0..MaxQuits, fault: 0..MaxFaults]
    BY <2>1 DEF Init
  <2>3. rewards \in [Players -> Nat]
    BY DEF Init
  <2> QED BY <2>2, <2>3 DEF Init, CountsTyped
<1>5. Allocated
  <2>1. Cardinality(Adding) = 0
    BY <1>2, FS_EmptySet
  <2> QED BY <2>1, MatchBoundAssumption DEF Init, Allocated
<1> QED BY <1>1, <1>2, <1>3, <1>4, <1>5 DEF TypeInv

\* Types, cards and boards are in order in every state.
LEMMA TypeInvariance == Spec => []TypeInv
<1>1. TypeInv /\ TimerInv /\ [Next]_vars => TypeInv'
  <2> SUFFICES ASSUME TypeInv, TimerInv, [Next]_vars PROVE TypeInv'
    OBVIOUS
  <2>1. CASE Create
    BY <2>1, CreateTypes
  <2>2. CASE \E s \in Slots : Act(s) \/ Serve(s)
    BY <2>2, ActTypes, ServeTypes
  <2>3. CASE \E j \in JobIds : Timeout(j) \/ RetryTimeout(j)
    BY <2>3, TimeoutTypes
  <2>4. CASE Crash
    BY <2>4, CrashTypes
  <2>5. CASE UNCHANGED vars
    BY <2>5 DEF vars, TypeInv, FramesTyped, Adding, JobsTyped, DocumentTyped, OrderOK,
       CreatorTyped, CountsTyped, Allocated
  <2> QED BY <2>1, <2>2, <2>3, <2>4, <2>5 DEF Next
<1> QED BY <1>1, InitTypes, TimerInvariance, PTL DEF Spec

\* The state is of its types.
THEOREM TypeCorrect == Spec => []TypeOK
<1> QED
  BY TypeInvTypes, TypeInvariance, PTL

\* What is on a board is not in the hand any more, and comes from the player's own
\* deck, whatever stale statuses a handler writes back.
THEOREM CardsKept == Spec => []CardsConserved
<1>1. TypeInv => CardsConserved
  BY TypeInvTypes, GoodStatuses
<1> QED
  BY <1>1, TypeInvariance, PTL

\* No card without HP stays on a board.
THEOREM DeadLeave == Spec => []BoardAlive
<1>1. TypeInv => BoardAlive
  BY TypeInvTypes, GoodStatuses
<1> QED
  BY <1>1, TypeInvariance, PTL

\* Two entries at one position are one card, before and after it was equipped.
THEOREM TwinsEquipped == Spec => []TwinsAreEquipped
<1>1. TypeInv => TwinsAreEquipped
  BY TypeInvTypes, GoodStatuses
<1> QED
  BY <1>1, TypeInvariance, PTL

-----------------------------------------------------------------------------
(* One player is in turn, however calls overlap                             *)

\* One player is in turn in `all`, and nobody else is confirmed.
Tidy(all) ==
  /\ \E p \in Players : all[p].inTurn /\ ~all[Opponent(p)].inTurn
  /\ \A p \in Players : all[p].confirmTurn => all[p].inTurn

\* A call that is going to write the statuses.
Writes(f) == f.pc \in Moving \cup {"write"}

\* What a call read may be stale; what it is going to write is tidy all the same.
TidyInv ==
  /\ order # <<>> => Tidy(statuses)
  /\ \A s \in Slots : Writes(calls[s]) => order # <<>> /\ Tidy(calls[s].next)

\* The types give the shape.
LEMMA GoodShaped ==
  ASSUME NEW all, AllGood(all)
  PROVE  Shaped(all)
<1>1. all \in [Players -> Status]
  BY DEF AllGood
<1>2. \A p \in Players : all[p] \in Status
  BY <1>1
<1> QED BY <1>1, <1>2 DEF Shaped, StatusOK, StatusFields, Status

\* An act of the player in turn, and the end of his turn, keep statuses tidy.
LEMMA ActedTidy ==
  ASSUME NEW all, AllGood(all), Tidy(all), NEW p \in Players, NEW next,
         Acted(all, p, next) \/ Ended(all, p, next)
  PROVE  Tidy(next)
<1>1. Shaped(all) /\ Opponent(p) \in Players /\ Opponent(p) # p
      /\ Players = {p, Opponent(p)}
  BY GoodShaped, OpponentFact
<1>2. CASE Acted(all, p, next)
  <2>1. all[p].inTurn /\ \A q \in Players : /\ next[q].inTurn = all[q].inTurn
                                            /\ q # p => next[q].confirmTurn = all[q].confirmTurn
    <3>1. all[p].inTurn
      BY <1>2 DEF Acted, MayAct
    <3> QED BY <1>1, <1>2, <3>1, ActedFact
  <2>2. PICK q \in Players : all[q].inTurn /\ ~all[Opponent(q)].inTurn
    BY DEF Tidy
  <2>3. next[q].inTurn /\ ~next[Opponent(q)].inTurn
    BY <2>1, <2>2, OpponentFact
  <2> QED BY <2>1, <2>3 DEF Tidy
<1>3. CASE Ended(all, p, next)
  <2>1. /\ ~next[p].inTurn /\ ~next[p].confirmTurn
        /\ next[Opponent(p)].inTurn /\ ~next[Opponent(p)].confirmTurn
    BY <1>1, <1>3, EndedFact
  <2>2. Opponent(Opponent(p)) = p
    BY <1>1, OpponentFact
  <2> QED BY <1>1, <2>1, <2>2 DEF Tidy
<1> QED BY <1>2, <1>3

\* A new match is tidy.
LEMMA StartTidy == \A first \in Players : Tidy(NewStatuses(first))
  BY OpponentFact DEF Tidy, NewStatuses

\* One call goes on, and the document stays, or becomes what a call had to write.
LEMMA FrameTidy ==
  ASSUME TidyInv, FramesTyped, NEW s \in Slots, NEW f, calls' = [calls EXCEPT ![s] = f],
         order' = order, statuses' = statuses \/ (Writes(calls[s]) /\ statuses' = calls[s].next),
         Writes(f) => order # <<>> /\ Tidy(f.next)
  PROVE  TidyInv'
<1>1. \A t \in Slots : calls'[t] = IF t = s THEN f ELSE calls[t]
  BY DEF FramesTyped
<1>2. \A t \in Slots : Writes(calls'[t]) => order' # <<>> /\ Tidy(calls'[t].next)
  BY <1>1 DEF TidyInv
<1>3. order' # <<>> => Tidy(statuses')
  BY DEF TidyInv
<1> QED BY <1>2, <1>3 DEF TidyInv, Tidy, Writes

\* A call goes to another await of its handler.
LEMMA GotoTidy ==
  ASSUME TidyInv, FramesTyped, order' = order, statuses' = statuses, NEW s \in Slots, NEW pc, NEW job,
         pc \in Moving => calls[s].pc \in Moving, pc # "write",
         calls' = [calls EXCEPT ![s].pc = pc] \/ calls' = [calls EXCEPT ![s].pc = pc, ![s].job = job]
  PROVE  TidyInv'
<1>1. calls[s] \in Frame
  BY DEF FramesTyped
<1>2. PICK f : calls' = [calls EXCEPT ![s] = f]
               /\ (f = [calls[s] EXCEPT !.pc = pc] \/ f = [calls[s] EXCEPT !.pc = pc, !.job = job])
  BY DEF FramesTyped
<1>3. f.pc = pc /\ f.next = calls[s].next
  BY <1>1, <1>2 DEF Frame
<1>4. Writes(f) => order # <<>> /\ Tidy(f.next)
  BY <1>3 DEF Writes, TidyInv
<1> QED BY <1>2, <1>4, FrameTidy

\* A handler reads statuses that are tidy.
LEMMA ActTidies ==
  ASSUME TypeInv, TidyInv, NEW s \in Slots, Act(s)
  PROVE  TidyInv'
<1>1. AllGood(statuses) /\ FramesTyped
  BY DEF TypeInv
<1>2. CASE PutToBoard(s) \/ DenyCard(s) \/ ConfirmTurn(s)
  <2>1. PICK next : Acted(statuses, s[1], next) /\ Computed(s, next)
    BY <1>2, ComputedAct
  <2>2. order # <<>> /\ UNCHANGED <<order, statuses>>
    BY <1>2, ComputedAct DEF Playing, document
  <2>3. Tidy(next)
    BY <1>1, <2>1, <2>2, ActedTidy DEF TidyInv
  <2>4. PICK f : f = [IdleFrame EXCEPT !.pc = "write", !.next = next]
    OBVIOUS
  <2>5. f.next = next
    BY <2>4 DEF IdleFrame
  <2> QED BY <1>1, <2>1, <2>2, <2>3, <2>4, <2>5, FrameTidy DEF Computed
<1>3. CASE EndTurn(s)
  <2>1. PICK f : f = [pc |-> "removeJob", next |-> PassTurn(statuses, s[1]),
                      job |-> timeoutJobId, winner |-> Winner(order, statuses)]
    OBVIOUS
  <2>2. order # <<>> /\ UNCHANGED <<order, statuses>> /\ Ended(statuses, s[1], f.next)
        /\ calls' = [calls EXCEPT ![s] = f]
    BY <1>3, <2>1 DEF EndTurn, Playing, document, Ended
  <2>3. Tidy(f.next)
    BY <1>1, <2>2, ActedTidy DEF TidyInv
  <2> QED BY <1>1, <2>2, <2>3, FrameTidy
<1>4. CASE Surrender(s)
  <2>1. PICK f : f = [IdleFrame EXCEPT !.pc = "setWinner", !.winner = Opponent(s[1])]
    OBVIOUS
  <2>2. ~Writes(f)
    BY <2>1 DEF IdleFrame, Writes, Moving
  <2> QED BY <1>1, <1>4, <2>1, <2>2, FrameTidy DEF Surrender, document
<1> QED BY <1>2, <1>3, <1>4 DEF Act

\* What a handler writes, it computed from tidy statuses, whatever is there by now.
LEMMA ServeTidies ==
  ASSUME TypeInv, TidyInv, NEW s \in Slots, Serve(s)
  PROVE  TidyInv'
<1>1. FramesTyped /\ ~Writes(IdleFrame)
  BY DEF TypeInv, Writes, IdleFrame, Moving
<1>2. CASE Return(s) /\ order' = order
           /\ (statuses' = statuses \/ (Writes(calls[s]) /\ statuses' = calls[s].next))
  BY <1>1, <1>2, FrameTidy DEF Return
<1>3. CASE WriteStatuses(s)
  BY <1>2, <1>3 DEF WriteStatuses, Writes
<1>4. CASE WriteTurn(s)
  BY <1>2, <1>4 DEF WriteTurn, Writes, Moving
<1>5. CASE RemoveJob(s)
  <2>1. CASE Return(s)
    BY <1>2, <1>5, <2>1 DEF RemoveJob, document
  <2>2. CASE Goto(s, IF calls[s].winner # Nobody THEN "setWinner" ELSE "addJob")
    BY <1>1, <1>5, <2>2, GotoTidy DEF RemoveJob, document, Goto, Moving
  <2> QED BY <1>5, <2>1, <2>2 DEF RemoveJob
<1>6. CASE AddJob(s)
  <2>1. CASE Return(s)
    BY <1>2, <1>6, <2>1 DEF AddJob, document
  <2>2. CASE calls' = [calls EXCEPT ![s].pc = "writeTurn", ![s].job = issued'.job]
    <3>1. PICK job : job = issued'.job
      OBVIOUS
    <3> QED BY <1>1, <1>6, <2>2, <3>1, GotoTidy DEF AddJob, document, Moving
  <2> QED BY <1>6, <2>1, <2>2 DEF AddJob
<1>7. CASE SetWinner(s)
  <2>1. CASE Return(s)
    BY <1>2, <1>7, <2>1 DEF SetWinner
  <2>2. CASE Goto(s, "award")
    <3>1. UNCHANGED <<order, statuses>> /\ "award" \notin Moving
      BY <1>7 DEF SetWinner, Moving
    <3>2. calls' = [calls EXCEPT ![s].pc = "award"]
      BY <2>2 DEF Goto
    <3> QED BY <1>1, <3>1, <3>2, GotoTidy
  <2> QED BY <1>7, <2>1, <2>2 DEF SetWinner
<1>8. CASE Award(s)
  BY <1>2, <1>8 DEF Award, document
<1> QED BY <1>3, <1>4, <1>5, <1>6, <1>7, <1>8 DEF Serve

\* Exactly one player is in turn, and only he can be confirmed, for every deck,
\* although a call of another tab may put back a turn that has passed.
THEOREM TurnKept == Spec => []OneInTurn
<1>1. TypeInv /\ TidyInv /\ [Next]_vars => TidyInv'
  <2> SUFFICES ASSUME TypeInv, TidyInv, [Next]_vars PROVE TidyInv'
    OBVIOUS
  <2>1. CASE Create
    <3>1. CASE SaveMatch
      <4>1. PICK first \in Players : order' = <<first, Opponent(first)>>
                                     /\ statuses' = NewStatuses(first)
        BY <3>1 DEF SaveMatch
      <4>2. order' # <<>> /\ Tidy(statuses') /\ calls' = calls
        BY <3>1, <4>1, StartTidy DEF SaveMatch
      <4> QED BY <4>2 DEF TidyInv, Tidy, Writes
    <3>2. CASE UNCHANGED <<order, statuses, calls>>
      BY <3>2 DEF TidyInv, Tidy, Writes
    <3> QED BY <2>1, <3>1, <3>2 DEF Create, CreatorAddJob, CreatorSetJob, document
  <2>2. CASE \E s \in Slots : Act(s) \/ Serve(s)
    BY <2>2, ActTidies, ServeTidies
  <2>3. CASE \E j \in JobIds : Timeout(j) \/ RetryTimeout(j)
    <3>1. UNCHANGED <<order, statuses, calls>>
      BY <2>3 DEF Timeout, StartTimeout, TimeoutRead, TimeoutSetWinner, TimeoutAward,
         TimeoutPublish, RetryTimeout, document
    <3> QED BY <3>1 DEF TidyInv, Tidy, Writes
  <2>4. CASE Crash
    <3>1. UNCHANGED <<order, statuses>> /\ \A s \in Slots : calls'[s] = IdleFrame
      BY <2>4 DEF Crash, document
    <3>2. ~Writes(IdleFrame)
      BY DEF Writes, IdleFrame, Moving
    <3> QED BY <3>1, <3>2 DEF TidyInv, Tidy, Writes
  <2>5. CASE UNCHANGED vars
    BY <2>5 DEF vars, document, TidyInv, Tidy, Writes
  <2> QED BY <2>1, <2>2, <2>3, <2>4, <2>5 DEF Next
<1>2. Init => TidyInv
  BY DEF Init, TidyInv, Writes, IdleFrame, Moving
<1>3. TidyInv => OneInTurn
  BY DEF TidyInv, Tidy, OneInTurn
<1> QED BY <1>1, <1>2, <1>3, TypeInvariance, PTL DEF Spec

(***************************************************************************)
(* A match is decided once: WinnerStays, and by the right timeout.         *)
(***************************************************************************)
\* Who can still decide the match: the calls that end it or queue its timeout, the
\* timeouts that have not, and createMatch.
CallDeciders == {<<"call", s>> : s \in {c \in Slots : calls[c].pc \in {"addJob", "setWinner"}}}
JobDeciders ==
  {<<"job", j>> : j \in {k \in DOMAIN jobs : jobs[k].state \notin {"award", "publish"}}}
CreatorDeciders == {<<"create", c>> : c \in {creator.pc} \cap {"save", "addJob"}}
Deciders == CallDeciders \cup JobDeciders \cup CreatorDeciders

\* No failure, no surrender, and no timeout that endTurn missed.
Cautious == Clean /\ issued.quit = 0 /\ ~raced

\* A match that is not decided has one decider, and a decided one has none.
OneDecider ==
  Cautious => (winnerId # Nobody => Deciders = {}) /\ \A x, y \in Deciders : x = y

\* One decider hands over to another.
LEMMA HandOver ==
  ASSUME OneDecider, Cautious, winnerId' = winnerId,
         NEW x \in Deciders, NEW y, Deciders' \subseteq (Deciders \ {x}) \cup {y}
  PROVE  OneDecider'
  BY DEF OneDecider

\* Nobody joins the deciders.
LEMMA NobodyJoins ==
  ASSUME OneDecider, Cautious, winnerId' = winnerId, Deciders' \subseteq Deciders
  PROVE  OneDecider'
  BY DEF OneDecider

\* The decider decides.
LEMMA DeciderGone ==
  ASSUME OneDecider, Cautious, NEW x \in Deciders, Deciders' \subseteq Deciders \ {x}
  PROVE  OneDecider'
<1>1. Deciders' = {}
  BY DEF OneDecider
<1> QED BY <1>1 DEF OneDecider

\* Only the deciders among the calls change with a call.
LEMMA CallDecidersStep ==
  ASSUME FramesTyped, NEW s \in Slots, NEW f, calls' = [calls EXCEPT ![s] = f]
  PROVE  /\ f.pc \notin {"addJob", "setWinner"} => CallDeciders' \subseteq CallDeciders \ {<<"call", s>>}
         /\ CallDeciders' \subseteq CallDeciders \cup {<<"call", s>>}
<1>1. calls'[s] = f /\ \A t \in Slots \ {s} : calls'[t] = calls[t]
  BY DEF FramesTyped
<1> QED BY <1>1 DEF CallDeciders

\* A call returns.
LEMMA ReturnDeciders ==
  ASSUME FramesTyped, NEW s \in Slots, Return(s)
  PROVE  CallDeciders' \subseteq CallDeciders \ {<<"call", s>>}
<1>1. PICK f : f = IdleFrame
  OBVIOUS
<1>2. f.pc = "idle" /\ calls' = [calls EXCEPT ![s] = f]
  BY <1>1 DEF Return, IdleFrame
<1> QED BY <1>2, CallDecidersStep

\* A call moves on.
LEMMA GotoDeciders ==
  ASSUME FramesTyped, NEW s \in Slots, NEW pc, Goto(s, pc)
  PROVE  /\ pc \notin {"addJob", "setWinner"} => CallDeciders' \subseteq CallDeciders \ {<<"call", s>>}
         /\ CallDeciders' \subseteq CallDeciders \cup {<<"call", s>>}
<1>1. PICK f : f = [calls[s] EXCEPT !.pc = pc]
  OBVIOUS
<1>2. f.pc = pc /\ calls' = [calls EXCEPT ![s] = f]
  BY <1>1 DEF Goto, FramesTyped, Frame
<1> QED BY <1>2, CallDecidersStep

\* The history of a cautious state is cautious.
LEMMA StaysCautious ==
  ASSUME CountsTyped, [Next]_vars, Cautious'
  PROVE  Cautious /\ ~Fault /\ issued'.quit = 0 /\ ~raced'
<1>1. issued.fault \in Nat /\ issued.quit \in Nat
      /\ issued = [job |-> issued.job, quit |-> issued.quit, fault |-> issued.fault]
  BY DEF CountsTyped
<1>2. ~Fault
  <2> SUFFICES ASSUME Fault PROVE FALSE
    OBVIOUS
  <2>1. issued'.fault = issued.fault + 1
    BY <1>1 DEF Fault
  <2> QED BY <1>1, <2>1 DEF Cautious, Clean
<1>3. \/ issued' = issued
      \/ issued' = [issued EXCEPT !.quit = @ + 1]
      \/ issued' = [issued EXCEPT !.job = @ + 1]
  <2>1. CASE Create
    BY <2>1, <1>2 DEF Create, SaveMatch, CreatorAddJob, CreatorSetJob, FaultInTheGap, QueueTimeout
  <2>2. ASSUME NEW s \in Slots, Act(s)
        PROVE  issued' = issued \/ issued' = [issued EXCEPT !.quit = @ + 1]
    BY <2>2 DEF Act, PutToBoard, DenyCard, ConfirmTurn, EndTurn, Surrender
  <2>3. ASSUME NEW s \in Slots, Serve(s)
        PROVE  issued' = issued \/ issued' = [issued EXCEPT !.job = @ + 1]
    BY <2>3, <1>2 DEF Serve, WriteStatuses, RemoveJob, AddJob, WriteTurn, SetWinner, Award,
       FaultInTheGap, QueueTimeout
  <2>4. ASSUME NEW j \in JobIds, Timeout(j) \/ RetryTimeout(j)
        PROVE  issued' = issued
    BY <2>4, <1>2 DEF Timeout, RetryTimeout, StartTimeout, TimeoutRead, TimeoutSetWinner,
       TimeoutAward, TimeoutPublish, FaultInTheGap
  <2>5. CASE Crash
    BY <2>5, <1>2 DEF Crash
  <2>6. CASE UNCHANGED vars
    BY <2>6 DEF vars
  <2> QED BY <2>1, <2>2, <2>3, <2>4, <2>5, <2>6 DEF Next
<1>4. issued'.fault = issued.fault /\ issued'.quit >= issued.quit
  <2>1. CASE issued' = issued
    BY <1>1, <2>1
  <2>2. CASE issued' = [issued EXCEPT !.quit = @ + 1]
    BY <1>1, <2>2
  <2>3. CASE issued' = [issued EXCEPT !.job = @ + 1]
    BY <1>1, <2>3
  <2> QED BY <1>3, <2>1, <2>2, <2>3
<1>5. raced => raced'
  <2>1. CASE Create
    BY <2>1 DEF Create, SaveMatch, CreatorAddJob, CreatorSetJob, history
  <2>2. ASSUME NEW s \in Slots, Act(s) PROVE raced' = raced
    BY <2>2 DEF Act, PutToBoard, DenyCard, ConfirmTurn, EndTurn, Surrender, history
  <2>3. ASSUME NEW s \in Slots, Serve(s) PROVE raced => raced'
    BY <2>3 DEF Serve, WriteStatuses, RemoveJob, AddJob, WriteTurn, SetWinner, Award, history
  <2>4. ASSUME NEW j \in JobIds, Timeout(j) \/ RetryTimeout(j) PROVE raced' = raced
    BY <2>4 DEF Timeout, RetryTimeout, StartTimeout, TimeoutRead, TimeoutSetWinner,
       TimeoutAward, TimeoutPublish, history
  <2>5. CASE Crash
    BY <2>5 DEF Crash
  <2>6. CASE UNCHANGED vars
    BY <2>6 DEF vars
  <2> QED BY <2>1, <2>2, <2>3, <2>4, <2>5, <2>6 DEF Next
<1> QED BY <1>1, <1>2, <1>4, <1>5 DEF Cautious, Clean

\* Only the deciders among the jobs change with a job.
LEMMA JobDecidersStep ==
  ASSUME NEW j \in DOMAIN jobs, NEW job, jobs' = [jobs EXCEPT ![j] = job]
  PROVE  /\ job.state \in {"award", "publish"} => JobDeciders' \subseteq JobDeciders \ {<<"job", j>>}
         /\ jobs[j].state \notin {"award", "publish"} => JobDeciders' \subseteq JobDeciders
<1>1. /\ DOMAIN jobs' = DOMAIN jobs /\ jobs'[j] = job
      /\ \A k \in DOMAIN jobs \ {j} : jobs'[k] = jobs[k]
  BY DEF JobDeciders
<1> QED BY <1>1 DEF JobDeciders

\* A job is gone.
LEMMA GoneDeciders ==
  ASSUME NEW j, jobs' = Without(jobs, j)
  PROVE  JobDeciders' \subseteq JobDeciders \ {<<"job", j>>}
  BY DEF JobDeciders, Without, Restrict

\* A timeout is queued.
LEMMA QueueDeciders ==
  ASSUME QueueTimeout
  PROVE  JobDeciders' \subseteq JobDeciders \cup {<<"job", issued'.job>>}
<1>1. PICK n : n = issued'.job
  OBVIOUS
<1>2. PICK job : job = [state |-> "delayed", winner |-> Nobody]
  OBVIOUS
<1>3. jobs' = With(jobs, n, job)
  BY <1>1, <1>2 DEF QueueTimeout
<1>4. /\ DOMAIN jobs' = DOMAIN jobs \cup {n}
      /\ \A k \in DOMAIN jobs \ {n} : jobs'[k] = jobs[k]
  BY <1>3 DEF With
<1> QED BY <1>1, <1>4 DEF JobDeciders

\* createMatch hands the decision to the timeout it queues.
LEMMA CreateDecides ==
  ASSUME TypeInv, OneDecider, Cautious, ~Fault, Create
  PROVE  OneDecider'
<1>1. calls' = calls /\ winnerId' = winnerId
  BY DEF Create, SaveMatch, CreatorAddJob, CreatorSetJob, document
<1>2. CallDeciders' = CallDeciders
  BY <1>1 DEF CallDeciders
<1>3. CASE SaveMatch
  <2>1. creator.pc = "save" /\ creator'.pc = "addJob" /\ jobs' = jobs
    BY <1>3 DEF SaveMatch, TypeInv, CreatorTyped
  <2>2. <<"create", "save">> \in Deciders
        /\ Deciders' \subseteq (Deciders \ {<<"create", "save">>}) \cup {<<"create", "addJob">>}
    BY <1>2, <2>1 DEF Deciders, CreatorDeciders, JobDeciders, CallDeciders
  <2> QED BY <1>1, <2>2, HandOver
<1>4. CASE CreatorAddJob
  <2>1. QueueTimeout /\ creator.pc = "addJob" /\ creator'.pc = "setJob"
    BY <1>4 DEF CreatorAddJob, FaultInTheGap
  <2>2. PICK y : y = <<"job", issued'.job>>
    OBVIOUS
  <2>3. JobDeciders' \subseteq JobDeciders \cup {y}
    BY <2>1, <2>2, QueueDeciders
  <2>4. <<"create", "addJob">> \in Deciders
        /\ Deciders' \subseteq (Deciders \ {<<"create", "addJob">>}) \cup {y}
    BY <1>2, <2>1, <2>3 DEF Deciders, CreatorDeciders, JobDeciders, CallDeciders
  <2> QED BY <1>1, <2>4, HandOver
<1>5. CASE CreatorSetJob
  <2>1. creator'.pc = "idle" /\ jobs' = jobs
    BY <1>5 DEF CreatorSetJob, IdleCreator
  <2>2. Deciders' \subseteq Deciders
    BY <1>2, <2>1 DEF Deciders, CreatorDeciders, JobDeciders
  <2> QED BY <1>1, <2>2, NobodyJoins
<1> QED BY <1>3, <1>4, <1>5 DEF Create

\* A handler that has read the match decides nothing yet.
LEMMA ActDecides ==
  ASSUME TypeInv, OneDecider, Cautious, issued'.quit = 0, NEW s \in Slots, Act(s)
  PROVE  OneDecider'
<1>1. ~Surrender(s)
  <2> SUFFICES ASSUME Surrender(s) PROVE FALSE
    OBVIOUS
  <2>1. issued'.quit = issued.quit + 1 /\ issued.quit \in Nat
    BY DEF Surrender, TypeInv, CountsTyped
  <2> QED BY <2>1
<1>2. UNCHANGED <<winnerId, jobs, creator>>
  BY DEF Act, PutToBoard, DenyCard, ConfirmTurn, EndTurn, Surrender, document
<1>3. CASE PutToBoard(s) \/ DenyCard(s) \/ ConfirmTurn(s)
  <2>1. PICK next : Computed(s, next)
    BY <1>3 DEF PutToBoard, DenyCard, ConfirmTurn
  <2>2. PICK f : f = [IdleFrame EXCEPT !.pc = "write", !.next = next]
    OBVIOUS
  <2>3. f.pc = "write" /\ calls' = [calls EXCEPT ![s] = f]
    BY <2>1, <2>2 DEF Computed, IdleFrame
  <2>4. CallDeciders' \subseteq CallDeciders
    BY <2>3, CallDecidersStep DEF TypeInv
  <2>5. Deciders' \subseteq Deciders
    BY <1>2, <2>4 DEF Deciders, JobDeciders, CreatorDeciders
  <2> QED BY <1>2, <2>5, NobodyJoins
<1>4. CASE EndTurn(s)
  <2>1. PICK f : f = [pc |-> "removeJob", next |-> PassTurn(statuses, s[1]),
                      job |-> timeoutJobId, winner |-> Winner(order, statuses)]
    OBVIOUS
  <2>2. f.pc = "removeJob" /\ calls' = [calls EXCEPT ![s] = f]
    BY <1>4, <2>1 DEF EndTurn
  <2>3. CallDeciders' \subseteq CallDeciders
    BY <2>2, CallDecidersStep DEF TypeInv
  <2>4. Deciders' \subseteq Deciders
    BY <1>2, <2>3 DEF Deciders, JobDeciders, CreatorDeciders
  <2> QED BY <1>2, <2>4, NobodyJoins
<1> QED BY <1>1, <1>3, <1>4 DEF Act

\* endTurn takes the decision from the timeout it removes, and hands it to the
\* one it queues or ends the match.
LEMMA ServeDecides ==
  ASSUME TypeInv, OneDecider, Cautious, ~Fault, ~raced', NEW s \in Slots, Serve(s)
  PROVE  OneDecider'
<1>0. FramesTyped /\ creator' = creator /\ CreatorDeciders' = CreatorDeciders
  BY DEF TypeInv, Serve, WriteStatuses, RemoveJob, AddJob, WriteTurn, SetWinner, Award,
     CreatorDeciders
<1>1. CASE WriteStatuses(s) \/ WriteTurn(s) \/ Award(s)
  <2>1. Return(s) /\ UNCHANGED <<winnerId, jobs>>
    BY <1>1 DEF WriteStatuses, WriteTurn, Award, document
  <2>2. CallDeciders' \subseteq CallDeciders
    BY <1>0, <2>1, ReturnDeciders
  <2>3. Deciders' \subseteq Deciders
    BY <1>0, <2>1, <2>2 DEF Deciders, JobDeciders
  <2> QED BY <2>1, <2>3, NobodyJoins
<1>2. CASE RemoveJob(s)
  <2>1. winnerId' = winnerId
    BY <1>2 DEF RemoveJob, document
  <2>2. CASE Return(s) /\ jobs' = jobs
    <3>1. CallDeciders' \subseteq CallDeciders
      BY <1>0, <2>2, ReturnDeciders
    <3>2. Deciders' \subseteq Deciders
      BY <1>0, <2>2, <3>1 DEF Deciders, JobDeciders
    <3> QED BY <2>1, <3>2, NobodyJoins
  <2>3. CASE /\ ~Locked(calls[s].job)
             /\ jobs' = Without(jobs, calls[s].job)
             /\ Goto(s, IF calls[s].winner # Nobody THEN "setWinner" ELSE "addJob")
    <3>1. PICK j : j = calls[s].job
      OBVIOUS
    <3>2. j \in DOMAIN jobs /\ ~Locked(j)
      BY <1>2, <2>3, <3>1 DEF RemoveJob
    <3>3. <<"job", j>> \in JobDeciders
      BY <3>2 DEF Locked, JobDeciders
    <3>4. JobDeciders' \subseteq JobDeciders \ {<<"job", j>>}
      BY <2>3, <3>1, GoneDeciders
    <3>5. CallDeciders' \subseteq CallDeciders \cup {<<"call", s>>}
      BY <1>0, <2>3, GotoDeciders
    <3>6. <<"job", j>> \in Deciders
          /\ Deciders' \subseteq (Deciders \ {<<"job", j>>}) \cup {<<"call", s>>}
      BY <1>0, <3>3, <3>4, <3>5 DEF Deciders, CallDeciders, CreatorDeciders
    <3> QED BY <2>1, <3>6, HandOver
  <2> QED BY <1>2, <2>2, <2>3 DEF RemoveJob
<1>3. CASE AddJob(s)
  <2>1. /\ QueueTimeout /\ winnerId' = winnerId /\ calls[s].pc = "addJob"
        /\ calls' = [calls EXCEPT ![s].pc = "writeTurn", ![s].job = issued'.job]
    BY <1>3 DEF AddJob, FaultInTheGap, document
  <2>2. PICK n, y : n = issued'.job /\ y = <<"job", n>>
    OBVIOUS
  <2>3. PICK f : f = [calls[s] EXCEPT !.pc = "writeTurn", !.job = n]
    OBVIOUS
  <2>4. f.pc = "writeTurn" /\ calls' = [calls EXCEPT ![s] = f]
    BY <1>0, <2>1, <2>2, <2>3 DEF FramesTyped, Frame
  <2>5. CallDeciders' \subseteq CallDeciders \ {<<"call", s>>}
    BY <1>0, <2>4, CallDecidersStep
  <2>6. JobDeciders' \subseteq JobDeciders \cup {y}
    BY <2>1, <2>2, QueueDeciders
  <2>7. PICK x : x = <<"call", s>>
    OBVIOUS
  <2>8. x \notin JobDeciders /\ x \notin CreatorDeciders
    BY <2>7 DEF JobDeciders, CreatorDeciders
  <2>9. x \in Deciders
    BY <2>1, <2>7 DEF Deciders, CallDeciders
  <2>10. Deciders' \subseteq (Deciders \ {x}) \cup {y}
    BY <1>0, <2>5, <2>6, <2>7, <2>8 DEF Deciders
  <2> QED BY <2>1, <2>9, <2>10, HandOver
<1>4. CASE SetWinner(s)
  <2>1. Goto(s, "award") /\ jobs' = jobs /\ calls[s].pc = "setWinner"
    BY <1>4 DEF SetWinner, FaultInTheGap
  <2>2. CallDeciders' \subseteq CallDeciders \ {<<"call", s>>}
    BY <1>0, <2>1, GotoDeciders
  <2>3. <<"call", s>> \in Deciders /\ Deciders' \subseteq Deciders \ {<<"call", s>>}
    BY <1>0, <2>1, <2>2 DEF Deciders, CallDeciders, JobDeciders, CreatorDeciders
  <2> QED BY <2>3, DeciderGone
<1> QED BY <1>1, <1>2, <1>3, <1>4 DEF Serve

\* The timeout decides, and is done.
LEMMA TimeoutDecides ==
  ASSUME TypeInv, OneDecider, Cautious, ~Fault, NEW j \in JobIds, Timeout(j) \/ RetryTimeout(j)
  PROVE  OneDecider'
<1>0. j \in DOMAIN jobs /\ jobs[j] \in Job /\ CallDeciders' = CallDeciders
      /\ CreatorDeciders' = CreatorDeciders
  BY DEF TypeInv, JobsTyped, Timeout, RetryTimeout, StartTimeout, TimeoutRead,
     TimeoutSetWinner, TimeoutAward, TimeoutPublish, Waiting, CallDeciders, CreatorDeciders
<1>1. ASSUME NEW job, jobs' = [jobs EXCEPT ![j] = job], winnerId' = winnerId,
             job.state \in {"award", "publish"} \/ jobs[j].state \notin {"award", "publish"}
      PROVE  OneDecider'
  <2>1. JobDeciders' \subseteq JobDeciders
    BY <1>0, <1>1, JobDecidersStep
  <2>2. Deciders' \subseteq Deciders
    BY <1>0, <2>1 DEF Deciders
  <2> QED BY <1>1, <2>2, NobodyJoins
<1>2. CASE StartTimeout(j) \/ TimeoutRead(j) \/ RetryTimeout(j)
  <2>1. jobs[j].state \notin {"award", "publish"} /\ winnerId' = winnerId
    BY <1>2 DEF StartTimeout, TimeoutRead, RetryTimeout, Waiting, document
  <2>2. \E job : jobs' = [jobs EXCEPT ![j] = job]
    BY <1>2 DEF StartTimeout, TimeoutRead, RetryTimeout
  <2> QED BY <1>1, <2>1, <2>2
<1>3. CASE TimeoutAward(j)
  <2>1. winnerId' = winnerId /\ jobs' = [jobs EXCEPT ![j].state = "publish"]
    BY <1>3 DEF TimeoutAward, document
  <2>2. PICK job : job = [jobs[j] EXCEPT !.state = "publish"]
    OBVIOUS
  <2>3. jobs' = [jobs EXCEPT ![j] = job] /\ job.state = "publish"
    BY <1>0, <2>1, <2>2 DEF Job
  <2> QED BY <1>1, <2>1, <2>3
<1>4. CASE TimeoutSetWinner(j)
  <2>1. jobs' = [jobs EXCEPT ![j].state = "award"] /\ jobs[j].state = "setWinner"
    BY <1>4 DEF TimeoutSetWinner, FaultInTheGap
  <2>2. PICK job : job = [jobs[j] EXCEPT !.state = "award"]
    OBVIOUS
  <2>3. jobs' = [jobs EXCEPT ![j] = job] /\ job.state = "award"
    BY <1>0, <2>1, <2>2 DEF Job
  <2>4. JobDeciders' \subseteq JobDeciders \ {<<"job", j>>}
    BY <1>0, <2>3, JobDecidersStep
  <2>5. <<"job", j>> \in Deciders /\ Deciders' \subseteq Deciders \ {<<"job", j>>}
    BY <1>0, <2>1, <2>4 DEF Deciders, JobDeciders, CallDeciders, CreatorDeciders
  <2> QED BY <2>5, DeciderGone
<1>5. CASE TimeoutPublish(j)
  <2>1. jobs' = Without(jobs, j) /\ winnerId' = winnerId
    BY <1>5 DEF TimeoutPublish, document
  <2>2. JobDeciders' \subseteq JobDeciders
    BY <2>1, GoneDeciders
  <2>3. Deciders' \subseteq Deciders
    BY <1>0, <2>2 DEF Deciders
  <2> QED BY <2>1, <2>3, NobodyJoins
<1> QED BY <1>2, <1>3, <1>4, <1>5 DEF Timeout

\* Every step leaves one decider, or a decided match.
LEMMA DeciderStep ==
  ASSUME TypeInv, OneDecider, [Next]_vars
  PROVE  OneDecider'
<1> SUFFICES ASSUME Cautious' PROVE OneDecider'
  BY DEF OneDecider
<1>1. Cautious /\ ~Fault /\ issued'.quit = 0 /\ ~raced'
  BY StaysCautious DEF TypeInv
<1>2. CASE Create
  BY <1>1, <1>2, CreateDecides
<1>3. ASSUME NEW s \in Slots, Act(s) \/ Serve(s) PROVE OneDecider'
  BY <1>1, <1>3, ActDecides, ServeDecides
<1>4. ASSUME NEW j \in JobIds, Timeout(j) \/ RetryTimeout(j) PROVE OneDecider'
  BY <1>1, <1>4, TimeoutDecides
<1>5. CASE Crash
  BY <1>1, <1>5 DEF Crash
<1>6. CASE UNCHANGED vars
  BY <1>6 DEF vars, OneDecider, Cautious, Clean, Deciders, CallDeciders, JobDeciders,
     CreatorDeciders
<1> QED BY <1>2, <1>3, <1>4, <1>5, <1>6 DEF Next

\* In every state at most one party can still decide the match.
LEMMA OneDeciderInvariance == Spec => []OneDecider
<1>1. Init => OneDecider
  <2> SUFFICES ASSUME Init PROVE OneDecider
    OBVIOUS
  <2>1. CallDeciders = {}
    <3>1. \A s \in Slots : calls[s].pc = "idle"
      BY DEF Init, IdleFrame
    <3> QED BY <3>1 DEF CallDeciders
  <2>2. JobDeciders = {}
    <3>1. DOMAIN jobs = {}
      BY DEF Init
    <3> QED BY <3>1 DEF JobDeciders
  <2>3. CreatorDeciders = {<<"create", "save">>}
    BY DEF Init, CreatorDeciders
  <2> QED BY <2>1, <2>2, <2>3 DEF Init, OneDecider, Deciders
<1>2. TypeInv /\ OneDecider /\ [Next]_vars => OneDecider'
  BY DeciderStep
<1> QED BY <1>1, <1>2, TypeInvariance, PTL DEF Spec

\* The decision of a match is final, unless somebody surrenders, an operation
\* fails, or endTurn met a timeout that had run: WinnerStays.
THEOREM DecisionFinal == Spec => WinnerStays
<1> DEFINE Act0 == Clean /\ issued.quit = 0 /\ ~raced /\ winnerId' # winnerId => winnerId = Nobody
<1>1. OneDecider /\ [Next]_vars => Act0
  <2> SUFFICES ASSUME OneDecider, [Next]_vars, Cautious, winnerId' # winnerId
               PROVE  winnerId = Nobody
    BY DEF Cautious
  <2>1. \/ \E s \in Slots : SetWinner(s)
        \/ \E j \in JobIds : TimeoutSetWinner(j)
    BY DEF Next, Create, SaveMatch, CreatorAddJob, CreatorSetJob, Act, PutToBoard, DenyCard,
       ConfirmTurn, EndTurn, Surrender, Serve, WriteStatuses, RemoveJob, AddJob, WriteTurn,
       Award, Timeout, RetryTimeout, StartTimeout, TimeoutRead, TimeoutAward,
       TimeoutPublish, Crash, document, vars
  <2>2. Deciders # {}
    <3>1. ASSUME NEW s \in Slots, SetWinner(s) PROVE <<"call", s>> \in Deciders
      BY <3>1 DEF SetWinner, Deciders, CallDeciders
    <3>2. ASSUME NEW j \in JobIds, TimeoutSetWinner(j) PROVE <<"job", j>> \in Deciders
      BY <3>2 DEF TimeoutSetWinner, Deciders, JobDeciders
    <3> QED BY <2>1, <3>1, <3>2
  <2> QED BY <2>2 DEF OneDecider
<1>2. OneDecider /\ [Next]_vars => [Act0]_vars
  BY <1>1
<1> QED BY <1>2, OneDeciderInvariance, PTL DEF Spec, WinnerStays

-----------------------------------------------------------------------------
(* The timeout and the turn                                                 *)

\* Whose turn it is stays, and no timeout begins to decide.
LEMMA HitsKept ==
  ASSUME TypeInv, Inv, TimeoutHitsIdler, Cautious,
         \A p \in Players : statuses'[p].inTurn = statuses[p].inTurn,
         \A k \in DOMAIN jobs' : jobs'[k].state = "setWinner" =>
           k \in DOMAIN jobs /\ jobs'[k] = jobs[k]
  PROVE  TimeoutHitsIdler'
<1>1. ASSUME NEW k \in DOMAIN jobs, jobs[k].state = "setWinner"
      PROVE  jobs[k].winner \in Players
  BY <1>1 DEF TypeInv, JobsTyped, Job, Inv, JobsOK
<1> QED BY <1>1 DEF TimeoutHitsIdler, Cautious

\* createMatch.
LEMMA CreateHits ==
  ASSUME TypeInv, Inv, TimeoutHitsIdler, Cautious, ~Fault, Create
  PROVE  TimeoutHitsIdler'
<1>1. CASE SaveMatch
  <2>1. DOMAIN jobs = {} /\ jobs' = jobs
    BY <1>1 DEF SaveMatch, Inv, CreatorOK, JobsOK
  <2> QED BY <2>1 DEF TimeoutHitsIdler
<1>2. CASE CreatorAddJob
  <2>1. QueueTimeout /\ statuses' = statuses
    BY <1>2 DEF CreatorAddJob, FaultInTheGap, document
  <2>2. \A k \in DOMAIN jobs' : jobs'[k].state = "setWinner" =>
           k \in DOMAIN jobs /\ jobs'[k] = jobs[k]
    BY <2>1 DEF QueueTimeout, With
  <2> QED BY <2>1, <2>2, HitsKept
<1>3. CASE CreatorSetJob
  <2>1. UNCHANGED <<jobs, statuses>>
    BY <1>3 DEF CreatorSetJob
  <2> QED BY <2>1, HitsKept
<1> QED BY <1>1, <1>2, <1>3 DEF Create

\* A handler that has read the match writes nothing yet.
LEMMA ActHits ==
  ASSUME TypeInv, Inv, TimeoutHitsIdler, Cautious, NEW s \in Slots, Act(s)
  PROVE  TimeoutHitsIdler'
<1>1. UNCHANGED <<jobs, statuses>>
  BY DEF Act, PutToBoard, DenyCard, ConfirmTurn, EndTurn, Surrender, document
<1> QED BY <1>1, HitsKept

\* The turn passes only while the timeout waits.
LEMMA ServeHits ==
  ASSUME TypeInv, Inv, OneDecider, TimeoutHitsIdler, Cautious, ~Fault, ~raced',
         NEW s \in Slots, Serve(s)
  PROVE  TimeoutHitsIdler'
<1>1. CASE WriteStatuses(s)
  <2>1. statuses' = calls[s].next /\ Acted(statuses, s[1], calls[s].next) /\ jobs' = jobs
    BY <1>1 DEF WriteStatuses, Inv, FramesOK, FrameOK
  <2>2. PICK next : next = calls[s].next
    OBVIOUS
  <2>3. \A p \in Players : next[p].inTurn = statuses[p].inTurn
    BY <2>1, <2>2, ActedFact DEF Inv
  <2> QED BY <2>1, <2>2, <2>3, HitsKept
<1>2. CASE RemoveJob(s)
  <2>1. statuses' = statuses /\ (jobs' = jobs \/ jobs' = Without(jobs, calls[s].job))
    BY <1>2 DEF RemoveJob, document
  <2>2. \A k \in DOMAIN jobs' : k \in DOMAIN jobs /\ jobs'[k] = jobs[k]
    BY <2>1 DEF Without, Restrict
  <2> QED BY <2>1, <2>2, HitsKept
<1>3. CASE AddJob(s)
  <2>1. QueueTimeout /\ statuses' = statuses
    BY <1>3 DEF AddJob, FaultInTheGap, document
  <2>2. \A k \in DOMAIN jobs' : jobs'[k].state = "setWinner" =>
           k \in DOMAIN jobs /\ jobs'[k] = jobs[k]
    BY <2>1 DEF QueueTimeout, With
  <2> QED BY <2>1, <2>2, HitsKept
<1>4. CASE WriteTurn(s)
  <2>1. Waiting(calls[s].job) /\ jobs' = jobs
    BY <1>4 DEF WriteTurn
  <2>2. PICK j : j = calls[s].job
    OBVIOUS
  <2>3. <<"job", j>> \in JobDeciders /\ j \in DOMAIN jobs /\ jobs[j].state = "delayed"
    BY <2>1, <2>2 DEF Waiting, JobDeciders
  <2>4. ASSUME NEW k \in DOMAIN jobs, jobs[k].state = "setWinner" PROVE FALSE
    <3>1. <<"job", k>> \in JobDeciders
      BY <2>4 DEF JobDeciders
    <3>2. <<"job", k>> = <<"job", j>>
      BY <2>3, <3>1 DEF OneDecider, Deciders
    <3> QED BY <2>3, <2>4, <3>2
  <2> QED BY <2>1, <2>4 DEF TimeoutHitsIdler
<1>5. CASE SetWinner(s) \/ Award(s)
  <2>1. UNCHANGED <<jobs, statuses>>
    BY <1>5 DEF SetWinner, Award, document
  <2> QED BY <2>1, HitsKept
<1> QED BY <1>1, <1>2, <1>3, <1>4, <1>5 DEF Serve

\* A timeout names the player who is not in turn.
LEMMA TimeoutHits ==
  ASSUME TypeInv, Inv, TimeoutHitsIdler, Cautious, NEW j \in JobIds,
         Timeout(j) \/ RetryTimeout(j)
  PROVE  TimeoutHitsIdler'
<1>1. statuses' = statuses
  BY DEF Timeout, RetryTimeout, StartTimeout, TimeoutRead, TimeoutSetWinner, TimeoutAward,
     TimeoutPublish, document
<1>2. CASE TimeoutRead(j)
  <2>1. PICK job : job = [state |-> "setWinner", winner |-> Idler]
    OBVIOUS
  <2>2. j \in DOMAIN jobs /\ jobs' = [jobs EXCEPT ![j] = job]
    BY <1>2, <2>1 DEF TimeoutRead
  <2>3. DOMAIN jobs' = DOMAIN jobs /\ jobs'[j] = job
        /\ \A k \in DOMAIN jobs \ {j} : jobs'[k] = jobs[k]
    BY <2>2
  <2>4. ~statuses[job.winner].inTurn
    <3>1. order # <<>> /\ OneInTurn
      BY <2>2 DEF Inv, JobsOK
    <3>2. PICK p \in Players : order = <<p, Opponent(p)>>
      BY <3>1 DEF Inv, OrderOK
    <3>3. Idler = IF ~statuses[p].inTurn THEN p ELSE Opponent(p)
      BY <3>2 DEF Idler
    <3>4. ~statuses[p].inTurn \/ ~statuses[Opponent(p)].inTurn
      BY <3>1, OpponentFact DEF OneInTurn
    <3> QED BY <2>1, <3>3, <3>4
  <2> QED BY <1>1, <2>3, <2>4 DEF TimeoutHitsIdler, Cautious
<1>3. CASE ~TimeoutRead(j)
  <2>1. jobs[j] \in Job /\ j \in DOMAIN jobs
    BY DEF TypeInv, JobsTyped, Timeout, RetryTimeout, StartTimeout, TimeoutRead,
       TimeoutSetWinner, TimeoutAward, TimeoutPublish, Waiting
  <2>2. CASE jobs' = Without(jobs, j)
    <3>1. \A k \in DOMAIN jobs' : k \in DOMAIN jobs /\ jobs'[k] = jobs[k]
      BY <2>2 DEF Without, Restrict
    <3> QED BY <1>1, <3>1, HitsKept
  <2>3. ASSUME NEW job, job.state # "setWinner", jobs' = [jobs EXCEPT ![j] = job]
        PROVE  TimeoutHitsIdler'
    <3>1. \A k \in DOMAIN jobs' : jobs'[k].state = "setWinner" =>
             k \in DOMAIN jobs /\ jobs'[k] = jobs[k]
      BY <2>1, <2>3
    <3> QED BY <1>1, <3>1, HitsKept
  <2>4. ASSUME NEW state, state # "setWinner", jobs' = [jobs EXCEPT ![j].state = state]
        PROVE  TimeoutHitsIdler'
    <3>1. PICK job : job = [jobs[j] EXCEPT !.state = state]
      OBVIOUS
    <3>2. job.state = state /\ jobs' = [jobs EXCEPT ![j] = job]
      BY <2>1, <2>4, <3>1 DEF Job
    <3> QED BY <2>3, <2>4, <3>2
  <2>5. CASE RetryTimeout(j)
    <3>1. PICK job : job = [state |-> "delayed", winner |-> Nobody]
      OBVIOUS
    <3> QED BY <2>3, <2>5, <3>1 DEF RetryTimeout
  <2>6. CASE StartTimeout(j) \/ TimeoutSetWinner(j) \/ TimeoutAward(j) \/ TimeoutPublish(j)
    BY <2>2, <2>4, <2>6 DEF StartTimeout, TimeoutSetWinner, TimeoutAward, TimeoutPublish
  <2> QED BY <1>3, <2>5, <2>6 DEF Timeout
<1> QED BY <1>2, <1>3

\* The timeout lets the player win who is not in turn, when clients wait for each
\* answer: TimeoutHitsIdler.
THEOREM TimeoutJust ==
  ASSUME Serial
  PROVE  Spec => []TimeoutHitsIdler
<1>1. Init => TimeoutHitsIdler
  BY DEF Init, TimeoutHitsIdler
<1>2. TypeInv /\ Inv /\ OneDecider /\ TimeoutHitsIdler /\ [Next]_vars => TimeoutHitsIdler'
  <2> SUFFICES ASSUME TypeInv, Inv, OneDecider, TimeoutHitsIdler, [Next]_vars, Cautious'
               PROVE  TimeoutHitsIdler'
    BY DEF TimeoutHitsIdler, Cautious
  <2>1. Cautious /\ ~Fault /\ ~raced'
    BY StaysCautious DEF TypeInv
  <2>2. CASE Create
    BY <2>1, <2>2, CreateHits
  <2>3. ASSUME NEW s \in Slots, Act(s) \/ Serve(s) PROVE TimeoutHitsIdler'
    BY <2>1, <2>3, ActHits, ServeHits
  <2>4. ASSUME NEW j \in JobIds, Timeout(j) \/ RetryTimeout(j) PROVE TimeoutHitsIdler'
    BY <2>1, <2>4, TimeoutHits
  <2>5. CASE Crash
    BY <2>1, <2>5 DEF Crash
  <2>6. CASE UNCHANGED vars
    BY <2>6 DEF vars, TimeoutHitsIdler, Clean
  <2> QED BY <2>2, <2>3, <2>4, <2>5, <2>6 DEF Next
<1> QED BY <1>1, <1>2, TypeInvariance, Invariance, OneDeciderInvariance, PTL DEF Spec

(***************************************************************************)
(* A match mints no card without a cause: RewardsBounded.                  *)
(***************************************************************************)
\* Who can still mint a card: the calls that decide the match or are going to queue
\* its timeout, the timeouts that have not minted, and createMatch.
PendingPC == {"addJob", "setWinner", "award"}
PendingCalls == {s \in Slots : calls[s].pc \in PendingPC}
PendingJobs == {j \in DOMAIN jobs : jobs[j].state # "publish"}
PendingCreator == IF creator.pc \in {"save", "addJob"} THEN 1 ELSE 0

\* The cards minted and those that may still be.
Minted == SumFunctionOnSet(rewards, Players)
Potential == Minted + Cardinality(PendingCalls) + Cardinality(PendingJobs) + PendingCreator
Causes == 1 + issued.quit + issued.fault * issued.job

\* Every job has an id given out, and every card has a cause.
RewardInv ==
  /\ DOMAIN jobs \subseteq 1..issued.job
  /\ ~raced => Potential <= Causes

\* They are numbers.
Numbers ==
  /\ issued.job \in Nat /\ issued.quit \in Nat /\ issued.fault \in Nat
  /\ issued = [job |-> issued.job, quit |-> issued.quit, fault |-> issued.fault]
  /\ Cardinality(PendingCalls) \in Nat /\ Cardinality(PendingJobs) \in Nat
  /\ Minted \in Int /\ Minted = SumFunction(rewards) /\ PendingCreator \in {0, 1}
  /\ Causes \in Nat

\* There are two players.
LEMMA PlayersFinite == IsFiniteSet(Players)
<1>1. PICK p, q \in Players : Players = {p, q}
  OBVIOUS
<1>2. IsFiniteSet({}) /\ Players = ({} \cup {p}) \cup {q}
  BY <1>1, FS_EmptySet
<1> QED BY <1>2, FS_AddElement

\* The types of the counts.
LEMMA Counted == TypeInv => Numbers
<1> SUFFICES ASSUME TypeInv PROVE Numbers
  OBVIOUS
<1>1. /\ issued.job \in Nat /\ issued.quit \in Nat /\ issued.fault \in Nat
      /\ issued = [job |-> issued.job, quit |-> issued.quit, fault |-> issued.fault]
  BY DEF TypeInv, CountsTyped
<1>2. PendingCalls \in SUBSET Slots /\ PendingJobs \in SUBSET JobIds
  BY DEF PendingCalls, PendingJobs, TypeInv, JobsTyped
<1>3. IsFiniteSet(Slots) /\ IsFiniteSet(JobIds)
  BY FS_Interval, MatchBoundAssumption DEF JobIds
<1>4. Cardinality(PendingCalls) \in Nat /\ Cardinality(PendingJobs) \in Nat
  BY <1>2, <1>3, FS_Subset, FS_CardinalityType
<1>5. rewards \in [Players -> Nat] /\ \A p \in Players : rewards[p] \in Int
  BY DEF TypeInv, CountsTyped
<1>6. PICK r : r = rewards
  OBVIOUS
<1>7. SumFunctionOnSet(r, Players) \in Int
  BY <1>5, <1>6, PlayersFinite, SumInt
<1>8. Minted \in Int /\ Minted = SumFunction(rewards)
  BY <1>5, <1>6, <1>7 DEF Minted, SumFunction
<1>9. Causes \in Nat
  BY <1>1 DEF Causes
<1> QED BY <1>1, <1>4, <1>8, <1>9 DEF PendingCreator, Numbers

\* One call changes.
LEMMA PendingCallsStep ==
  ASSUME FramesTyped, NEW s \in Slots, NEW f, calls' = [calls EXCEPT ![s] = f]
  PROVE  /\ Cardinality(PendingCalls) \in Nat /\ Cardinality(PendingCalls') \in Nat
         /\ Cardinality(PendingCalls') + (IF calls[s].pc \in PendingPC THEN 1 ELSE 0)
              = Cardinality(PendingCalls) + (IF f.pc \in PendingPC THEN 1 ELSE 0)
<1>1. calls'[s] = f /\ \A t \in Slots \ {s} : calls'[t] = calls[t]
  BY DEF FramesTyped
<1>2. PICK A, B : A = PendingCalls /\ B = PendingCalls'
  OBVIOUS
<1>3. /\ A \in SUBSET Slots /\ B \in SUBSET Slots /\ A \ {s} = B \ {s}
      /\ s \in A <=> calls[s].pc \in PendingPC
      /\ s \in B <=> f.pc \in PendingPC
  BY <1>1, <1>2 DEF PendingCalls
<1>4. IsFiniteSet(Slots)
  BY SlotAssumption
<1>5. /\ Cardinality(A) \in Nat /\ Cardinality(B) \in Nat
      /\ Cardinality(B) + (IF s \in A THEN 1 ELSE 0)
           = Cardinality(A) + (IF s \in B THEN 1 ELSE 0)
  BY <1>3, <1>4, CountChange
<1> QED BY <1>2, <1>3, <1>5

\* A call returns.
LEMMA PendingReturn ==
  ASSUME FramesTyped, NEW s \in Slots, Return(s)
  PROVE  /\ Cardinality(PendingCalls) \in Nat /\ Cardinality(PendingCalls') \in Nat
         /\ Cardinality(PendingCalls') + (IF calls[s].pc \in PendingPC THEN 1 ELSE 0)
              = Cardinality(PendingCalls)
<1>1. PICK f : f = IdleFrame
  OBVIOUS
<1>2. f.pc \notin PendingPC /\ calls' = [calls EXCEPT ![s] = f]
  BY <1>1 DEF Return, IdleFrame, PendingPC
<1>3. /\ Cardinality(PendingCalls) \in Nat /\ Cardinality(PendingCalls') \in Nat
      /\ Cardinality(PendingCalls') + (IF calls[s].pc \in PendingPC THEN 1 ELSE 0)
           = Cardinality(PendingCalls) + (IF f.pc \in PendingPC THEN 1 ELSE 0)
  BY <1>2, PendingCallsStep
<1> QED BY <1>2, <1>3

\* A call goes on.
LEMMA PendingGoto ==
  ASSUME FramesTyped, NEW s \in Slots, NEW pc, Goto(s, pc)
  PROVE  /\ Cardinality(PendingCalls) \in Nat /\ Cardinality(PendingCalls') \in Nat
         /\ Cardinality(PendingCalls') + (IF calls[s].pc \in PendingPC THEN 1 ELSE 0)
              = Cardinality(PendingCalls) + (IF pc \in PendingPC THEN 1 ELSE 0)
<1>1. PICK f : f = [calls[s] EXCEPT !.pc = pc]
  OBVIOUS
<1>2. f.pc = pc /\ calls' = [calls EXCEPT ![s] = f]
  BY <1>1 DEF Goto, FramesTyped, Frame
<1>3. /\ Cardinality(PendingCalls) \in Nat /\ Cardinality(PendingCalls') \in Nat
      /\ Cardinality(PendingCalls') + (IF calls[s].pc \in PendingPC THEN 1 ELSE 0)
           = Cardinality(PendingCalls) + (IF f.pc \in PendingPC THEN 1 ELSE 0)
  BY <1>2, PendingCallsStep
<1> QED BY <1>2, <1>3

\* One job changes, comes or goes.
LEMMA PendingJobsStep ==
  ASSUME JobsTyped, JobsTyped', NEW j, PendingJobs \ {j} = PendingJobs' \ {j}
  PROVE  /\ Cardinality(PendingJobs) \in Nat /\ Cardinality(PendingJobs') \in Nat
         /\ Cardinality(PendingJobs') + (IF j \in PendingJobs THEN 1 ELSE 0)
              = Cardinality(PendingJobs) + (IF j \in PendingJobs' THEN 1 ELSE 0)
<1>1. PICK A, B : A = PendingJobs /\ B = PendingJobs'
  OBVIOUS
<1>2. A \in SUBSET JobIds /\ B \in SUBSET JobIds /\ A \ {j} = B \ {j}
  BY <1>1 DEF PendingJobs, JobsTyped, JobIds
<1>3. IsFiniteSet(JobIds)
  BY FS_Interval, MatchBoundAssumption DEF JobIds
<1>4. /\ Cardinality(A) \in Nat /\ Cardinality(B) \in Nat
      /\ Cardinality(B) + (IF j \in A THEN 1 ELSE 0)
           = Cardinality(A) + (IF j \in B THEN 1 ELSE 0)
  BY <1>2, <1>3, CountChange
<1> QED BY <1>1, <1>4

\* A timeout is queued.
LEMMA PendingQueue ==
  ASSUME JobsTyped, JobsTyped', Numbers, QueueTimeout, DOMAIN jobs \subseteq 1..issued.job
  PROVE  /\ Cardinality(PendingJobs) \in Nat /\ Cardinality(PendingJobs') \in Nat
         /\ Cardinality(PendingJobs') <= Cardinality(PendingJobs) + 1
         /\ Causes' = Causes + issued.fault
         /\ DOMAIN jobs' \subseteq 1..issued'.job
<1>1. PICK n \in Nat : n = issued.job + 1
  BY DEF Numbers
<1>2. issued' = [issued EXCEPT !.job = n]
  BY <1>1 DEF QueueTimeout
<1>3. issued'.job = n /\ issued'.quit = issued.quit /\ issued'.fault = issued.fault
  BY <1>2 DEF Numbers
<1>4. PICK job : job = [state |-> "delayed", winner |-> Nobody]
  OBVIOUS
<1>5. jobs' = With(jobs, n, job)
  BY <1>3, <1>4 DEF QueueTimeout
<1>6. DOMAIN jobs' = DOMAIN jobs \cup {n} /\ \A k \in DOMAIN jobs \ {n} : jobs'[k] = jobs[k]
  BY <1>5 DEF With
<1>7. PendingJobs \ {n} = PendingJobs' \ {n}
  BY <1>6 DEF PendingJobs
<1>8. /\ Cardinality(PendingJobs) \in Nat /\ Cardinality(PendingJobs') \in Nat
      /\ Cardinality(PendingJobs') + (IF n \in PendingJobs THEN 1 ELSE 0)
           = Cardinality(PendingJobs) + (IF n \in PendingJobs' THEN 1 ELSE 0)
  BY <1>7, PendingJobsStep
<1>9. Causes' = Causes + issued.fault
  <2>1. PICK q, a, b \in Nat : q = issued.quit /\ a = issued.fault /\ b = issued.job
    BY DEF Numbers
  <2>2. a * (b + 1) = a * b + a
    BY SMT
  <2> QED BY <1>1, <1>3, <2>1, <2>2 DEF Causes
<1>10. DOMAIN jobs' \subseteq 1..issued'.job
  BY <1>1, <1>3, <1>6 DEF Numbers
<1> QED BY <1>8, <1>9, <1>10

\* An operation fails, or the process does.
LEMMA FaultCauses ==
  ASSUME Numbers, Fault
  PROVE  Causes' = Causes + issued.job /\ issued'.job = issued.job
<1>1. PICK n \in Nat : n = issued.fault + 1
  BY DEF Numbers
<1>2. issued' = [issued EXCEPT !.fault = n]
  BY <1>1 DEF Fault
<1>3. issued'.job = issued.job /\ issued'.quit = issued.quit /\ issued'.fault = n
  BY <1>2 DEF Numbers
<1>4. PICK q, a, b \in Nat : q = issued.quit /\ a = issued.fault /\ b = issued.job
  BY DEF Numbers
<1>5. (a + 1) * b = a * b + b
  BY SMT
<1> QED BY <1>1, <1>3, <1>4, <1>5 DEF Causes

\* A player surrenders.
LEMMA QuitCauses ==
  ASSUME Numbers, issued' = [issued EXCEPT !.quit = @ + 1]
  PROVE  Causes' = Causes + 1 /\ issued'.job = issued.job
<1>1. PICK n \in Nat : n = issued.quit + 1
  BY DEF Numbers
<1>2. issued' = [issued EXCEPT !.quit = n]
  BY <1>1
<1>3. issued'.job = issued.job /\ issued'.quit = n /\ issued'.fault = issued.fault
  BY <1>2 DEF Numbers
<1>4. PICK q, a, b \in Nat : q = issued.quit /\ a = issued.fault /\ b = issued.job
  BY DEF Numbers
<1>5. a * b \in Nat
  BY SMT
<1> QED BY <1>1, <1>3, <1>4, <1>5 DEF Causes

\* Nothing is given out.
LEMMA SameCauses ==
  ASSUME issued' = issued
  PROVE  Causes' = Causes /\ issued'.job = issued.job
  BY DEF Causes

\* A card is minted.
LEMMA MintedStep ==
  ASSUME CountsTyped, NEW w, rewards' = [rewards EXCEPT ![w] = @ + 1]
  PROVE  Minted \in Int /\ Minted' \in Int /\ Minted' <= Minted + 1
<1>1. PICK r, t : r = rewards /\ t = rewards'
  OBVIOUS
<1>2. r \in [Players -> Nat] /\ t = [r EXCEPT ![w] = @ + 1]
  BY <1>1 DEF CountsTyped
<1>3. SumFunctionOnSet(r, Players) \in Int
  BY <1>2, PlayersFinite, SumInt
<1>4. CASE w \in Players
  <2>1. \A p \in Players : r[p] \in Int /\ t[p] \in Int
    BY <1>2, <1>4
  <2>2. \A p \in Players \ {w} : t[p] = r[p]
    BY <1>2, <1>4
  <2>3. SumFunctionOnSet(t, Players) = SumFunctionOnSet(r, Players) - r[w] + t[w]
    BY <1>4, <2>1, <2>2, PlayersFinite, SumUpdate
  <2>4. t[w] = r[w] + 1
    BY <1>2, <1>4
  <2> QED BY <1>1, <1>2, <1>3, <1>4, <2>3, <2>4 DEF Minted
<1>5. CASE w \notin Players
  <2>1. t = r
    BY <1>2, <1>5
  <2> QED BY <1>1, <1>3, <2>1 DEF Minted
<1> QED BY <1>4, <1>5

\* createMatch turns its own claim into that of the timeout it queues.
LEMMA CreateRewards ==
  ASSUME TypeInv, TypeInv', Numbers, Numbers', RewardInv, Create
  PROVE  RewardInv'
<1>0. UNCHANGED <<calls, rewards, raced>> /\ creator.pc \in {"save", "addJob", "setJob"}
  BY DEF Create, SaveMatch, CreatorAddJob, CreatorSetJob, history
<1>1. PendingCalls' = PendingCalls /\ Minted' = Minted
  BY <1>0 DEF PendingCalls, Minted
<1>2. CASE SaveMatch
  <2>1. jobs' = jobs /\ issued' = issued /\ creator.pc = "save"
    BY <1>2 DEF SaveMatch
  <2>2. PendingJobs' = PendingJobs /\ Causes' = Causes /\ issued'.job = issued.job
    BY <2>1, SameCauses DEF PendingJobs
  <2>3. PendingCreator = 1
    BY <2>1 DEF PendingCreator
  <2> QED BY <1>0, <1>1, <2>1, <2>2, <2>3 DEF RewardInv, Potential, Numbers
<1>3. CASE CreatorAddJob
  <2>1. PendingCreator = 1 /\ PendingCreator' = 0
    BY <1>3 DEF CreatorAddJob, IdleCreator, PendingCreator
  <2>2. CASE QueueTimeout
    <3>1. /\ Cardinality(PendingJobs') <= Cardinality(PendingJobs) + 1
          /\ Causes' = Causes + issued.fault
          /\ DOMAIN jobs' \subseteq 1..issued'.job
      BY <2>2, PendingQueue DEF TypeInv, RewardInv
    <3> QED BY <1>0, <1>1, <2>1, <3>1 DEF RewardInv, Potential, Numbers
  <2>3. CASE Fault /\ jobs' = jobs
    <3>1. PendingJobs' = PendingJobs /\ Causes' = Causes + issued.job
          /\ issued'.job = issued.job
      BY <2>3, FaultCauses DEF PendingJobs
    <3> QED BY <1>0, <1>1, <2>1, <2>3, <3>1 DEF RewardInv, Potential, Numbers
  <2> QED BY <1>3, <2>2, <2>3 DEF CreatorAddJob, FaultInTheGap
<1>4. CASE CreatorSetJob
  <2>1. jobs' = jobs /\ (issued' = issued \/ Fault) /\ PendingCreator' = 0
    BY <1>4 DEF CreatorSetJob, IdleCreator, PendingCreator
  <2>2. Causes' >= Causes /\ issued'.job = issued.job
    BY <2>1, SameCauses, FaultCauses DEF Numbers
  <2>3. PendingJobs' = PendingJobs
    BY <2>1 DEF PendingJobs
  <2> QED BY <1>0, <1>1, <2>1, <2>2, <2>3 DEF RewardInv, Potential, Numbers
<1> QED BY <1>2, <1>3, <1>4 DEF Create

\* Of the mutations only surrender lays a claim, and it is a cause.
LEMMA ActRewards ==
  ASSUME TypeInv, TypeInv', Numbers, Numbers', RewardInv, NEW s \in Slots, Act(s)
  PROVE  RewardInv'
<1>0. UNCHANGED <<jobs, creator, rewards, raced>> /\ calls[s].pc = "idle"
  BY DEF Act, PutToBoard, DenyCard, ConfirmTurn, EndTurn, Surrender, history
<1>1. PendingJobs' = PendingJobs /\ PendingCreator' = PendingCreator /\ Minted' = Minted
  BY <1>0 DEF PendingJobs, PendingCreator, Minted
<1>2. ASSUME NEW f, calls' = [calls EXCEPT ![s] = f]
      PROVE  Cardinality(PendingCalls')
               = Cardinality(PendingCalls) + (IF f.pc \in PendingPC THEN 1 ELSE 0)
  <2>1. /\ Cardinality(PendingCalls) \in Nat /\ Cardinality(PendingCalls') \in Nat
        /\ Cardinality(PendingCalls') + (IF calls[s].pc \in PendingPC THEN 1 ELSE 0)
             = Cardinality(PendingCalls) + (IF f.pc \in PendingPC THEN 1 ELSE 0)
    BY <1>2, PendingCallsStep DEF TypeInv
  <2>2. calls[s].pc \notin PendingPC
    BY <1>0 DEF PendingPC
  <2> QED BY <2>1, <2>2
<1>3. CASE Surrender(s)
  <2>1. PICK f : calls' = [calls EXCEPT ![s] = f]
    BY <1>3 DEF Surrender
  <2>2. Cardinality(PendingCalls')
          = Cardinality(PendingCalls) + (IF f.pc \in PendingPC THEN 1 ELSE 0)
    BY <1>2, <2>1
  <2>3. Causes' = Causes + 1 /\ issued'.job = issued.job
    BY <1>3, QuitCauses DEF Surrender
  <2> QED BY <1>0, <1>1, <2>2, <2>3 DEF RewardInv, Potential, Numbers
<1>4. CASE ~Surrender(s)
  <2>1. issued' = issued
    BY <1>4 DEF Act, PutToBoard, DenyCard, ConfirmTurn, EndTurn
  <2>2. \E f : f.pc \notin PendingPC /\ calls' = [calls EXCEPT ![s] = f]
    <3>1. CASE PutToBoard(s) \/ DenyCard(s) \/ ConfirmTurn(s)
      <4>1. PICK next : Computed(s, next)
        BY <3>1 DEF PutToBoard, DenyCard, ConfirmTurn
      <4>2. PICK f : f = [IdleFrame EXCEPT !.pc = "write", !.next = next]
        OBVIOUS
      <4>3. f.pc \notin PendingPC /\ calls' = [calls EXCEPT ![s] = f]
        BY <4>1, <4>2 DEF Computed, IdleFrame, PendingPC
      <4> QED BY <4>3
    <3>2. CASE EndTurn(s)
      <4>1. PICK f : f = [pc |-> "removeJob", next |-> PassTurn(statuses, s[1]),
                          job |-> timeoutJobId, winner |-> Winner(order, statuses)]
        OBVIOUS
      <4>2. f.pc \notin PendingPC /\ calls' = [calls EXCEPT ![s] = f]
        BY <3>2, <4>1 DEF EndTurn, PendingPC
      <4> QED BY <4>2
    <3> QED BY <1>4, <3>1, <3>2 DEF Act
  <2>3. Cardinality(PendingCalls') = Cardinality(PendingCalls)
    <3>1. PICK f : f.pc \notin PendingPC /\ calls' = [calls EXCEPT ![s] = f]
      BY <2>2
    <3>2. Cardinality(PendingCalls')
            = Cardinality(PendingCalls) + (IF f.pc \in PendingPC THEN 1 ELSE 0)
      BY <1>2, <3>1
    <3> QED BY <3>1, <3>2 DEF Numbers
  <2>4. Causes' = Causes /\ issued'.job = issued.job
    BY <2>1, SameCauses
  <2> QED BY <1>0, <1>1, <2>3, <2>4 DEF RewardInv, Potential, Numbers
<1> QED BY <1>3, <1>4

\* endTurn takes over the claim of the timeout it removes, and hands it on.
LEMMA ServeRewards ==
  ASSUME TypeInv, TypeInv', Numbers, Numbers', RewardInv, NEW s \in Slots, Serve(s)
  PROVE  RewardInv'
<1>0. FramesTyped /\ PendingCreator' = PendingCreator
  BY DEF TypeInv, Serve, WriteStatuses, RemoveJob, AddJob, WriteTurn, SetWinner, Award,
     PendingCreator
<1>1. CASE WriteStatuses(s) \/ WriteTurn(s)
  <2>1. /\ Return(s) /\ UNCHANGED <<jobs, rewards>> /\ (raced => raced')
        /\ (issued' = issued \/ Fault)
    <3>1. CASE WriteStatuses(s)
      BY <3>1 DEF WriteStatuses, history
    <3>2. CASE WriteTurn(s)
      BY <3>2 DEF WriteTurn
    <3> QED BY <1>1, <3>1, <3>2
  <2>2. Cardinality(PendingCalls') <= Cardinality(PendingCalls)
    BY <1>0, <2>1, PendingReturn
  <2>3. Causes' >= Causes /\ issued'.job = issued.job
    BY <2>1, SameCauses, FaultCauses DEF Numbers
  <2>4. PendingJobs' = PendingJobs /\ Minted' = Minted
    BY <2>1 DEF PendingJobs, Minted
  <2> QED BY <1>0, <2>1, <2>2, <2>3, <2>4 DEF RewardInv, Potential, Numbers
<1>2. CASE RemoveJob(s)
  <2>1. /\ UNCHANGED rewards /\ (raced => raced') /\ calls[s].pc = "removeJob"
        /\ (issued' = issued \/ Fault)
    BY <1>2 DEF RemoveJob
  <2>2. Causes' >= Causes /\ issued'.job = issued.job
    BY <2>1, SameCauses, FaultCauses DEF Numbers
  <2>3. Minted' = Minted
    BY <2>1 DEF Minted
  <2>4. CASE Return(s) /\ jobs' = jobs
    <3>1. Cardinality(PendingCalls') <= Cardinality(PendingCalls)
      BY <1>0, <2>4, PendingReturn
    <3>2. PendingJobs' = PendingJobs
      BY <2>4 DEF PendingJobs
    <3> QED BY <1>0, <2>1, <2>2, <2>3, <2>4, <3>1, <3>2 DEF RewardInv, Potential, Numbers
  <2>5. CASE /\ ~Locked(calls[s].job)
             /\ jobs' = Without(jobs, calls[s].job)
             /\ Goto(s, IF calls[s].winner # Nobody THEN "setWinner" ELSE "addJob")
    <3>1. PICK j, pc : j = calls[s].job
                       /\ pc = IF calls[s].winner # Nobody THEN "setWinner" ELSE "addJob"
      OBVIOUS
    <3>2. Cardinality(PendingCalls') <= Cardinality(PendingCalls) + 1
      <4>1. Goto(s, pc)
        BY <2>5, <3>1
      <4> QED BY <1>0, <4>1, PendingGoto
    <3>3. DOMAIN jobs' = DOMAIN jobs \ {j} /\ \A k \in DOMAIN jobs' : jobs'[k] = jobs[k]
      BY <2>5, <3>1 DEF Without, Restrict
    <3>4. ASSUME ~raced'
          PROVE  Cardinality(PendingJobs') + 1 = Cardinality(PendingJobs)
      <4>1. j \in DOMAIN jobs /\ ~Locked(j)
        BY <1>2, <2>5, <3>1, <3>4 DEF RemoveJob
      <4>2. j \in PendingJobs /\ j \notin PendingJobs'
        BY <3>3, <4>1 DEF PendingJobs, Locked
      <4>3. PendingJobs \ {j} = PendingJobs' \ {j}
        BY <3>3 DEF PendingJobs
      <4>4. /\ Cardinality(PendingJobs) \in Nat /\ Cardinality(PendingJobs') \in Nat
            /\ Cardinality(PendingJobs') + (IF j \in PendingJobs THEN 1 ELSE 0)
                 = Cardinality(PendingJobs) + (IF j \in PendingJobs' THEN 1 ELSE 0)
        BY <4>3, PendingJobsStep DEF TypeInv
      <4> QED BY <4>2, <4>4
    <3> QED BY <1>0, <2>1, <2>2, <2>3, <3>2, <3>3, <3>4 DEF RewardInv, Potential, Numbers
  <2> QED BY <1>2, <2>4, <2>5 DEF RemoveJob
<1>3. CASE AddJob(s)
  <2>1. UNCHANGED <<rewards, raced>> /\ calls[s].pc = "addJob"
    BY <1>3 DEF AddJob
  <2>2. Minted' = Minted
    BY <2>1 DEF Minted
  <2>3. CASE /\ QueueTimeout
             /\ calls' = [calls EXCEPT ![s].pc = "writeTurn", ![s].job = issued'.job]
    <3>1. /\ Cardinality(PendingJobs') <= Cardinality(PendingJobs) + 1
          /\ Causes' = Causes + issued.fault
          /\ DOMAIN jobs' \subseteq 1..issued'.job
      BY <2>3, PendingQueue DEF TypeInv, RewardInv
    <3>2. PICK n : n = issued'.job
      OBVIOUS
    <3>3. PICK f : f = [calls[s] EXCEPT !.pc = "writeTurn", !.job = n]
      OBVIOUS
    <3>4. f.pc \notin PendingPC /\ calls' = [calls EXCEPT ![s] = f]
      BY <1>0, <2>3, <3>2, <3>3 DEF FramesTyped, Frame, PendingPC
    <3>5. /\ Cardinality(PendingCalls) \in Nat /\ Cardinality(PendingCalls') \in Nat
          /\ Cardinality(PendingCalls') + (IF calls[s].pc \in PendingPC THEN 1 ELSE 0)
               = Cardinality(PendingCalls) + (IF f.pc \in PendingPC THEN 1 ELSE 0)
      BY <1>0, <3>4, PendingCallsStep
    <3>6. calls[s].pc \in PendingPC
      BY <2>1 DEF PendingPC
    <3> QED
      BY <1>0, <2>1, <2>2, <3>1, <3>4, <3>5, <3>6 DEF RewardInv, Potential, Numbers
  <2>4. CASE Fault /\ Return(s) /\ jobs' = jobs
    <3>1. PendingJobs' = PendingJobs /\ Causes' = Causes + issued.job
          /\ issued'.job = issued.job
      BY <2>4, FaultCauses DEF PendingJobs
    <3>2. Cardinality(PendingCalls') <= Cardinality(PendingCalls)
      BY <1>0, <2>4, PendingReturn
    <3> QED
      BY <1>0, <2>1, <2>2, <2>4, <3>1, <3>2 DEF RewardInv, Potential, Numbers
  <2> QED BY <1>3, <2>3, <2>4 DEF AddJob, FaultInTheGap
<1>4. CASE SetWinner(s)
  <2>1. /\ UNCHANGED <<jobs, rewards, raced>> /\ calls[s].pc = "setWinner"
        /\ (issued' = issued \/ Fault)
    BY <1>4 DEF SetWinner, FaultInTheGap
  <2>2. Cardinality(PendingCalls') <= Cardinality(PendingCalls)
    <3>1. CASE Return(s)
      BY <1>0, <3>1, PendingReturn
    <3>2. CASE Goto(s, "award")
      <4>1. calls[s].pc \in PendingPC
        BY <2>1 DEF PendingPC
      <4> QED BY <1>0, <3>2, <4>1, PendingGoto DEF PendingPC
    <3> QED BY <1>4, <3>1, <3>2 DEF SetWinner
  <2>3. Causes' >= Causes /\ issued'.job = issued.job
    BY <2>1, SameCauses, FaultCauses DEF Numbers
  <2>4. PendingJobs' = PendingJobs /\ Minted' = Minted
    BY <2>1 DEF PendingJobs, Minted
  <2> QED BY <1>0, <2>1, <2>2, <2>3, <2>4 DEF RewardInv, Potential, Numbers
<1>5. CASE Award(s)
  <2>1. /\ UNCHANGED <<jobs, raced>> /\ calls[s].pc = "award" /\ Return(s)
        /\ (issued' = issued \/ Fault)
    BY <1>5 DEF Award, history
  <2>2. Cardinality(PendingCalls') + 1 = Cardinality(PendingCalls)
    <3>1. calls[s].pc \in PendingPC
      BY <2>1 DEF PendingPC
    <3> QED BY <1>0, <2>1, <3>1, PendingReturn
  <2>3. Minted' <= Minted + 1
    <3>1. CASE rewards' = rewards
      BY <3>1 DEF Minted, Numbers
    <3>2. CASE rewards' = [rewards EXCEPT ![calls[s].winner] = @ + 1]
      BY <3>2, MintedStep DEF TypeInv
    <3> QED BY <1>5, <3>1, <3>2 DEF Award
  <2>4. Causes' >= Causes /\ issued'.job = issued.job
    BY <2>1, SameCauses, FaultCauses DEF Numbers
  <2>5. PendingJobs' = PendingJobs
    BY <2>1 DEF PendingJobs
  <2> QED BY <1>0, <2>1, <2>2, <2>3, <2>4, <2>5 DEF RewardInv, Potential, Numbers
<1> QED BY <1>1, <1>2, <1>3, <1>4, <1>5 DEF Serve

\* A timeout uses its claim; one that failed has a failure for its next.
LEMMA TimeoutRewards ==
  ASSUME TypeInv, TypeInv', Numbers, Numbers', RewardInv, NEW j \in JobIds,
         Timeout(j) \/ RetryTimeout(j)
  PROVE  RewardInv'
<1>0. /\ UNCHANGED <<calls, creator, raced>> /\ j \in DOMAIN jobs /\ jobs[j] \in Job
      /\ (issued' = issued \/ Fault)
  BY DEF TypeInv, JobsTyped, Timeout, RetryTimeout, StartTimeout, TimeoutRead,
     TimeoutSetWinner, TimeoutAward, TimeoutPublish, Waiting, history, FaultInTheGap
<1>1. PendingCalls' = PendingCalls /\ PendingCreator' = PendingCreator
  BY <1>0 DEF PendingCalls, PendingCreator
<1>2. /\ (issued' = issued => Causes' = Causes)
      /\ (Fault => Causes' = Causes + issued.job)
      /\ issued'.job = issued.job
  BY <1>0, SameCauses, FaultCauses
<1>3. issued.job >= 1
  BY <1>0 DEF RewardInv, Numbers
<1>4. DOMAIN jobs' \subseteq DOMAIN jobs /\ PendingJobs \ {j} = PendingJobs' \ {j}
  <2>1. CASE jobs' = Without(jobs, j)
    BY <2>1 DEF Without, Restrict, PendingJobs
  <2>2. CASE /\ DOMAIN jobs' = DOMAIN jobs
             /\ \A k \in DOMAIN jobs \ {j} : jobs'[k] = jobs[k]
    BY <2>2 DEF PendingJobs
  <2>3. CASE StartTimeout(j) \/ TimeoutRead(j) \/ RetryTimeout(j)
    BY <2>2, <2>3 DEF StartTimeout, TimeoutRead, RetryTimeout
  <2>4. CASE TimeoutSetWinner(j)
    BY <2>2, <2>4 DEF TimeoutSetWinner
  <2>5. CASE TimeoutAward(j)
    BY <2>2, <2>5 DEF TimeoutAward
  <2>6. CASE TimeoutPublish(j)
    BY <2>1, <2>2, <2>6 DEF TimeoutPublish
  <2> QED BY <2>3, <2>4, <2>5, <2>6 DEF Timeout
<1>5. /\ Cardinality(PendingJobs') + (IF j \in PendingJobs THEN 1 ELSE 0)
           = Cardinality(PendingJobs) + (IF j \in PendingJobs' THEN 1 ELSE 0)
  BY <1>4, PendingJobsStep DEF TypeInv
<1>6. CASE TimeoutAward(j)
  <2>1. j \in PendingJobs
    BY <1>0, <1>6 DEF TimeoutAward, PendingJobs
  <2>2. CASE rewards' = rewards
    <3>1. Minted' = Minted
      BY <2>2 DEF Minted
    <3> QED
      BY <1>0, <1>1, <1>2, <1>4, <1>5, <2>1, <3>1 DEF RewardInv, Potential, Numbers
  <2>3. CASE /\ rewards' = [rewards EXCEPT ![jobs[j].winner] = @ + 1]
             /\ jobs' = [jobs EXCEPT ![j].state = "publish"]
    <3>1. Minted' <= Minted + 1
      BY <2>3, MintedStep DEF TypeInv
    <3>2. j \notin PendingJobs'
      <4>1. jobs'[j].state = "publish"
        BY <1>0, <2>3 DEF Job
      <4> QED BY <4>1 DEF PendingJobs
    <3> QED
      BY <1>0, <1>1, <1>2, <1>4, <1>5, <2>1, <3>1, <3>2 DEF RewardInv, Potential, Numbers
  <2> QED BY <1>6, <2>2, <2>3 DEF TimeoutAward
<1>7. CASE TimeoutPublish(j)
  <2>1. Minted' = Minted
    BY <1>7 DEF TimeoutPublish, Minted
  <2>2. CASE Fault
    BY <1>0, <1>1, <1>2, <1>3, <1>4, <1>5, <2>1, <2>2 DEF RewardInv, Potential, Numbers
  <2>3. CASE jobs' = Without(jobs, j)
    <3>1. j \notin PendingJobs'
      BY <2>3 DEF Without, Restrict, PendingJobs
    <3> QED
      BY <1>0, <1>1, <1>2, <1>4, <1>5, <2>1, <3>1 DEF RewardInv, Potential, Numbers
  <2> QED BY <1>7, <2>2, <2>3 DEF TimeoutPublish
<1>8. CASE StartTimeout(j) \/ TimeoutRead(j) \/ TimeoutSetWinner(j) \/ RetryTimeout(j)
  <2>1. rewards' = rewards
    BY <1>8 DEF StartTimeout, TimeoutRead, TimeoutSetWinner, RetryTimeout
  <2>2. Minted' = Minted
    BY <2>1 DEF Minted
  <2>3. j \in PendingJobs
    BY <1>0, <1>8 DEF StartTimeout, TimeoutRead, TimeoutSetWinner, RetryTimeout, Waiting,
       PendingJobs
  <2> QED
    BY <1>0, <1>1, <1>2, <1>4, <1>5, <2>2, <2>3 DEF RewardInv, Potential, Numbers
<1> QED BY <1>6, <1>7, <1>8 DEF Timeout

\* After a restart every job may run again, and has the restart for its cause.
LEMMA CrashRewards ==
  ASSUME TypeInv, TypeInv', Numbers, Numbers', RewardInv, Crash
  PROVE  RewardInv'
<1>1. /\ UNCHANGED <<rewards, raced>> /\ DOMAIN jobs' = DOMAIN jobs /\ creator'.pc = "idle"
      /\ calls' = [s \in Slots |-> IdleFrame]
  BY DEF Crash, IdleCreator
<1>2. Causes' = Causes + issued.job /\ issued'.job = issued.job
  BY FaultCauses DEF Crash
<1>3. Minted' = Minted /\ PendingCreator' = 0
  BY <1>1 DEF Minted, PendingCreator
<1>4. Cardinality(PendingCalls') = 0
  <2>1. \A s \in Slots : calls'[s].pc = "idle"
    BY <1>1 DEF IdleFrame
  <2>2. PendingCalls' = {}
    BY <2>1 DEF PendingCalls, PendingPC
  <2> QED BY <2>2, FS_EmptySet
<1>5. Cardinality(PendingJobs') <= issued.job
  <2>1. PICK n \in Nat : n = issued.job
    BY DEF Numbers
  <2>2. PICK P : P = PendingJobs'
    OBVIOUS
  <2>3. P \in SUBSET (1..n)
    BY <1>1, <2>1, <2>2 DEF PendingJobs, RewardInv
  <2>4. IsFiniteSet(1..n) /\ Cardinality(1..n) = n
    BY FS_Interval
  <2>5. Cardinality(P) <= Cardinality(1..n)
    BY <2>3, <2>4, FS_Subset
  <2> QED BY <2>1, <2>2, <2>4, <2>5
<1> QED BY <1>1, <1>2, <1>3, <1>4, <1>5 DEF RewardInv, Potential, Numbers

\* Every card that a match mints beyond the first has a cause of its own, however
\* many calls a player makes at once: RewardsBounded.
THEOREM RewardsCaused == Spec => []RewardsBounded
<1>1. Init => RewardInv
  <2> SUFFICES ASSUME Init PROVE RewardInv
    OBVIOUS
  <2>1. Minted = 0
    <3>1. PICK r : r = rewards
      OBVIOUS
    <3>2. \A p \in Players : r[p] = 0
      BY <3>1 DEF Init
    <3>3. SumFunctionOnSet(r, Players) = 0
      BY <3>2, PlayersFinite, SumZero
    <3> QED BY <3>1, <3>3 DEF Minted
  <2>2. PendingCalls = {} /\ PendingJobs = {}
    <3>1. \A s \in Slots : calls[s].pc = "idle"
      BY DEF Init, IdleFrame
    <3>2. DOMAIN jobs = {}
      BY DEF Init
    <3> QED BY <3>1, <3>2 DEF PendingCalls, PendingPC, PendingJobs
  <2>3. Cardinality(PendingCalls) = 0 /\ Cardinality(PendingJobs) = 0
    BY <2>2, FS_EmptySet
  <2>4. PendingCreator = 1 /\ Causes = 1
    BY DEF Init, PendingCreator, Causes
  <2>5. DOMAIN jobs \subseteq 1..issued.job
    BY DEF Init
  <2> QED BY <2>1, <2>3, <2>4, <2>5 DEF RewardInv, Potential
<1>2. TypeInv /\ TypeInv' /\ Numbers /\ Numbers' /\ RewardInv /\ [Next]_vars => RewardInv'
  <2> SUFFICES ASSUME TypeInv, TypeInv', Numbers, Numbers', RewardInv, [Next]_vars
               PROVE  RewardInv'
    OBVIOUS
  <2>1. CASE Create
    BY <2>1, CreateRewards
  <2>2. ASSUME NEW s \in Slots, Act(s) \/ Serve(s) PROVE RewardInv'
    BY <2>2, ActRewards, ServeRewards
  <2>3. ASSUME NEW j \in JobIds, Timeout(j) \/ RetryTimeout(j) PROVE RewardInv'
    BY <2>3, TimeoutRewards
  <2>4. CASE Crash
    BY <2>4, CrashRewards
  <2>5. CASE UNCHANGED vars
    <3>1. UNCHANGED <<calls, jobs, creator, rewards, issued, raced>>
      BY <2>5 DEF vars
    <3>2. PendingCalls' = PendingCalls /\ PendingJobs' = PendingJobs /\ Minted' = Minted
          /\ PendingCreator' = PendingCreator /\ Causes' = Causes
      BY <3>1 DEF PendingCalls, PendingJobs, Minted, PendingCreator, Causes
    <3> QED BY <3>1, <3>2 DEF RewardInv, Potential
  <2> QED BY <2>1, <2>2, <2>3, <2>4, <2>5 DEF Next
<1>3. Numbers /\ RewardInv => RewardsBounded
  BY DEF Numbers, RewardInv, Potential, Causes, RewardsBounded
<1> QED BY <1>1, <1>2, <1>3, Counted, TypeInvariance, PTL DEF Spec
=============================================================================
