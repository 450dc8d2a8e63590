------------------------------- MODULE Board -------------------------------
(***************************************************************************)
(* The board of a match, as the pure functions of MatchService compute it: *)
(* where a card may be put, what equipment adds to it, whom a skill hits   *)
(* and what an attack leaves.  A board is the sequence onBoard; a card on  *)
(* it has its token, position, equipment (NoCard: none) and its skills, a  *)
(* sequence of [type, value] with one entry per type.  An operator whose   *)
(* code draws a random number returns the set of its outcomes.             *)
(***************************************************************************)
EXTENDS Integers, Sequences, SequencesExt, Lists

CONSTANTS Cards,   \* the card tokens
          NoCard,  \* no card
          Kind,    \* card -> "MONSTER" or "EQUIPMENT"
          Cost,    \* card -> crystals
          Skills   \* card -> skills

Positions == 1..3
AttackTypes == {"MELEE", "RANGED", "MAGIC", "RANDOM"}
SkillTypes == AttackTypes \cup {"HP", "ARMOR"}
Skill == [type: SkillTypes, value: Nat]
BoardCard == [token: Cards, position: Positions, equipment: Cards \cup {NoCard},
              skills: Seq(Skill)]

ASSUME CardAssumption == /\ NoCard \notin Cards
                         /\ Kind \in [Cards -> {"MONSTER", "EQUIPMENT"}]
                         /\ Cost \in [Cards -> Nat]
                         /\ Skills \in [Cards -> Seq(Skill)]

\* Array.find: the first member that passes, as a set of at most one.
FirstOf(seq, Test(_)) ==
  LET i == SelectInSeq(seq, Test) IN IF i = 0 THEN {} ELSE {seq[i]}
Some(set) == CHOOSE x \in set : TRUE

CardsAt(board, position) ==
  LET there(c) == c.position = position IN FirstOf(board, there)

-----------------------------------------------------------------------------
(* putToBoard                                                              *)

\* A mutation of CanPut: the price is not asked.
CanPutOnCredit(crystal, card, board, position) ==
  LET found == CardsAt(board, position) IN
  /\ Kind[card] = "EQUIPMENT" => found # {} /\ Some(found).equipment = NoCard
  /\ Kind[card] = "MONSTER" => found = {}

\* validateCanPutCard, on the first card found at the position.
CanPut(crystal, card, board, position) ==
  LET found == CardsAt(board, position) IN
  /\ crystal >= Cost[card]
  /\ Kind[card] = "EQUIPMENT" => found # {} /\ Some(found).equipment = NoCard
  /\ Kind[card] = "MONSTER" => found = {}

\* combineCollectionSkills: values of a type add up, new types go to the end.
CombineSkills(skills, added) ==
  LET found(s) == LET same(a) == a.type = s.type IN FirstOf(added, same)
      raised(s) == IF found(s) = {} THEN s
                   ELSE [s EXCEPT !.value = @ + Some(found(s)).value]
      new == {a \in Skill : \A i \in 1..Len(skills) : skills[i].type # a.type}
  IN [i \in 1..Len(skills) |-> raised(skills[i])] \o Kept(added, new)

\* The ARMOR of a piece of equipment counts as HP.
ArmorAsHP(skills) ==
  [i \in 1..Len(skills) |->
     [skills[i] EXCEPT !.type = IF @ = "ARMOR" THEN "HP" ELSE @]]

\* putCardToPosition: a monster as it is, equipment as the card it is put on
\* with the added skills.
PutCard(card, board, position) ==
  IF Kind[card] = "EQUIPMENT"
  THEN LET on == Some(CardsAt(board, position)) IN
       [on EXCEPT !.equipment = card,
                  !.skills = CombineSkills(@, ArmorAsHP(Skills[card]))]
  ELSE [token |-> card, position |-> position, equipment |-> NoCard,
        skills |-> Skills[card]]

-----------------------------------------------------------------------------
(* confirmTurn                                                             *)

HP(card) == LET isHP(s) == s.type = "HP"
                found == FirstOf(card.skills, isHP)
            IN IF found = {} THEN 0 ELSE Some(found).value

\* Every monster of the seeded catalogue has HP.
ASSUME MonsterAssumption ==
  \A c \in Cards : Kind[c] = "MONSTER" => HP([skills |-> Skills[c]]) > 0

\* MELEE only from the front position, the others only from behind.
CanAttack(position, type) ==
  type \in AttackTypes /\ (type = "MELEE" <=> position = 1)

Diagonal(position) == IF position = 1 THEN 1 ELSE 5 - position

\* getTarget: the cards that the skill may pick.
Targets(position, type, board) ==
  CASE type = "MELEE"  -> CardsAt(board, 1)
    [] type = "MAGIC"  -> CardsAt(board, position)
    [] type = "RANGED" -> LET across == CardsAt(board, Diagonal(position)) IN
                          IF across # {} THEN across ELSE CardsAt(board, position)
    [] type = "RANDOM" -> {board[i] : i \in 1..Len(board)}

\* getDame: randomInt excludes its upper limit.
Damages(skill) ==
  IF skill.type = "RANDOM" THEN (skill.value \div 2)..((3 * skill.value + 1) \div 2)
                           ELSE {skill.value}

SubHP(card, damage) ==
  LET less(s) == IF s.type # "HP" THEN s
                 ELSE [s EXCEPT !.value = IF @ > damage THEN @ - damage ELSE 0]
  IN [card EXCEPT !.skills = [i \in 1..Len(@) |-> less(@[i])]]

\* Every card with the token of the target is hit.  (A mutation of Hit: the dead
\* stay.)
Struck(board, target, damage) ==
  [i \in 1..Len(board) |->
     IF board[i].token = target.token THEN SubHP(board[i], damage) ELSE board[i]]

\* The target is hit, and the dead leave the board.
Hit(board, target, damage) ==
  Kept(Struck(board, target, damage), {c \in BoardCard : HP(c) > 0})

\* castSkill.
CastSkill(card, skill, board) ==
  IF ~CanAttack(card.position, skill.type) \/ Targets(card.position, skill.type, board) = {}
  THEN {board}
  ELSE {Hit(board, t, d) : t \in Targets(card.position, skill.type, board),
                           d \in Damages(skill)}

\* The two loops of confirmTurn: what the skills of one card, and then all cards,
\* leave.  Leaving the inner loop when the board is empty changes nothing: no skill
\* finds a target on it.
CastSkills(card, board) ==
  LET after[i \in 0..Len(card.skills)] ==
        IF i = 0 THEN {board}
        ELSE UNION {CastSkill(card, card.skills[i], b) : b \in after[i - 1]}
  IN after[Len(card.skills)]

Attack(attackers, board) ==
  LET after[i \in 0..Len(attackers)] ==
        IF i = 0 THEN {board}
        ELSE UNION {CastSkills(attackers[i], b) : b \in after[i - 1]}
  IN after[Len(attackers)]
=============================================================================
