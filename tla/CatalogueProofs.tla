-------------------------- MODULE CatalogueProofs --------------------------
(* Theorems about Catalogue, for every list of cards, every number of       *)
(* chunks, and any number of draws, runs of the command and failures.       *)
EXTENDS Catalogue, SequenceTheorems, DataLemmas

-----------------------------------------------------------------------------
(* The list and its chunks                                                  *)

\* The list has finitely many cards.
LEMMA FiniteCards == IsFiniteSet(Cards) /\ Cards # {} /\ Cards \subseteq Card
<1>1. PICK n \in Nat : n = Len(List) /\ n # 0
  BY ListAssumption
<1>2. Cards = {List[i] : i \in 1..n} /\ List \in [1..n -> Card]
  BY <1>1, ListAssumption DEF Cards, Range
<1>3. IsFiniteSet(1..n)
  BY FS_Interval
<1>4. List \in Surjection(1..n, Cards)
  BY <1>2 DEF Surjection
<1>5. IsFiniteSet(Cards)
  <2> DEFINE D == 1..n
  <2>1. List \in Surjection(D, Cards) /\ IsFiniteSet(D)
    BY <1>3, <1>4
  <2> HIDE DEF D
  <2> QED BY <2>1, FS_Surjection
<1> QED BY <1>1, <1>2, <1>5

\* A finite set of numbers has a highest one.
LEMMA HighestNumber ==
  ASSUME NEW D \in SUBSET Card, IsFiniteSet(D), D # {}
  PROVE  /\ Highest(D) \in Nat
         /\ \A c \in D : c.end <= Highest(D)
         /\ \E c \in D : Highest(D) = c.end
<1> DEFINE E(s) == {c.end : c \in s}
           Top(s) == s # {} => \E m \in E(s) : \A k \in E(s) : k <= m
           G == {s \in SUBSET D : Top(s)}
<1>1. {} \in G
  OBVIOUS
<1>2. ASSUME NEW s \in SUBSET D, NEW x \in D, s \in G PROVE s \cup {x} \in G
  <2>1. E(s) \subseteq Nat /\ x.end \in Nat /\ E(s \cup {x}) = E(s) \cup {x.end}
    BY DEF Card
  <2>2. CASE s = {}
    BY <2>1, <2>2
  <2>3. CASE s # {}
    <3>1. PICK m \in E(s) : \A k \in E(s) : k <= m
      BY <1>2, <2>3
    <3> DEFINE t == IF m < x.end THEN x.end ELSE m
    <3>2. t \in E(s \cup {x}) /\ \A k \in E(s \cup {x}) : k <= t
      <4> HIDE DEF E
      <4> QED BY <2>1, <3>1
    <3> HIDE DEF t, E
    <3> QED BY <3>2
  <2> QED BY <2>2, <2>3
<1>3. G = SUBSET D
  <2>1. G \in SUBSET SUBSET D
    OBVIOUS
  <2> HIDE DEF G
  <2> QED BY <1>1, <1>2, <2>1, SetInduction
<1>4. Top(D)
  BY <1>3
<1>5. E(D) \subseteq Nat
  BY DEF Card
<1>6. Highest(D) = CHOOSE m \in E(D) : \A k \in E(D) : m >= k
  BY DEF Highest, Max
<1>7. PICK m \in E(D) : \A k \in E(D) : k <= m
  BY <1>4
<1>8. \E h \in E(D) : \A k \in E(D) : h >= k
  <2> HIDE DEF E
  <2> QED BY <1>5, <1>7
<1>9. Highest(D) \in E(D) /\ \A k \in E(D) : Highest(D) >= k
  <2> HIDE DEF E
  <2> QED BY <1>6, <1>8
<1>10. \A k \in E(D) : k <= Highest(D)
  <2> HIDE DEF E
  <2> QED BY <1>5, <1>9
<1> QED BY <1>5, <1>9, <1>10

\* A draw's highest number is not above that of the whole list.
LEMMA HighestOfSome ==
  ASSUME NEW D \in SUBSET Cards, D # {}
  PROVE  Highest(D) \in 0..Highest(Cards)
<1>1. IsFiniteSet(D)
  BY FiniteCards, FS_Subset
<1>2. Highest(D) \in Nat /\ Highest(Cards) \in Nat
  BY <1>1, FiniteCards, HighestNumber
<1>3. PICK c \in D : Highest(D) = c.end
  BY <1>1, FiniteCards, HighestNumber
<1>4. c.end <= Highest(Cards)
  BY FiniteCards, HighestNumber
<1> QED BY <1>2, <1>3, <1>4

\* There are enough chunks: the division is rounded up.
LEMMA EnoughChunks ==
  /\ PerJob \in Nat \ {0}
  /\ \A i \in 1..Len(List) : \E j \in 1..Jobs : (j - 1) * PerJob < i /\ i <= j * PerJob
<1>1. PICK L \in Nat \ {0}, J \in Nat \ {0} : L = Len(List) /\ J = Jobs
  BY ListAssumption, CatalogueBoundAssumption
<1>2. PICK P : P = PerJob
  OBVIOUS
<1>3. P = (L + J - 1) \div J
  BY <1>1, <1>2 DEF PerJob
<1>4. P \in Nat /\ J * P <= L + J - 1 /\ L + J - 1 < J * P + J
  BY <1>3
<1>5. P # 0
  BY <1>4
<1>6. ASSUME NEW i \in 1..L PROVE \E j \in 1..J : (j - 1) * P < i /\ i <= j * P
  <2>1. PICK q : q = (i - 1) \div P
    OBVIOUS
  <2>2. q \in Nat /\ P * q <= i - 1 /\ i - 1 < P * q + P
    BY <1>4, <1>5, <2>1
  <2>3. q < J
    <3> SUFFICES ASSUME J <= q PROVE FALSE
      BY <2>2
    <3>1. P * J <= P * q
      BY <1>4, <2>2
    <3> QED BY <1>4, <2>2, <3>1
  <2>4. q + 1 \in 1..J /\ (q + 1) - 1 = q /\ (q + 1) * P = P * q + P /\ q * P = P * q
    BY <1>4, <2>2, <2>3
  <2>5. ((q + 1) - 1) * P < i /\ i <= (q + 1) * P
    <3>1. P * q \in Int /\ i \in Int
      BY <1>4, <2>2
    <3> QED BY <1>4, <2>2, <2>4, <3>1
  <2> QED BY <2>4, <2>5
<1> QED BY <1>1, <1>2, <1>4, <1>5, <1>6

\* The chunks are lists of cards, and no card is left out of all.
LEMMA ChunksFact ==
  /\ \A j \in 1..Jobs : Chunk(j) \in Seq(Cards)
  /\ \A c \in Cards : \E j \in 1..Jobs : c \in Range(Chunk(j))
<1>1. PICK L \in Nat, J \in Nat, P \in Nat : L = Len(List) /\ J = Jobs /\ P = PerJob
  BY ListAssumption, CatalogueBoundAssumption, EnoughChunks
<1>2. /\ List \in [1..L -> Cards]
      /\ \A c \in Cards : \E i \in 1..L : List[i] = c
  BY <1>1, ListAssumption DEF Cards, Range
<1>3. ASSUME NEW j \in 1..J, NEW a, NEW b, a = (j - 1) * P + 1,
             b = IF j * P < L THEN j * P ELSE L
      PROVE  /\ Chunk(j) \in Seq(Cards)
             /\ \A i \in a..b : List[i] \in Range(Chunk(j))
  <2>1. Chunk(j) = SubSeq(List, a, b)
    BY <1>1, <1>3 DEF Chunk
  <2>2. a \in Nat \ {0} /\ b \in 0..L
    <3>1. (j - 1) * P \in Nat /\ j * P \in Nat
      BY <1>3
    <3> QED BY <1>3, <3>1
  <2>3. \A i \in a..b : List[i] \in Cards
    BY <1>2, <2>2
  <2>4. PICK c : c = SubSeq(List, a, b)
    OBVIOUS
  <2>5. /\ c \in Seq(Cards) /\ Len(c) = IF a <= b THEN b - a + 1 ELSE 0
        /\ \A k \in 1..(b - a + 1) : c[k] = List[a + k - 1]
    BY <2>2, <2>3, <2>4, SubSeqProperties
  <2>6. ASSUME NEW i \in a..b PROVE List[i] \in Range(c)
    <3>1. i - a + 1 \in 1..(b - a + 1) /\ a + (i - a + 1) - 1 = i /\ Len(c) = b - a + 1
      BY <2>2, <2>5
    <3>2. c[i - a + 1] = List[i]
      BY <2>5, <3>1
    <3>3. i - a + 1 \in DOMAIN c
      BY <2>5, <3>1
    <3> QED BY <3>2, <3>3 DEF Range
  <2> QED BY <2>1, <2>4, <2>5, <2>6
<1>4. ASSUME NEW c \in Cards PROVE \E j \in 1..J : c \in Range(Chunk(j))
  <2>1. PICK i \in 1..L : List[i] = c
    BY <1>2
  <2>2. PICK j \in 1..J : (j - 1) * P < i /\ i <= j * P
    BY <1>1, EnoughChunks
  <2>3. PICK x \in Nat, y \in Nat : x = (j - 1) * P /\ y = j * P
    OBVIOUS
  <2>4. PICK a, b : a = (j - 1) * P + 1 /\ b = IF j * P < L THEN j * P ELSE L
    OBVIOUS
  <2>5. i \in a..b
    BY <2>1, <2>2, <2>3, <2>4
  <2>6. List[i] \in Range(Chunk(j))
    BY <1>3, <2>4, <2>5
  <2> QED BY <2>1, <2>6
<1> QED BY <1>1, <1>3, <1>4

-----------------------------------------------------------------------------
(* The inductive invariant                                                  *)

\* While the chunks are seeded, a card is in the collection or still to come.
ComesOrIs ==
  command.pc = "seed" =>
    \A c \in Cards : c \in catalogue \/ \E j \in 1..Jobs : c \in Range(command.rest[j])

\* A run that has seeded all the chunks meets the whole list, and pins it.
ReadsWhole ==
  /\ command.pc \in {"read", "pin"} => catalogue = Cards
  /\ command.pc = "pin" => command.seen = Cards

Inv == TypeOK /\ PinnedWhole /\ ComesOrIs /\ ReadsWhole

\* The runs of the command, and the draws.
RunPC == {"idle", "delete", "seed", "failing", "read", "pin"}
Run == [pc: RunPC, rest: [1..Jobs -> Seq(Cards)], seen: SUBSET Cards]
DrawPC == {"idle", "max", "draw", "done", "rejected"}
Draw == [pc: DrawPC, want: Wants, maxInt: 0..Highest(Cards), card: Cards \cup {NoCard}]
Issued == [seed: 0..MaxSeeds, fault: 0..MaxFaults]

\* A command that does not run, and a draw that is not asked for.
LEMMA AtRest ==
  Idle \in Run /\ NoDraw \in Draw /\ NoDraw.card = NoCard /\ NoDraw.pc = "idle"
<1>1. <<>> \in Seq(Cards)
  OBVIOUS
<1>2. 0 \in 0..Highest(Cards)
  BY FiniteCards, HighestNumber
<1>3. (CHOOSE w \in Wants : TRUE) \in Wants
  BY WantAssumption
<1>4. Idle \in Run
  BY <1>1 DEF Idle, Run, RunPC
<1>5. NoDraw \in Draw /\ NoDraw.card = NoCard /\ NoDraw.pc = "idle"
  BY <1>2, <1>3 DEF NoDraw, Draw, DrawPC
<1> QED BY <1>4, <1>5

\* A failure is counted.
LEMMA FaultTyped ==
  ASSUME issued \in Issued, Fault \/ UNCHANGED issued
  PROVE  issued' \in Issued
<1>1. PICK a \in 0..MaxSeeds, b \in 0..MaxFaults : issued = [seed |-> a, fault |-> b]
  BY DEF Issued
<1>2. CASE Fault
  <2>1. b < MaxFaults /\ issued' = [seed |-> a, fault |-> b + 1]
    BY <1>1, <1>2 DEF Fault
  <2>2. b + 1 \in 0..MaxFaults
    BY <2>1, CatalogueBoundAssumption
  <2> QED BY <2>1, <2>2 DEF Issued
<1>3. CASE UNCHANGED issued
  BY <1>3
<1> QED BY <1>2, <1>3

\* One draw goes on.
LEMMA DrawTyped ==
  ASSUME Inv, UNCHANGED <<catalogue, factory, command>>, Fault \/ UNCHANGED issued,
         NEW d \in Callers, NEW f \in Draw, f.pc = "done" <=> f.card # NoCard,
         draws' = [draws EXCEPT ![d] = f]
  PROVE  Inv'
<1>1. issued' \in Issued
  BY FaultTyped DEF Inv, TypeOK, Issued
<1>2. draws' \in [Callers -> Draw]
  BY DEF Inv, TypeOK, Draw, DrawPC
<1>3. \A e \in Callers : draws'[e].pc = "done" <=> draws'[e].card # NoCard
  BY DEF Inv, TypeOK
<1>4. TypeOK'
  BY <1>1, <1>2, <1>3 DEF Inv, TypeOK, Draw, Issued, DrawPC
<1> QED BY <1>4 DEF Inv, PinnedWhole, ComesOrIs, ReadsWhole

\* The command goes on, and leaves the collection and the factory as they are.
LEMMA RunTyped ==
  ASSUME Inv, UNCHANGED <<catalogue, factory, draws>>, NEW r \in Run, command' = r,
         issued' \in Issued, ComesOrIs', ReadsWhole'
  PROVE  Inv'
<1>1. TypeOK'
  BY DEF Inv, TypeOK, Run, Issued, RunPC
<1> QED BY <1>1 DEF Inv, PinnedWhole

-----------------------------------------------------------------------------
(* The steps of a draw                                                      *)

\* A draw finds a card of the list, whatever part of it the collection holds by now.
LEMMA DrawSteps ==
  ASSUME Inv, NEW d \in Callers,
         \/ \E want \in Wants : BeginDraw(d, want)
         \/ ReadMax(d) \/ Take(d) \/ FindRejects(d) \/ Settle(d)
  PROVE  Inv'
<1>0. draws \in [Callers -> Draw]
  BY DEF Inv, TypeOK, Draw, DrawPC
<1>1. /\ draws[d] \in Draw /\ catalogue \subseteq Cards
      /\ draws[d].pc = "done" <=> draws[d].card # NoCard
  BY DEF Inv, TypeOK, Draw, DrawPC
<1>2. PICK p \in DrawPC, w \in Wants, m \in 0..Highest(Cards), c \in Cards \cup {NoCard} :
        draws[d] = [pc |-> p, want |-> w, maxInt |-> m, card |-> c]
  BY <1>1 DEF Draw, DrawPC
<1>3. CASE \E want \in Wants : BeginDraw(d, want)
  <2>1. PICK want \in Wants : BeginDraw(d, want)
    BY <1>3
  <2>2. PICK f : f = [NoDraw EXCEPT !.pc = "max", !.want = want]
    OBVIOUS
  <2>3. f \in Draw /\ f.pc = "max" /\ f.card = NoCard
    BY <2>2, AtRest DEF Draw, DrawPC
  <2>4. /\ UNCHANGED <<catalogue, factory, command, issued>>
        /\ draws' = [draws EXCEPT ![d] = f]
    BY <2>1, <2>2 DEF BeginDraw
  <2> QED BY <2>3, <2>4, DrawTyped
<1>4. CASE ReadMax(d)
  <2>1. draws[d].pc = "max" /\ UNCHANGED <<catalogue, factory, command>>
    BY <1>4 DEF ReadMax
  <2>2. CASE catalogue # {} /\ UNCHANGED issued
             /\ draws' = [draws EXCEPT ![d].pc = "draw", ![d].maxInt = Highest(catalogue)]
    <3>1. PICK h : h = Highest(catalogue)
      OBVIOUS
    <3>2. h \in 0..Highest(Cards)
      BY <1>1, <2>2, <3>1, HighestOfSome
    <3>3. PICK f : f = [pc |-> "draw", want |-> w, maxInt |-> h, card |-> c]
      OBVIOUS
    <3>4. f \in Draw /\ f.pc = "draw" /\ f.card = NoCard
      BY <1>1, <1>2, <2>1, <3>2, <3>3 DEF Draw, DrawPC
    <3>5. PICK e : e = [pc |-> "draw", want |-> w, maxInt |-> m, card |-> c]
      OBVIOUS
    <3>6. e = [draws[d] EXCEPT !.pc = "draw"] /\ f = [e EXCEPT !.maxInt = h]
      BY <1>2, <3>3, <3>5
    <3>7. draws' = [draws EXCEPT ![d] = f]
      BY <1>0, <2>2, <3>1, <3>6
    <3> QED BY <2>1, <2>2, <3>4, <3>7, DrawTyped
  <2>3. CASE draws' = [draws EXCEPT ![d].pc = "rejected"] /\ (Fault \/ UNCHANGED issued)
    <3>1. PICK f : f = [pc |-> "rejected", want |-> w, maxInt |-> m, card |-> c]
      OBVIOUS
    <3>2. f \in Draw /\ f.pc = "rejected" /\ f.card = NoCard
      BY <1>1, <1>2, <2>1, <3>1 DEF Draw, DrawPC
    <3>3. f = [draws[d] EXCEPT !.pc = "rejected"]
      BY <1>2, <3>1
    <3>4. draws' = [draws EXCEPT ![d] = f]
      BY <1>0, <2>3, <3>3
    <3> QED BY <2>1, <2>3, <3>2, <3>4, DrawTyped
  <2> QED BY <1>4, <2>2, <2>3 DEF ReadMax
<1>5. CASE Take(d)
  <2>1. PICK number \in 0..(draws[d].maxInt - 1) : \E x \in Found(number, draws[d].want) :
          draws' = [draws EXCEPT ![d].pc = "done", ![d].card = x]
    BY <1>5 DEF Take
  <2>2. PICK x \in Found(number, draws[d].want) :
          draws' = [draws EXCEPT ![d].pc = "done", ![d].card = x]
    BY <2>1
  <2>3. x \in Cards /\ x # NoCard
    BY <1>1, <2>2, WantAssumption DEF Found
  <2>4. PICK f : f = [pc |-> "done", want |-> w, maxInt |-> m, card |-> x]
    OBVIOUS
  <2>5. f \in Draw /\ f.pc = "done" /\ f.card # NoCard
    BY <2>3, <2>4 DEF Draw, DrawPC
  <2>6. PICK e : e = [pc |-> "done", want |-> w, maxInt |-> m, card |-> c]
    OBVIOUS
  <2>7. e = [draws[d] EXCEPT !.pc = "done"] /\ f = [e EXCEPT !.card = x]
    BY <1>2, <2>4, <2>6
  <2>8. draws' = [draws EXCEPT ![d] = f]
    BY <1>0, <2>2, <2>7
  <2>9. UNCHANGED <<catalogue, factory, command, issued>>
    BY <1>5 DEF Take
  <2> QED BY <2>5, <2>8, <2>9, DrawTyped
<1>6. CASE FindRejects(d)
  <2>1. PICK f : f = [pc |-> "rejected", want |-> w, maxInt |-> m, card |-> c]
    OBVIOUS
  <2>2. f \in Draw /\ f.pc = "rejected" /\ f.card = NoCard
    BY <1>1, <1>2, <1>6, <2>1 DEF Draw, FindRejects, DrawPC
  <2>3. f = [draws[d] EXCEPT !.pc = "rejected"]
    BY <1>2, <2>1
  <2>4. /\ UNCHANGED <<catalogue, factory, command>> /\ Fault
        /\ draws' = [draws EXCEPT ![d] = f]
    BY <1>0, <1>6, <2>3 DEF FindRejects
  <2> QED BY <2>2, <2>4, DrawTyped
<1>7. CASE Settle(d)
  <2>1. /\ UNCHANGED <<catalogue, factory, command, issued>>
        /\ draws' = [draws EXCEPT ![d] = NoDraw]
    BY <1>7 DEF Settle
  <2> QED BY <2>1, AtRest, DrawTyped
<1> QED BY <1>3, <1>4, <1>5, <1>6, <1>7

-----------------------------------------------------------------------------
(* The steps of the command                                                 *)

\* The collection is deleted, and the list is cut into chunks.
LEMMA DeleteSteps ==
  ASSUME Inv, DeleteAll
  PROVE  Inv'
<1>1. command \in Run /\ catalogue \subseteq Cards
  BY DEF Inv, TypeOK, Run, RunPC
<1>2. /\ command.pc = "delete" /\ UNCHANGED <<factory, draws, issued>>
      /\ catalogue' \in SUBSET catalogue
      /\ \/ /\ catalogue' = {}
            /\ command' = [Idle EXCEPT !.pc = "seed", !.rest = [j \in 1..Jobs |-> Chunk(j)]]
         \/ UNCHANGED command
  BY DEF DeleteAll
<1>3. CASE command' = [Idle EXCEPT !.pc = "seed", !.rest = [j \in 1..Jobs |-> Chunk(j)]]
  <2>1. command' = [pc |-> "seed", rest |-> [j \in 1..Jobs |-> Chunk(j)], seen |-> {}]
    BY <1>3 DEF Idle
  <2>2. command' \in Run
    BY <2>1, ChunksFact DEF Run, RunPC
  <2>3. TypeOK'
    BY <1>1, <1>2, <2>2 DEF Inv, TypeOK, Run, RunPC
  <2>4. ComesOrIs'
    <3>1. \A j \in 1..Jobs : command'.rest[j] = Chunk(j)
      BY <2>1
    <3> QED BY <3>1, ChunksFact DEF ComesOrIs
  <2> QED BY <1>2, <2>1, <2>3, <2>4 DEF Inv, PinnedWhole, ReadsWhole
<1>4. CASE UNCHANGED command
  <2>1. TypeOK'
    BY <1>1, <1>2, <1>4 DEF Inv, TypeOK
  <2> QED BY <1>2, <1>4, <2>1 DEF Inv, PinnedWhole, ComesOrIs, ReadsWhole
<1> QED BY <1>2, <1>3, <1>4

\* What a chunk has left is in its head or in its tail.
LEMMA HeadOrTail ==
  ASSUME NEW r \in Seq(Cards), r # <<>>
  PROVE  /\ Head(r) \in Cards /\ Tail(r) \in Seq(Cards)
         /\ \A c \in Range(r) : c = Head(r) \/ c \in Range(Tail(r))
<1>0. PICK t : t = Tail(r)
  OBVIOUS
<1>1. PICK n \in Nat : n = Len(r)
  OBVIOUS
<1>2. /\ Head(r) \in Cards /\ t \in Seq(Cards) /\ Len(t) = n - 1 /\ Head(r) = r[1]
      /\ \A i \in 1..(n - 1) : t[i] = r[i + 1]
  BY <1>0, <1>1, HeadTailProperties
<1>3. ASSUME NEW i \in 1..n, i # 1 PROVE r[i] \in Range(t)
  <2>1. i - 1 \in 1..(n - 1) /\ (i - 1) + 1 = i
    BY <1>1, <1>3
  <2>2. t[i - 1] = r[i] /\ i - 1 \in DOMAIN t
    BY <1>2, <2>1
  <2> QED BY <2>2 DEF Range
<1>4. ASSUME NEW c \in Range(r) PROVE \E i \in 1..n : c = r[i]
  BY <1>1 DEF Range
<1> QED BY <1>0, <1>2, <1>3, <1>4

\* A chunk saves its next card, or rejects.
LEMMA ChunkSteps ==
  ASSUME Inv, NEW j \in 1..Jobs, CreateCard(j) \/ ChunkRejects(j)
  PROVE  Inv'
<1>1. command \in Run /\ catalogue \subseteq Cards
  BY DEF Inv, TypeOK, Run, RunPC
<1>2. PICK p \in RunPC, rest \in [1..Jobs -> Seq(Cards)], seen \in SUBSET Cards :
        command = [pc |-> p, rest |-> rest, seen |-> seen]
  BY <1>1 DEF Run, RunPC
<1>3. p \in {"seed", "failing"} /\ rest[j] # <<>> /\ rest[j] \in Seq(Cards)
  BY <1>2 DEF CreateCard, ChunkRejects
<1>4. PICK card, tail : card = Head(rest[j]) /\ tail = Tail(rest[j])
  OBVIOUS
<1>5. /\ card \in Cards /\ tail \in Seq(Cards)
      /\ \A c \in Range(rest[j]) : c = card \/ c \in Range(tail)
  BY <1>3, <1>4, HeadOrTail
<1>6. CASE CreateCard(j)
  <2>1. PICK new : new = [rest EXCEPT ![j] = tail]
    OBVIOUS
  <2>2. new \in [1..Jobs -> Seq(Cards)]
    BY <1>5, <2>1
  <2>3. /\ catalogue' = catalogue \cup {card} /\ UNCHANGED <<factory, draws, issued>>
        /\ command' = [pc |-> p, rest |-> new, seen |-> seen]
    BY <1>2, <1>4, <1>6, <2>1 DEF CreateCard
  <2>4. TypeOK'
    <3>1. command' \in Run
      BY <1>3, <2>2, <2>3 DEF Run, RunPC
    <3> QED BY <1>1, <1>5, <2>3, <3>1 DEF Inv, TypeOK, Run, RunPC
  <2>5. ComesOrIs'
    <3> SUFFICES ASSUME p = "seed", NEW c \in Cards, c \notin catalogue, c # card
                 PROVE  \E i \in 1..Jobs : c \in Range(new[i])
      BY <2>3 DEF ComesOrIs
    <3>1. PICK i \in 1..Jobs : c \in Range(rest[i])
      BY <1>2 DEF Inv, ComesOrIs
    <3>2. CASE i = j
      BY <1>5, <2>1, <3>1, <3>2
    <3>3. CASE i # j
      BY <2>1, <3>1, <3>3
    <3> QED BY <3>2, <3>3
  <2> QED BY <1>3, <2>3, <2>4, <2>5 DEF Inv, PinnedWhole, ReadsWhole
<1>7. CASE ChunkRejects(j)
  <2>1. PICK new : new = [rest EXCEPT ![j] = <<>>]
    OBVIOUS
  <2>2. new \in [1..Jobs -> Seq(Cards)]
    BY <2>1
  <2>3. /\ catalogue' \in {catalogue, catalogue \cup {card}} /\ UNCHANGED <<factory, draws>>
        /\ command' = [pc |-> "failing", rest |-> new, seen |-> seen]
        /\ Fault \/ UNCHANGED issued
    BY <1>2, <1>4, <1>7, <2>1 DEF ChunkRejects
  <2>4. TypeOK'
    <3>1. command' \in Run
      BY <2>2, <2>3 DEF Run, RunPC
    <3>2. issued' \in Issued
      BY <2>3, FaultTyped DEF Inv, TypeOK, Issued
    <3> QED BY <1>1, <1>5, <2>3, <3>1, <3>2 DEF Inv, TypeOK, Run, Issued, RunPC
  <2> QED BY <2>3, <2>4 DEF Inv, PinnedWhole, ComesOrIs, ReadsWhole
<1> QED BY <1>6, <1>7

\* The command starts, ends, or passes from one await to the next.
LEMMA CommandSteps ==
  ASSUME Inv, Seed \/ Seeded \/ ReadAll \/ Pin \/ Exit \/ Interrupt
  PROVE  Inv'
<1>1. command \in Run /\ catalogue \subseteq Cards /\ issued \in Issued
  BY DEF Inv, TypeOK, Run, Issued, RunPC
<1>2. PICK p \in RunPC, rest \in [1..Jobs -> Seq(Cards)], seen \in SUBSET Cards :
        command = [pc |-> p, rest |-> rest, seen |-> seen]
  BY <1>1 DEF Run, RunPC
<1>3. CASE Seed
  <2>1. PICK r : r = [Idle EXCEPT !.pc = "delete"]
    OBVIOUS
  <2>2. r \in Run /\ r.pc = "delete"
    BY <2>1, AtRest DEF Run, RunPC
  <2>3. PICK a \in 0..MaxSeeds, b \in 0..MaxFaults : issued = [seed |-> a, fault |-> b]
    BY <1>1 DEF Issued
  <2>4. issued' \in Issued
    <3>1. a < MaxSeeds /\ issued' = [seed |-> a + 1, fault |-> b]
      BY <1>3, <2>3 DEF Seed
    <3>2. a + 1 \in 0..MaxSeeds
      BY <3>1, CatalogueBoundAssumption
    <3> QED BY <3>1, <3>2 DEF Issued
  <2>5. command' = r /\ UNCHANGED <<catalogue, factory, draws>>
    BY <1>3, <2>1 DEF Seed
  <2>6. ComesOrIs' /\ ReadsWhole'
    BY <2>2, <2>5 DEF ComesOrIs, ReadsWhole
  <2> QED BY <2>2, <2>4, <2>5, <2>6, RunTyped
<1>4. CASE Seeded
  <2>1. PICK r : r = [pc |-> "read", rest |-> rest, seen |-> seen]
    OBVIOUS
  <2>2. command' = r /\ r \in Run /\ UNCHANGED <<catalogue, factory, draws, issued>>
    BY <1>2, <1>4, <2>1 DEF Seeded, Run, RunPC
  <2>3. catalogue = Cards
    <3>1. ASSUME NEW c \in Cards, NEW j \in 1..Jobs, c \in Range(command.rest[j])
          PROVE  FALSE
      <4>1. command.rest[j] = <<>>
        BY <1>4 DEF Seeded
      <4> QED BY <3>1, <4>1 DEF Range
    <3> QED BY <1>1, <1>4, <3>1 DEF Inv, ComesOrIs, Seeded
  <2>4. ComesOrIs' /\ ReadsWhole'
    BY <2>1, <2>2, <2>3 DEF ComesOrIs, ReadsWhole
  <2> QED BY <1>1, <2>2, <2>4, RunTyped
<1>5. CASE ReadAll
  <2>1. PICK r : r = [pc |-> "pin", rest |-> rest, seen |-> catalogue]
    OBVIOUS
  <2>2. r \in Run
    BY <1>1, <2>1 DEF Run, RunPC
  <2>3. PICK e : e = [pc |-> "pin", rest |-> rest, seen |-> seen]
    OBVIOUS
  <2>4. e = [command EXCEPT !.pc = "pin"] /\ r = [e EXCEPT !.seen = catalogue]
    BY <1>2, <2>1, <2>3
  <2>5. command' = r /\ UNCHANGED <<catalogue, factory, draws, issued>>
    BY <1>5, <2>4 DEF ReadAll
  <2>6. catalogue = Cards
    BY <1>5 DEF Inv, ReadsWhole, ReadAll
  <2>7. ComesOrIs' /\ ReadsWhole'
    BY <2>1, <2>5, <2>6 DEF ComesOrIs, ReadsWhole
  <2> QED BY <1>1, <2>2, <2>5, <2>7, RunTyped
<1>6. CASE Pin
  <2>1. command.seen = Cards /\ factory \subseteq Cards /\ factory \in {{}, Cards}
    BY <1>6 DEF Inv, TypeOK, PinnedWhole, ReadsWhole, Pin
  <2>2. /\ factory' \in {factory, Cards} /\ command' = Idle
        /\ UNCHANGED <<catalogue, draws>>
        /\ Fault \/ UNCHANGED issued
    BY <1>6, <2>1 DEF Pin
  <2>3. issued' \in Issued
    BY <1>1, <2>2, FaultTyped
  <2>4. TypeOK'
    BY <2>1, <2>2, <2>3, AtRest DEF Inv, TypeOK, Run, Issued, RunPC
  <2> QED BY <2>1, <2>2, <2>4 DEF Inv, PinnedWhole, ComesOrIs, ReadsWhole, Idle
<1>7. CASE Exit \/ Interrupt
  <2>1. /\ command' = Idle /\ UNCHANGED <<catalogue, factory, draws>>
        /\ Fault \/ UNCHANGED issued
    BY <1>7 DEF Exit, Interrupt
  <2>2. issued' \in Issued
    BY <1>1, <2>1, FaultTyped
  <2>3. ComesOrIs' /\ ReadsWhole'
    BY <2>1 DEF ComesOrIs, ReadsWhole, Idle
  <2> QED BY <2>1, <2>2, <2>3, AtRest, RunTyped
<1> QED BY <1>3, <1>4, <1>5, <1>6, <1>7

-----------------------------------------------------------------------------
(* Theorems                                                                 *)

\* The invariant is inductive.
LEMMA Invariance == Spec => []Inv
<1>1. Init => Inv
  <2> SUFFICES ASSUME Init PROVE Inv
    OBVIOUS
  <2>1. TypeOK
    <3>1. draws \in [Callers -> Draw] /\ \A d \in Callers : draws[d] = NoDraw
      BY AtRest DEF Init
    <3>2. \A d \in Callers : draws[d].pc = "done" <=> draws[d].card # NoCard
      BY <3>1, AtRest
    <3>3. command \in Run
      BY AtRest DEF Init
    <3> QED BY <3>1, <3>2, <3>3, CatalogueBoundAssumption
           DEF Init, TypeOK, Run, Draw, RunPC, DrawPC
  <2> QED BY <2>1 DEF Init, Inv, PinnedWhole, ComesOrIs, ReadsWhole, Idle
<1>2. Inv /\ [Next]_vars => Inv'
  <2> SUFFICES ASSUME Inv, [Next]_vars PROVE Inv'
    OBVIOUS
  <2>1. CASE \E d \in Callers :
               \/ \E want \in Wants : BeginDraw(d, want)
               \/ ReadMax(d) \/ Take(d) \/ FindRejects(d) \/ Settle(d)
    BY <2>1, DrawSteps
  <2>2. CASE DeleteAll
    BY <2>2, DeleteSteps
  <2>3. CASE \E j \in 1..Jobs : CreateCard(j) \/ ChunkRejects(j)
    BY <2>3, ChunkSteps
  <2>4. CASE Seed \/ Seeded \/ ReadAll \/ Pin \/ Exit \/ Interrupt
    BY <2>4, CommandSteps
  <2>5. CASE UNCHANGED vars
    BY <2>5 DEF vars, Inv, TypeOK, PinnedWhole, ComesOrIs, ReadsWhole
  <2> QED BY <2>1, <2>2, <2>3, <2>4, <2>5 DEF Next, RunSeed
<1> QED BY <1>1, <1>2, PTL DEF Spec

\* The collection, the command and the draws are of their types: a draw's numbers end
\* within the list's, however much of the list the collection holds.
THEOREM TypeCorrect == Spec => []TypeOK
<1>1. Inv => TypeOK
  BY DEF Inv
<1> QED BY <1>1, Invariance, PTL

\* What card:seed pins is the whole list, for every length of the list and every number
\* of chunks: the chunks cover it, and one that rejects keeps the command from pinning.
THEOREM WholePinned == Spec => []PinnedWhole
<1>1. Inv => PinnedWhole
  BY DEF Inv
<1> QED BY <1>1, Invariance, PTL
=============================================================================
