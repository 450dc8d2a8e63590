----------------------------- MODULE CardProofs -----------------------------
(* Theorems about Card, for every number of players, tabs, names, levels,    *)
(* tokens, failures and restarts.                                            *)
EXTENDS Card, DataLemmas

USE CallAssumption, CardBoundAssumption

-----------------------------------------------------------------------------
(* The worth of a level                                                     *)

\* The recursion that defines Worth has a solution.
LEMMA WorthDefined == \E g : g = [l \in Levels |-> IF l = 1 THEN 1 ELSE 2 * g[l - 1]]
<1> DEFINE Solves(g, n) == g = [l \in 1..n |-> IF l = 1 THEN 1 ELSE 2 * g[l - 1]]
           G == {n \in Nat : \E g : Solves(g, n)}
<1>1. 0 \in G
  <2>1. Solves(<<>>, 0)
    OBVIOUS
  <2> QED BY <2>1
<1>2. ASSUME NEW n \in G PROVE n + 1 \in G
  <2>1. PICK g : Solves(g, n)
    OBVIOUS
  <2> DEFINE h == [l \in 1..(n + 1) |-> IF l = 1 THEN 1 ELSE 2 * g[l - 1]]
  <2>2. ASSUME NEW l \in 1..n PROVE h[l] = g[l]
    <3>1. l \in 1..(n + 1)
      OBVIOUS
    <3> QED BY <2>1, <3>1
  <2>3. ASSUME NEW l \in 1..(n + 1), l # 1 PROVE h[l] = 2 * h[l - 1]
    <3>1. l - 1 \in 1..n
      BY <2>3
    <3>2. h[l] = 2 * g[l - 1]
      BY <2>3
    <3> HIDE DEF h
    <3> QED BY <2>2, <3>1, <3>2
  <2>4. ASSUME NEW l \in 1..(n + 1) PROVE h[l] = IF l = 1 THEN 1 ELSE 2 * h[l - 1]
    <3>1. CASE l = 1
      BY <3>1
    <3>2. CASE l # 1
      <4> HIDE DEF h
      <4> QED BY <2>3, <3>2
    <3> QED BY <3>1, <3>2
  <2>5. h = [l \in 1..(n + 1) |-> h[l]]
    OBVIOUS
  <2> HIDE DEF h
  <2>6. Solves(h, n + 1)
    BY <2>4, <2>5
  <2> HIDE DEF Solves
  <2> QED BY <2>6
<1>3. G = Nat
  <2>1. G \in SUBSET Nat
    OBVIOUS
  <2> HIDE DEF G
  <2> QED BY <1>1, <1>2, <2>1, NumberInduction
<1>4. TopLevel \in G
  BY <1>3
<1> QED BY <1>4 DEF Levels

\* What a card is worth: one at the first level, twice as much at the next.
LEMMA WorthOf ==
  /\ Worth \in [Levels -> Int] /\ 1 \in Levels /\ Worth[1] = 1
  /\ \A l \in Levels : Worth[l] \in Nat
  /\ \A l \in Levels : l + 1 \in Levels => Worth[l + 1] = 2 * Worth[l]
<1>1. Worth = [l \in Levels |-> IF l = 1 THEN 1 ELSE 2 * Worth[l - 1]]
  BY WorthDefined DEF Worth
<1>2. \A l \in Levels : Worth[l] = IF l = 1 THEN 1 ELSE 2 * Worth[l - 1]
  BY <1>1
<1>3. 1 \in Levels
  BY DEF Levels
<1>4. \A l \in Levels : Worth[l] \in Nat
  <2> DEFINE G == {n \in Nat : n + 1 \in Levels => Worth[n + 1] \in Nat}
  <2>1. 0 \in G
    BY <1>2, <1>3
  <2>2. ASSUME NEW n \in G PROVE n + 1 \in G
    <3>1. SUFFICES ASSUME n + 2 \in Levels PROVE Worth[n + 2] \in Nat
      OBVIOUS
    <3>2. n + 1 \in Levels /\ n + 2 # 1 /\ (n + 2) - 1 = n + 1
      BY <3>1 DEF Levels
    <3>3. Worth[n + 2] = 2 * Worth[n + 1]
      BY <1>2, <3>1, <3>2
    <3> QED BY <3>2, <3>3
  <2>3. G = Nat
    <3>1. G \in SUBSET Nat
      OBVIOUS
    <3> HIDE DEF G
    <3> QED BY <2>1, <2>2, <3>1, NumberInduction
  <2>4. ASSUME NEW l \in Levels PROVE Worth[l] \in Nat
    <3>1. l - 1 \in Nat /\ (l - 1) + 1 = l
      BY DEF Levels
    <3> QED BY <2>3, <3>1
  <2> QED BY <2>4
<1>5. Worth \in [Levels -> Int]
  BY <1>1, <1>4
<1>6. ASSUME NEW l \in Levels, l + 1 \in Levels PROVE Worth[l + 1] = 2 * Worth[l]
  <2>1. l + 1 # 1 /\ (l + 1) - 1 = l
    BY DEF Levels
  <2> QED BY <1>2, <1>6, <2>1
<1> QED BY <1>2, <1>3, <1>4, <1>5, <1>6

-----------------------------------------------------------------------------
(* The worth of a collection of tokens                                      *)

\* The tokens under the ids that the contract gives.
TokensOK(col) == DOMAIN col \subseteq TokenIds /\ \A t \in DOMAIN col : col[t] \in Token

\* What they are worth together.
Value(col) == SumFunction([t \in DOMAIN col |-> Worth[col[t].level]])

LEMMA ValueFacts ==
  ASSUME NEW col, TokensOK(col)
  PROVE  /\ IsFiniteSet(DOMAIN col)
         /\ \A t \in DOMAIN col : col[t].level \in Levels /\ Worth[col[t].level] \in Int
         /\ Value(col) = SumFunctionOnSet([t \in DOMAIN col |-> Worth[col[t].level]], DOMAIN col)
         /\ Value(col) \in Int
<1>1. IsFiniteSet(DOMAIN col)
  <2>1. IsFiniteSet(TokenIds)
    <3>1. 1 \in Int /\ MaxTokens \in Int
      OBVIOUS
    <3> QED BY <3>1, FS_Interval DEF TokenIds
  <2> QED BY <2>1, FS_Subset DEF TokensOK
<1>2. \A t \in DOMAIN col : col[t].level \in Levels /\ Worth[col[t].level] \in Int
  BY WorthOf DEF TokensOK, Token
<1> DEFINE w == [t \in DOMAIN col |-> Worth[col[t].level]]
<1>3. Value(col) = SumFunctionOnSet(w, DOMAIN col)
  BY DEF Value, SumFunction
<1>4. \A t \in DOMAIN col : w[t] \in Int
  BY <1>2
<1> HIDE DEF w
<1>5. SumFunctionOnSet(w, DOMAIN col) \in Int
  BY <1>1, <1>4, SumInt
<1> QED BY <1>1, <1>2, <1>3, <1>5 DEF w

\* A card that is minted adds its worth.
LEMMA ValueMint ==
  ASSUME NEW col, TokensOK(col), NEW n \in TokenIds, n \notin DOMAIN col, NEW v \in Token
  PROVE  TokensOK(With(col, n, v)) /\ Value(With(col, n, v)) = Value(col) + Worth[v.level]
<1> DEFINE more == With(col, n, v)
           D == DOMAIN col
           w == [t \in D |-> Worth[col[t].level]]
           x == [t \in D \cup {n} |-> Worth[more[t].level]]
<1>1. DOMAIN more = D \cup {n} /\ more[n] = v /\ \A t \in D : more[t] = col[t]
  BY DEF With
<1>2. TokensOK(more)
  BY <1>1 DEF TokensOK
<1>3. Value(more) = SumFunctionOnSet(x, D \cup {n}) /\ Value(col) = SumFunctionOnSet(w, D)
  BY <1>1, <1>2, ValueFacts
<1>4. \A t \in D \cup {n} : x[t] \in Int
  <2> HIDE DEF more
  <2> QED BY <1>1, <1>2, ValueFacts
<1>5. x[n] = Worth[v.level] /\ \A t \in D : w[t] \in Int /\ x[t] = w[t]
  <2> HIDE DEF more
  <2> QED BY <1>1, ValueFacts
<1>6. IsFiniteSet(D)
  BY ValueFacts
<1> HIDE DEF x, w, more, D
<1>7. SumFunctionOnSet(x, D \cup {n}) = x[n] + SumFunctionOnSet(x, D)
  BY <1>4, <1>6, SumAdd DEF D
<1>8. SumFunctionOnSet(w, D) = SumFunctionOnSet(x, D)
  BY <1>5, <1>6, SumSame
<1>9. Value(more) = Value(col) + Worth[v.level]
  <2>1. Worth[v.level] \in Int /\ Value(col) \in Int
    BY WorthOf, ValueFacts DEF Token
  <2> QED BY <1>3, <1>5, <1>7, <1>8, <2>1
<1> QED BY <1>2, <1>9 DEF more

\* A card that is burned takes its worth with it.
LEMMA ValueBurn ==
  ASSUME NEW col, TokensOK(col), NEW a \in DOMAIN col, NEW less,
         less = [t \in DOMAIN col \ {a} |-> col[t]]
  PROVE  TokensOK(less) /\ Value(less) = Value(col) - Worth[col[a].level]
<1> DEFINE D == DOMAIN col
           w == [t \in D |-> Worth[col[t].level]]
           x == [t \in D \ {a} |-> Worth[less[t].level]]
<1>1. TokensOK(less) /\ DOMAIN less = D \ {a} /\ \A t \in D \ {a} : less[t] = col[t]
  BY DEF TokensOK
<1>2. Value(less) = SumFunctionOnSet(x, D \ {a}) /\ Value(col) = SumFunctionOnSet(w, D)
  BY <1>1, ValueFacts
<1>3. \A t \in D : w[t] \in Int
  BY ValueFacts
<1>4. w[a] = Worth[col[a].level] /\ \A t \in D \ {a} : w[t] \in Int /\ x[t] = w[t]
  BY <1>1, <1>3
<1>5. IsFiniteSet(D) /\ IsFiniteSet(D \ {a})
  BY ValueFacts, FS_RemoveElement
<1> HIDE DEF x, w
<1>6. SumFunctionOnSet(w, D) = w[a] + SumFunctionOnSet(w, D \ {a})
  BY <1>3, <1>5, SumRemove
<1>7. SumFunctionOnSet(w, D \ {a}) = SumFunctionOnSet(x, D \ {a})
  <2> DEFINE E == D \ {a}
  <2>1. IsFiniteSet(E) /\ \A t \in E : w[t] \in Int /\ x[t] = w[t]
    BY <1>4, <1>5
  <2> HIDE DEF E
  <2>2. SumFunctionOnSet(w, E) = SumFunctionOnSet(x, E)
    BY <2>1, SumSame
  <2> QED BY <2>2 DEF E
<1>8. Worth[col[a].level] \in Int /\ Value(less) \in Int
  BY <1>1, ValueFacts
<1> QED BY <1>1, <1>2, <1>4, <1>6, <1>7, <1>8

\* A card that changes hands stays worth what it was.
LEMMA ValueMove ==
  ASSUME NEW col, TokensOK(col), NEW moved, TokensOK(moved), DOMAIN moved = DOMAIN col,
         \A t \in DOMAIN col : moved[t].level = col[t].level
  PROVE  Value(moved) = Value(col)
<1>1. [t \in DOMAIN moved |-> Worth[moved[t].level]] = [t \in DOMAIN col |-> Worth[col[t].level]]
  OBVIOUS
<1> QED BY <1>1, ValueFacts

-----------------------------------------------------------------------------
(* Types                                                                    *)

Issued == [token: 0..MaxTokens, move: 0..MaxMoves, fault: 0..MaxFaults,
           costly: 0..MaxFaults, crash: 0..MaxCrashes]
Frame == [pc: CallPC, ids: SUBSET TokenIds,
          next: (Names \X Levels) \cup {<<>>}, moved: BOOLEAN]

\* The type invariant is inductive with the two facts that keep ids fresh and
\* the costly failures among the failures.
Fresh == DOMAIN tokens \subseteq 1..issued.token
Typed == TypeOK /\ issued.costly <= issued.fault /\ Fresh

LEMMA IssuedFields ==
  ASSUME Typed
  PROVE  /\ issued \in Issued
         /\ issued.token \in 0..MaxTokens /\ issued.move \in 0..MaxMoves
         /\ issued.fault \in 0..MaxFaults /\ issued.costly \in 0..issued.fault
         /\ issued.crash \in 0..MaxCrashes
BY DEF Typed, TypeOK, Issued

LEMMA CallFields ==
  ASSUME Typed, NEW s \in Slots
  PROVE  /\ calls \in [Slots -> Frame] /\ calls[s] \in Frame /\ s[1] \in Users
         /\ calls[s].pc \in CallPC /\ calls[s].ids \in SUBSET TokenIds
         /\ calls[s].next \in (Names \X Levels) \cup {<<>>} /\ calls[s].moved \in BOOLEAN
BY DEF Typed, TypeOK, Frame

\* The collection of tokens is well formed.
LEMMA TokensTyped == Typed => TokensOK(tokens)
BY DEF Typed, TypeOK, TokensOK

LEMMA Increments ==
  ASSUME Typed
  PROVE  /\ CanMint => /\ [issued EXCEPT !.token = @ + 1] \in Issued
                       /\ [issued EXCEPT !.token = @ + 1].token = issued.token + 1
         /\ \A c \in {0, 1}, m \in {0, 1} :
              issued.fault < MaxFaults /\ (m = 1 => CanMint) =>
                /\ Count(c, m) \in Issued
                /\ Count(c, m).token = issued.token + m
                /\ Count(c, m).fault = issued.fault + 1
                /\ Count(c, m).costly = issued.costly + c
                /\ Count(c, m).crash = issued.crash
         /\ issued.move < MaxMoves => [issued EXCEPT !.move = @ + 1] \in Issued
         /\ issued.crash < MaxCrashes => [issued EXCEPT !.crash = @ + 1] \in Issued
<1> USE IssuedFields
<1>1. CanMint => /\ [issued EXCEPT !.token = @ + 1] \in Issued
                 /\ [issued EXCEPT !.token = @ + 1].token = issued.token + 1
  BY DEF CanMint, Issued
<1>2. ASSUME NEW c \in {0, 1}, NEW m \in {0, 1}, issued.fault < MaxFaults, m = 1 => CanMint
      PROVE  /\ Count(c, m) \in Issued
             /\ Count(c, m).token = issued.token + m
             /\ Count(c, m).fault = issued.fault + 1
             /\ Count(c, m).costly = issued.costly + c
             /\ Count(c, m).crash = issued.crash
  <2>1. issued.token + m \in 0..MaxTokens
    BY <1>2 DEF CanMint
  <2>2. issued.fault + 1 \in 0..MaxFaults /\ issued.costly + c \in 0..MaxFaults
    BY <1>2
  <2> QED BY <2>1, <2>2 DEF Count, Issued
<1>3. issued.move < MaxMoves => [issued EXCEPT !.move = @ + 1] \in Issued
  BY DEF Issued
<1>4. issued.crash < MaxCrashes => [issued EXCEPT !.crash = @ + 1] \in Issued
  BY DEF Issued
<1> QED BY <1>1, <1>2, <1>3, <1>4

\* A frame that a call writes.
LEMMA FramesTyped ==
  ASSUME Typed, NEW s \in Slots
  PROVE  /\ Return(s) => calls' \in [Slots -> Frame]
         /\ \A p \in CallPC : Goto(s, p) => calls' \in [Slots -> Frame]
<1>1. calls \in [Slots -> Frame] /\ IdleFrame \in Frame
  BY CallFields DEF Frame, CallPC, IdleFrame
<1>2. Return(s) => calls' \in [Slots -> Frame]
  BY <1>1 DEF Return
<1>3. \A p \in CallPC : Goto(s, p) => calls' \in [Slots -> Frame]
  BY <1>1 DEF Goto, Frame
<1> QED BY <1>2, <1>3

LEMMA TallyTyped ==
  ASSUME Typed, NEW u \in Users
  PROVE  \A f \in {"paid", "refunded", "bought"} : Tally(u, f) => account' \in [Users -> Account]
<1>1. account \in [Users -> Account]
  BY DEF Typed, TypeOK
<1> QED BY <1>1 DEF Tally, Account

\* What safeMint adds to a well-formed collection.
LEMMA Minted ==
  ASSUME Typed, NEW u \in Users, NEW n \in Names, NEW l \in Levels, NEW count \in Issued,
         CanMint, count.token = issued.token + 1, SafeMint(u, n, l, count)
  PROVE  /\ issued' = count /\ Fresh'
         /\ DOMAIN tokens' = DOMAIN tokens \cup {count.token} /\ count.token \notin DOMAIN tokens
         /\ \A t \in DOMAIN tokens : tokens'[t] = tokens[t]
         /\ TokensOK(tokens')
         /\ Value(tokens') = Value(tokens) + Worth[l]
<1> DEFINE v == [owner |-> u, name |-> n, level |-> l]
           m == count.token
<1>1. v \in Token /\ v.level = l
  BY DEF Token
<1>2. m \in TokenIds /\ m \notin DOMAIN tokens
  BY IssuedFields DEF CanMint, TokenIds, Typed, Fresh
<1>3. issued' = count /\ tokens' = With(tokens, m, v)
  BY DEF SafeMint
<1>4. DOMAIN tokens' = DOMAIN tokens \cup {m} /\ \A t \in DOMAIN tokens : tokens'[t] = tokens[t]
  BY <1>2, <1>3 DEF With
<1>5. Fresh'
  BY <1>3, <1>4, IssuedFields DEF Typed, Fresh
<1> HIDE DEF v, m
<1>6. TokensOK(tokens') /\ Value(tokens') = Value(tokens) + Worth[l]
  BY <1>1, <1>2, <1>3, ValueMint, TokensTyped
<1> QED BY <1>2, <1>3, <1>4, <1>5, <1>6 DEF m

\* A card is minted with the next id, and nothing else of the counts is lost.
LEMMA TypedMint ==
  ASSUME Typed, NEW u \in Users, NEW n \in Names, NEW l \in Levels, NEW count \in Issued,
         CanMint, count.token = issued.token + 1, count.costly <= count.fault,
         SafeMint(u, n, l, count),
         account' \in [Users -> Account], given' \in Nat, calls' \in [Slots -> Frame]
  PROVE  Typed'
<1>1. issued' = count /\ Fresh' /\ TokensOK(tokens')
  BY Minted
<1> QED BY <1>1 DEF Typed, TypeOK, TokensOK, Issued, Frame

\* A call that is about to level up knows which card it makes.
Named == \A s \in Slots : calls[s].pc = "levelUp" => calls[s].next \in Names \X Levels

LEMMA NamedStep == Typed /\ Named /\ [Next]_vars => Named'
<1> SUFFICES ASSUME Typed, Named, [Next]_vars, NEW r \in Slots, calls'[r].pc = "levelUp"
             PROVE  calls'[r].next \in Names \X Levels
  BY DEF Named
<1>1. calls \in [Slots -> Frame]
  BY CallFields DEF Typed, TypeOK, Frame
<1>2. SUFFICES ASSUME ~ (calls'[r].pc = calls[r].pc /\ calls'[r].next = calls[r].next)
               PROVE  calls'[r].next \in Names \X Levels
  BY DEF Named
<1>3. ASSUME NEW s \in Slots, Return(s) PROVE FALSE
  BY <1>1, <1>2, <1>3 DEF Return, IdleFrame
<1>4. ASSUME NEW s \in Slots, NEW p \in CallPC \ {"levelUp"}, Goto(s, p) PROVE FALSE
  BY <1>1, <1>2, <1>4 DEF Goto, Frame
<1>5. ASSUME NEW s \in Slots, CheckOwner(s) PROVE FALSE
  <2>1. PICK a, b \in DOMAIN tokens :
          calls' = [calls EXCEPT ![s].pc = "readCards", ![s].ids = {a, b}]
    BY <1>5 DEF CheckOwner
  <2> QED BY <2>1, <1>1, <1>2 DEF Frame
<1>6. ASSUME NEW s \in Slots, ReadCards(s) PROVE calls'[r].next \in Names \X Levels
  <2>1. PICK next \in Combine(calls[s].ids) :
          calls' = [calls EXCEPT ![s].pc = "levelUp", ![s].next = next]
    BY <1>3, <1>6 DEF ReadCards
  <2>2. next \in Names \X Levels
    BY DEF Combine
  <2> QED BY <2>1, <2>2, <1>1, <1>2 DEF Frame
<1>7. ASSUME NEW t \in TokenIds, NEW u \in Users, MoveToken(t, u) PROVE FALSE
  BY <1>1, <1>2, <1>7 DEF MoveToken, Frame
<1>8. ~ Crash
  BY <1>1, <1>2 DEF Crash, IdleFrame
<1>9. ~ UNCHANGED calls
  BY <1>2
<1>10. ASSUME NEW s \in Slots, Pay(s) \/ Mint(s) \/ Refund(s) \/ LevelUp(s) PROVE FALSE
  BY <1>3, <1>4, <1>9, <1>10 DEF Pay, Mint, Refund, LevelUp, CallPC
<1>11. ASSUME NEW u \in Users, Award(u) \/ SeedToken(u) PROVE FALSE
  BY <1>9, <1>11 DEF Award, SeedToken
<1> QED BY <1>5, <1>6, <1>7, <1>8, <1>9, <1>10, <1>11 DEF Next, vars

\* The tokens a and b are the sacrifices of the call s, and its card is minted.
Combined(s, a, b) ==
  /\ a # b /\ calls[s].ids = {a, b}
  /\ DOMAIN tokens' = (DOMAIN tokens \ {a, b}) \cup {issued'.token}
  /\ \A t \in DOMAIN tokens \ {a, b} : tokens'[t] = tokens[t]
  /\ Value(tokens') = Value(tokens) - Worth[tokens[a].level] - Worth[tokens[b].level]
                     + Worth[calls[s].next[2]]

\* The sacrifices of a level-up are burned, then the card of the next level is
\* minted.
LEMMA LeveledUp ==
  ASSUME Typed, Named, NEW s \in Slots, LevelUp(s), ~ UNCHANGED tokens
  PROVE  /\ calls[s].pc = "levelUp" /\ CanMint /\ calls[s].next \in Names \X Levels
         /\ issued' = [issued EXCEPT !.token = @ + 1] /\ Return(s) /\ UNCHANGED <<account, given>>
         /\ Fresh' /\ TokensOK(tokens')
         /\ \E a, b \in DOMAIN tokens : Combined(s, a, b)
<1>1. /\ calls[s].pc = "levelUp" /\ CanMint /\ calls[s].ids \subseteq DOMAIN tokens
      /\ Cardinality(calls[s].ids) = 2 /\ issued' = [issued EXCEPT !.token = @ + 1]
      /\ Return(s) /\ UNCHANGED <<account, given>>
      /\ tokens' = With([t \in DOMAIN tokens \ calls[s].ids |-> tokens[t]], issued'.token,
                        [owner |-> s[1], name |-> calls[s].next[1], level |-> calls[s].next[2]])
  BY DEF LevelUp
<1>2. calls[s].next \in Names \X Levels /\ s[1] \in Users
  BY <1>1, CallFields DEF Named
<1>3. PICK a, b \in DOMAIN tokens : a # b /\ calls[s].ids = {a, b}
  <2> DEFINE S == calls[s].ids
  <2>1. IsFiniteSet(S) /\ Cardinality(S) = 2
    <3>1. IsFiniteSet(DOMAIN tokens)
      BY TokensTyped, ValueFacts
    <3> QED BY <3>1, <1>1, FS_Subset
  <2> HIDE DEF S
  <2>2. S # {}
    BY <2>1, FS_EmptySet
  <2>3. PICK a \in S : TRUE
    BY <2>2
  <2>4. IsFiniteSet(S \ {a}) /\ Cardinality(S \ {a}) = 1
    BY <2>1, <2>3, FS_RemoveElement
  <2>5. PICK b : S \ {a} = {b}
    BY <2>4, FS_Singleton
  <2>6. S = {a, b} /\ a # b
    BY <2>3, <2>5
  <2> QED BY <2>6, <1>1 DEF S
<1> DEFINE less == [t \in DOMAIN tokens \ {a} |-> tokens[t]]
           rest == [t \in DOMAIN less \ {b} |-> less[t]]
           v == [owner |-> s[1], name |-> calls[s].next[1], level |-> calls[s].next[2]]
           m == issued.token + 1
<1>4. TokensOK(less) /\ Value(less) = Value(tokens) - Worth[tokens[a].level]
  BY TokensTyped, ValueBurn
<1>5. b \in DOMAIN less /\ less[b] = tokens[b] /\ DOMAIN less = DOMAIN tokens \ {a}
      /\ \A t \in DOMAIN less : less[t] = tokens[t]
  BY <1>3
<1>6. TokensOK(rest) /\ Value(rest) = Value(less) - Worth[tokens[b].level]
  <2> HIDE DEF less
  <2> QED BY <1>4, <1>5, ValueBurn
<1>7. DOMAIN rest = DOMAIN tokens \ {a, b} /\ \A t \in DOMAIN rest : rest[t] = tokens[t]
  BY <1>3
<1>8. rest = [t \in DOMAIN tokens \ {a, b} |-> tokens[t]]
  <2> HIDE DEF less
  <2>1. DOMAIN less \ {b} = DOMAIN tokens \ {a, b}
    BY <1>5
  <2> QED BY <1>5, <2>1
<1>9. issued'.token = m /\ m \in TokenIds /\ m \notin DOMAIN tokens
  <2>1. issued'.token = m
    BY <1>1, Increments
  <2> QED BY <2>1, <1>1, IssuedFields DEF CanMint, TokenIds, Typed, Fresh
<1>10. v \in Token /\ v.level = calls[s].next[2]
  BY <1>2 DEF Token
<1>11. tokens' = With(rest, m, v)
  <2> HIDE DEF rest, v, m
  <2>1. tokens' = With([t \in DOMAIN tokens \ {a, b} |-> tokens[t]], issued'.token, v)
    BY <1>1, <1>3 DEF v
  <2> QED BY <2>1, <1>8, <1>9
<1> HIDE DEF less, rest, v, m
<1>12. m \notin DOMAIN rest
  BY <1>7, <1>9
<1>13. TokensOK(tokens') /\ Value(tokens') = Value(rest) + Worth[calls[s].next[2]]
  BY <1>6, <1>9, <1>10, <1>11, <1>12, ValueMint
<1>14. DOMAIN tokens' = (DOMAIN tokens \ {a, b}) \cup {m}
       /\ \A t \in DOMAIN tokens \ {a, b} : tokens'[t] = tokens[t]
  BY <1>7, <1>9, <1>11 DEF With
<1>15. Fresh'
  BY <1>9, <1>14, IssuedFields DEF Typed, Fresh, m
<1>16. Value(tokens') = Value(tokens) - Worth[tokens[a].level] - Worth[tokens[b].level]
                      + Worth[calls[s].next[2]]
  BY <1>4, <1>6, <1>13
<1>17. /\ a # b /\ calls[s].ids = {a, b}
       /\ DOMAIN tokens' = (DOMAIN tokens \ {a, b}) \cup {issued'.token}
       /\ \A t \in DOMAIN tokens \ {a, b} : tokens'[t] = tokens[t]
       /\ Fresh' /\ TokensOK(tokens')
  BY <1>3, <1>9, <1>13, <1>14, <1>15
<1>18. Combined(s, a, b)
  BY <1>16, <1>17 DEF Combined
<1> QED BY <1>1, <1>2, <1>17, <1>18

LEMMA TypedStep == Typed /\ Named /\ [Next]_vars => Typed'
<1> SUFFICES ASSUME Typed, Named, [Next]_vars PROVE Typed'
  OBVIOUS
<1>0. /\ account \in [Users -> Account] /\ given \in Nat /\ calls \in [Slots -> Frame]
      /\ issued \in Issued /\ TokensOK(tokens)
      /\ issued.costly <= issued.fault /\ issued.fault \in Nat /\ issued.costly \in Nat
  BY IssuedFields, TokensTyped, CallFields DEF Typed, TypeOK, Frame
<1>a. ASSUME UNCHANGED tokens, account' \in [Users -> Account], given' \in Nat,
             calls' \in [Slots -> Frame], issued' \in Issued, issued'.token = issued.token,
             issued'.costly <= issued'.fault
      PROVE  Typed'
  BY <1>a, <1>0 DEF Typed, TypeOK, TokensOK, Fresh, Issued, Frame
<1>b. Fault \/ CostlyFault => /\ issued' \in Issued /\ issued'.token = issued.token
                             /\ issued'.costly <= issued'.fault
  <2>1. Fault => issued.fault < MaxFaults /\ issued' = Count(0, 0)
    BY DEF Fault
  <2>2. CostlyFault => issued.fault < MaxFaults /\ issued' = Count(1, 0)
    BY DEF CostlyFault
  <2> QED BY <2>1, <2>2, <1>0, Increments, IssuedFields
<1>1. ASSUME NEW s \in Slots, Pay(s) PROVE Typed'
  <2>1. UNCHANGED tokens /\ given' \in Nat
    BY <1>1, <1>0 DEF Pay
  <2>2. account' \in [Users -> Account]
    BY <1>1, <1>0, TallyTyped, CallFields DEF Pay
  <2>3. calls' \in [Slots -> Frame]
    BY <1>1, <1>0, FramesTyped DEF Pay, CallPC
  <2>4. /\ issued' \in Issued /\ issued'.token = issued.token
        /\ issued'.costly <= issued'.fault
    BY <1>1, <1>0, <1>b DEF Pay
  <2> QED BY <2>1, <2>2, <2>3, <2>4, <1>a
<1>2. ASSUME NEW s \in Slots, Mint(s) PROVE Typed'
  <2>1. s[1] \in Users /\ 1 \in Levels /\ given' \in Nat /\ CanMint
    BY <1>2, <1>0, CallFields DEF Mint, Levels
  <2>2. calls' \in [Slots -> Frame]
    BY <1>2, FramesTyped DEF Mint, CallPC
  <2>3. CASE /\ \E n \in Names : SafeMint(s[1], n, 1, [issued EXCEPT !.token = @ + 1])
             /\ Tally(s[1], "bought")
    <3>1. account' \in [Users -> Account]
      BY <2>1, <2>3, TallyTyped
    <3>2. PICK n \in Names : SafeMint(s[1], n, 1, [issued EXCEPT !.token = @ + 1])
      BY <2>3
    <3>3. [issued EXCEPT !.token = @ + 1] \in Issued /\ [issued EXCEPT !.token = @ + 1].token = issued.token + 1
          /\ [issued EXCEPT !.token = @ + 1].costly <= [issued EXCEPT !.token = @ + 1].fault
      BY <2>1, <1>0, Increments DEF Issued
    <3> QED BY <2>1, <2>2, <3>1, <3>2, <3>3, TypedMint
  <2>4. CASE Fault /\ UNCHANGED <<tokens, account>>
    BY <2>1, <2>2, <2>4, <1>0, <1>a, <1>b
  <2>5. CASE /\ issued.fault < MaxFaults
             /\ \E n \in Names : SafeMint(s[1], n, 1, Count(1, 1))
             /\ Tally(s[1], "bought")
    <3>1. account' \in [Users -> Account]
      BY <2>1, <2>5, TallyTyped
    <3>2. PICK n \in Names : SafeMint(s[1], n, 1, Count(1, 1))
      BY <2>5
    <3>3. Count(1, 1) \in Issued /\ Count(1, 1).token = issued.token + 1
          /\ Count(1, 1).costly <= Count(1, 1).fault
      BY <2>1, <2>5, <1>0, Increments
    <3> QED BY <2>1, <2>2, <3>1, <3>2, <3>3, TypedMint
  <2> QED BY <1>2, <2>3, <2>4, <2>5 DEF Mint
<1>3. ASSUME NEW s \in Slots, Refund(s) PROVE Typed'
  <2>1. UNCHANGED tokens /\ given' \in Nat
    BY <1>3, <1>0 DEF Refund
  <2>2. account' \in [Users -> Account]
    BY <1>3, <1>0, TallyTyped, CallFields DEF Refund
  <2>3. calls' \in [Slots -> Frame]
    BY <1>3, FramesTyped DEF Refund
  <2>4. /\ issued' \in Issued /\ issued'.token = issued.token
        /\ issued'.costly <= issued'.fault
    BY <1>3, <1>0, <1>b DEF Refund
  <2> QED BY <2>1, <2>2, <2>3, <2>4, <1>a
<1>4. ASSUME NEW s \in Slots, CheckOwner(s) PROVE Typed'
  <2>1. PICK a, b \in DOMAIN tokens :
          calls' = [calls EXCEPT ![s].pc = "readCards", ![s].ids = {a, b}]
    BY <1>4 DEF CheckOwner
  <2>2. {a, b} \in SUBSET TokenIds
    BY <1>0 DEF TokensOK
  <2>3. calls' \in [Slots -> Frame]
    <3> DEFINE ids == {a, b}
               g == [calls[s] EXCEPT !.pc = "readCards", !.ids = ids]
    <3>2. calls' = [calls EXCEPT ![s] = g]
      BY <2>1
    <3>3. g \in Frame
      <4>1. calls[s] \in Frame /\ "readCards" \in CallPC /\ ids \in SUBSET TokenIds
        BY <2>2, <1>0 DEF CallPC
      <4> HIDE DEF ids
      <4> QED BY <4>1 DEF Frame
    <3> HIDE DEF g
    <3> QED BY <3>2, <3>3, <1>0
  <2>4. UNCHANGED <<tokens, account, given, issued>>
    BY <1>4 DEF CheckOwner
  <2> QED BY <2>3, <2>4, <1>0, <1>a
<1>5. ASSUME NEW s \in Slots, ReadCards(s) PROVE Typed'
  <2>1. UNCHANGED <<tokens, account, given, issued>>
    BY <1>5 DEF ReadCards
  <2>2. CASE Return(s)
    BY <2>1, <2>2, <1>0, <1>a, FramesTyped
  <2>3. CASE \E next \in Combine(calls[s].ids) :
               calls' = [calls EXCEPT ![s].pc = "levelUp", ![s].next = next]
    <3>1. PICK next \in Combine(calls[s].ids) :
            calls' = [calls EXCEPT ![s].pc = "levelUp", ![s].next = next]
      BY <2>3
    <3>2. next \in Names \X Levels
      BY DEF Combine
    <3>3. calls' \in [Slots -> Frame]
      <4> DEFINE g == [calls[s] EXCEPT !.pc = "levelUp", !.next = next]
      <4>1. calls' = [calls EXCEPT ![s] = g]
        BY <3>1
      <4>2. g \in Frame
        <5>1. calls[s] \in Frame /\ "levelUp" \in CallPC /\ next \in (Names \X Levels) \cup {<<>>}
          BY <3>2, <1>0 DEF CallPC
        <5> QED BY <5>1 DEF Frame
      <4> HIDE DEF g
      <4> QED BY <4>1, <4>2, <1>0
    <3> QED BY <2>1, <3>3, <1>0, <1>a
  <2> QED BY <1>5, <2>2, <2>3 DEF ReadCards
<1>6. ASSUME NEW s \in Slots, LevelUp(s) PROVE Typed'
  <2>1. calls' \in [Slots -> Frame] /\ UNCHANGED <<account, given>>
    BY <1>6, FramesTyped DEF LevelUp
  <2>2. CASE UNCHANGED tokens
    <3>1. /\ issued' \in Issued /\ issued'.token = issued.token
          /\ issued'.costly <= issued'.fault
      <4>1. CASE Fault \/ UNCHANGED issued
        BY <4>1, <1>0, <1>b
      <4>2. CASE issued' = [issued EXCEPT !.token = @ + 1]
                 /\ tokens' = With([t \in DOMAIN tokens \ calls[s].ids |-> tokens[t]], issued'.token,
                        [owner |-> s[1], name |-> calls[s].next[1], level |-> calls[s].next[2]])
        <5>1. issued'.token \in DOMAIN tokens'
          BY <4>2 DEF With
        <5>2. issued.token + 1 \in DOMAIN tokens
          BY <5>1, <4>2, <2>2, IssuedFields DEF Issued
        <5> QED BY <5>2, IssuedFields DEF Typed, Fresh
      <4> QED BY <1>6, <4>1, <4>2 DEF LevelUp
    <3> QED BY <2>1, <2>2, <3>1, <1>0, <1>a
  <2>3. CASE ~ UNCHANGED tokens
    <3>1. CanMint /\ issued' = [issued EXCEPT !.token = @ + 1] /\ Fresh' /\ TokensOK(tokens')
      BY <1>6, <2>3, LeveledUp
    <3>2. issued' \in Issued /\ issued'.costly <= issued'.fault
      BY <3>1, <1>0, Increments DEF Issued
    <3> QED BY <2>1, <3>1, <3>2, <1>0 DEF Typed, TypeOK, TokensOK, Issued, Frame
  <2> QED BY <2>2, <2>3
<1>7. ASSUME NEW u \in Users, Award(u) PROVE Typed'
  <2>1. 1 \in Levels /\ given' \in Nat /\ CanMint /\ UNCHANGED <<account, calls>>
    BY <1>7, <1>0 DEF Award, Levels
  <2>2. PICK n \in Names : SafeMint(u, n, 1, [issued EXCEPT !.token = @ + 1])
    BY <1>7 DEF Award
  <2>3. [issued EXCEPT !.token = @ + 1] \in Issued /\ [issued EXCEPT !.token = @ + 1].token = issued.token + 1
        /\ [issued EXCEPT !.token = @ + 1].costly <= [issued EXCEPT !.token = @ + 1].fault
    BY <2>1, <1>0, Increments DEF Issued
  <2> QED BY <2>1, <2>2, <2>3, <1>0, TypedMint
<1>8. ASSUME NEW u \in Users, SeedToken(u) PROVE Typed'
  <2>1. CanMint /\ UNCHANGED <<account, calls>>
    BY <1>8 DEF SeedToken
  <2>2. PICK n \in Names, l \in Levels : /\ SafeMint(u, n, l, [issued EXCEPT !.token = @ + 1])
                                        /\ given' = given + Worth[l]
    BY <1>8 DEF SeedToken
  <2>3. [issued EXCEPT !.token = @ + 1] \in Issued /\ [issued EXCEPT !.token = @ + 1].token = issued.token + 1
        /\ [issued EXCEPT !.token = @ + 1].costly <= [issued EXCEPT !.token = @ + 1].fault
    BY <2>1, <1>0, Increments DEF Issued
  <2>4. given' \in Nat
    BY <2>2, <1>0, WorthOf
  <2> QED BY <2>1, <2>2, <2>3, <2>4, <1>0, TypedMint
<1>9. ASSUME NEW t \in TokenIds, NEW u \in Users, MoveToken(t, u) PROVE Typed'
  <2>1. /\ t \in DOMAIN tokens /\ tokens' = [tokens EXCEPT ![t].owner = u]
        /\ issued.move < MaxMoves /\ issued' = [issued EXCEPT !.move = @ + 1]
        /\ UNCHANGED <<account, given>>
    BY <1>9 DEF MoveToken
  <2>2. TokensOK(tokens') /\ DOMAIN tokens' = DOMAIN tokens
    BY <2>1, <1>0 DEF TokensOK, Token
  <2>3. calls' \in [Slots -> Frame]
    BY <1>9, <1>0 DEF MoveToken, Frame
  <2>4. issued' \in Issued /\ issued'.token = issued.token /\ issued'.costly <= issued'.fault
    BY <2>1, <1>0, Increments DEF Issued
  <2> QED BY <2>1, <2>2, <2>3, <2>4, <1>0 DEF Typed, TypeOK, TokensOK, Fresh, Issued, Frame
<1>10. CASE Crash
  <2>1. issued.crash < MaxCrashes /\ issued' = [issued EXCEPT !.crash = @ + 1]
        /\ UNCHANGED <<tokens, account, given>> /\ calls' = [s \in Slots |-> IdleFrame]
    BY <1>10 DEF Crash
  <2>2. calls' \in [Slots -> Frame]
    BY <2>1 DEF Frame, IdleFrame, CallPC
  <2>3. issued' \in Issued /\ issued'.token = issued.token /\ issued'.costly <= issued'.fault
    BY <2>1, <1>0, Increments DEF Issued
  <2> QED BY <2>1, <2>2, <2>3, <1>0, <1>a
<1>11. CASE UNCHANGED vars
  BY <1>11 DEF vars, Typed, TypeOK, Fresh
<1> QED BY <1>1, <1>2, <1>3, <1>4, <1>5, <1>6, <1>7, <1>8, <1>9, <1>10, <1>11 DEF Next

-----------------------------------------------------------------------------
(* What a call in flight knows of its sacrifices                            *)

\* The sacrifices that are still there are the caller's, unless one was moved
\* after the ownership was read, and the card to make is their next level.
FrameOK(s) ==
  LET f == calls[s]
      there == f.ids \cap DOMAIN tokens
  IN /\ f.ids \subseteq 1..issued.token
     /\ f.pc \in {"readCards", "levelUp"} /\ ~f.moved => \A t \in there : tokens[t].owner = s[1]
     /\ f.pc = "levelUp" => \A t \in there : /\ tokens[t].name = f.next[1]
                                            /\ tokens[t].level + 1 = f.next[2]
Frames == \A s \in Slots : FrameOK(s)

\* Ids are never given twice; a token that is there keeps its name, its level
\* and, unless it is moved, its owner.
LEMMA TokensStay ==
  ASSUME Typed, Named, Next
  PROVE  /\ issued'.token >= issued.token
         /\ \A t \in DOMAIN tokens' : \/ t = issued.token + 1 /\ t \notin DOMAIN tokens
                                     \/ /\ t \in DOMAIN tokens
                                        /\ tokens'[t].name = tokens[t].name
                                        /\ tokens'[t].level = tokens[t].level
                                        /\ \/ tokens'[t].owner = tokens[t].owner
                                           \/ \E u \in Users : MoveToken(t, u)
<1> DEFINE Stay == /\ issued'.token >= issued.token
                   /\ \A t \in DOMAIN tokens' : \/ t = issued.token + 1 /\ t \notin DOMAIN tokens
                                     \/ /\ t \in DOMAIN tokens
                                        /\ tokens'[t].name = tokens[t].name
                                        /\ tokens'[t].level = tokens[t].level
                                        /\ \/ tokens'[t].owner = tokens[t].owner
                                           \/ \E u \in Users : MoveToken(t, u)
<1>0. issued \in Issued /\ issued.token \in Nat
  BY IssuedFields
<1>a. ASSUME UNCHANGED tokens, issued'.token = issued.token PROVE Stay
  BY <1>a, <1>0
<1>b. ASSUME NEW u \in Users, NEW n \in Names, NEW l \in Levels, NEW count \in Issued, CanMint,
             count.token = issued.token + 1, SafeMint(u, n, l, count)
      PROVE  Stay
  <2>1. /\ issued' = count
        /\ DOMAIN tokens' = DOMAIN tokens \cup {count.token} /\ count.token \notin DOMAIN tokens
        /\ \A t \in DOMAIN tokens : tokens'[t] = tokens[t]
    BY <1>b, Minted
  <2>2. issued'.token >= issued.token
    BY <2>1, <1>b, <1>0
  <2> QED BY <2>1, <2>2, <1>b
<1>c. CanMint => /\ [issued EXCEPT !.token = @ + 1] \in Issued
                 /\ [issued EXCEPT !.token = @ + 1].token = issued.token + 1
  BY Increments
<1>d. Fault \/ CostlyFault => issued'.token = issued.token
  <2>1. Fault => issued.fault < MaxFaults /\ issued' = Count(0, 0)
    BY DEF Fault
  <2>2. CostlyFault => issued.fault < MaxFaults /\ issued' = Count(1, 0)
    BY DEF CostlyFault
  <2> QED BY <2>1, <2>2, <1>0, Increments
<1> SUFFICES Stay
  OBVIOUS
<1> HIDE DEF Stay
<1>1. ASSUME NEW s \in Slots, Pay(s) \/ Refund(s) \/ CheckOwner(s) \/ ReadCards(s) PROVE Stay
  <2>1. UNCHANGED tokens /\ (UNCHANGED issued \/ Fault \/ CostlyFault)
    <3>1. CASE CheckOwner(s) \/ ReadCards(s)
      BY <3>1 DEF CheckOwner, ReadCards
    <3>2. CASE Pay(s) \/ Refund(s)
      BY <3>2 DEF Pay, Refund
    <3> QED BY <1>1, <3>1, <3>2
  <2> QED BY <2>1, <1>a, <1>d
<1>2. ASSUME NEW s \in Slots, Mint(s) PROVE Stay
  <2>1. s[1] \in Users /\ 1 \in Levels /\ CanMint
    BY <1>2, CallFields DEF Mint, Levels
  <2>2. CASE \E n \in Names : SafeMint(s[1], n, 1, [issued EXCEPT !.token = @ + 1])
    BY <2>1, <2>2, <1>b, <1>c
  <2>3. CASE Fault /\ UNCHANGED tokens
    BY <2>3, <1>a, <1>d
  <2>4. CASE issued.fault < MaxFaults /\ \E n \in Names : SafeMint(s[1], n, 1, Count(1, 1))
    <3>1. Count(1, 1) \in Issued /\ Count(1, 1).token = issued.token + 1
      BY <2>1, <2>4, Increments
    <3> QED BY <2>1, <2>4, <3>1, <1>b
  <2> QED BY <1>2, <2>2, <2>3, <2>4 DEF Mint
<1>3. ASSUME NEW s \in Slots, LevelUp(s) PROVE Stay
  <2>1. CASE UNCHANGED tokens
    <3>1. \/ Fault \/ UNCHANGED issued
          \/ CanMint /\ issued' = [issued EXCEPT !.token = @ + 1]
      BY <1>3 DEF LevelUp
    <3>2. issued'.token >= issued.token
      <4>1. CASE Fault \/ UNCHANGED issued
        BY <4>1, <1>d, <1>0
      <4>2. CASE CanMint /\ issued' = [issued EXCEPT !.token = @ + 1]
        <5>1. issued'.token = issued.token + 1
          BY <4>2, <1>c
        <5> QED BY <5>1, <1>0
      <4> QED BY <3>1, <4>1, <4>2
    <3> QED BY <2>1, <3>2 DEF Stay
  <2>2. CASE ~ UNCHANGED tokens
    <3>1. CanMint /\ issued' = [issued EXCEPT !.token = @ + 1]
      BY <1>3, <2>2, LeveledUp
    <3>2. issued'.token = issued.token + 1 /\ issued.token + 1 \notin DOMAIN tokens
      BY <3>1, <1>0, <1>c DEF Typed, Fresh
    <3>3. PICK a, b \in DOMAIN tokens : Combined(s, a, b)
      BY <1>3, <2>2, LeveledUp
    <3>4. /\ DOMAIN tokens' = (DOMAIN tokens \ {a, b}) \cup {issued'.token}
          /\ \A t \in DOMAIN tokens \ {a, b} : tokens'[t] = tokens[t]
      BY <3>3 DEF Combined
    <3> QED BY <3>2, <3>4, <1>0 DEF Stay
  <2> QED BY <2>1, <2>2
<1>4. ASSUME NEW u \in Users, Award(u) \/ SeedToken(u) PROVE Stay
  <2>1. CanMint /\ \E n \in Names, l \in Levels : SafeMint(u, n, l, [issued EXCEPT !.token = @ + 1])
    BY <1>4, WorthOf DEF Award, SeedToken
  <2> QED BY <2>1, <1>b, <1>c
<1>5. ASSUME NEW t \in TokenIds, NEW u \in Users, MoveToken(t, u) PROVE Stay
  <2>1. /\ t \in DOMAIN tokens /\ tokens' = [tokens EXCEPT ![t].owner = u]
        /\ issued' = [issued EXCEPT !.move = @ + 1]
    BY <1>5 DEF MoveToken
  <2>2. issued'.token = issued.token
    BY <2>1, <1>0 DEF Issued
  <2>3. /\ DOMAIN tokens' = DOMAIN tokens
        /\ \A x \in DOMAIN tokens : /\ tokens'[x].name = tokens[x].name
                                    /\ tokens'[x].level = tokens[x].level
                                    /\ x # t => tokens'[x].owner = tokens[x].owner
    BY <2>1, TokensTyped DEF TokensOK, Token
  <2> QED BY <2>2, <2>3, <1>0, <1>5 DEF Stay
<1>6. CASE Crash
  BY <1>6, <1>0, <1>a DEF Crash, Issued
<1> QED BY <1>1, <1>2, <1>3, <1>4, <1>5, <1>6 DEF Next

LEMMA FramesStep == Typed /\ Named /\ Frames /\ [Next]_vars => Frames'
<1> SUFFICES ASSUME Typed, Named, Frames, [Next]_vars, NEW r \in Slots PROVE FrameOK(r)'
  BY DEF Frames
<1>1. CASE UNCHANGED vars
  BY <1>1 DEF vars, Frames, FrameOK
<1> SUFFICES ASSUME Next PROVE FrameOK(r)'
  BY <1>1
<1> DEFINE f == calls[r]
           g == calls'[r]
<1>0. calls \in [Slots -> Frame] /\ issued.token \in Nat /\ issued'.token \in Nat
  <2>1. Typed'
    BY TypedStep
  <2>2. issued' \in Issued
    BY <2>1 DEF Typed, TypeOK, Issued
  <2>3. calls \in [Slots -> Frame] /\ issued.token \in Nat
    BY IssuedFields, CallFields
  <2> QED BY <2>2, <2>3 DEF Issued
<1>2. FrameOK(r)
  BY DEF Frames
<1>3. f.ids \subseteq 1..issued'.token /\ issued.token + 1 \notin f.ids
  BY <1>0, <1>2, TokensStay DEF FrameOK
<1>4. ASSUME g.ids = {} PROVE FrameOK(r)'
  BY <1>4 DEF FrameOK
<1>5. CASE \E t \in TokenIds, u \in Users : MoveToken(t, u)
  <2>1. PICK t \in TokenIds, u \in Users : MoveToken(t, u)
    BY <1>5
  <2>2. /\ t \in DOMAIN tokens /\ tokens' = [tokens EXCEPT ![t].owner = u]
        /\ calls' = [s \in Slots |-> [calls[s] EXCEPT !.moved = @ \/ t \in calls[s].ids]]
    BY <2>1 DEF MoveToken
  <2>3. g.ids = f.ids /\ g.pc = f.pc /\ g.next = f.next /\ (f.moved \/ t \in f.ids => g.moved)
    BY <2>2, <1>0 DEF Frame
  <2>4. /\ DOMAIN tokens' = DOMAIN tokens
        /\ \A x \in DOMAIN tokens : /\ tokens'[x].name = tokens[x].name
                                    /\ tokens'[x].level = tokens[x].level
                                    /\ x # t => tokens'[x].owner = tokens[x].owner
    BY <2>2, TokensTyped DEF TokensOK, Token
  <2> QED BY <2>3, <2>4, <1>2, <1>3 DEF FrameOK
<1> SUFFICES ASSUME ~ \E t \in TokenIds, u \in Users : MoveToken(t, u) PROVE FrameOK(r)'
  BY <1>5
<1>6. ASSUME NEW t \in f.ids, t \in DOMAIN tokens'
      PROVE  /\ t \in DOMAIN tokens
             /\ tokens'[t].name = tokens[t].name
             /\ tokens'[t].level = tokens[t].level
             /\ tokens'[t].owner = tokens[t].owner
  BY <1>3, <1>6, TokensStay, TokensTyped DEF TokensOK
<1>7. ASSUME g.ids = f.ids, g.pc \notin {"readCards", "levelUp"} PROVE FrameOK(r)'
  BY <1>3, <1>7 DEF FrameOK
<1>8. ASSUME g.ids = f.ids, g.pc = f.pc, g.next = f.next, f.moved = g.moved PROVE FrameOK(r)'
  BY <1>2, <1>3, <1>6, <1>8 DEF FrameOK
<1>9. ASSUME NEW s \in Slots, r # s,
             Return(s) \/ \E p \in CallPC : Goto(s, p)
      PROVE  FrameOK(r)'
  <2>1. g = f
    BY <1>0, <1>9 DEF Return, Goto
  <2> QED BY <2>1, <1>8
<1>10. ASSUME NEW s \in Slots, Pay(s) \/ Mint(s) \/ Refund(s) \/ LevelUp(s) PROVE FrameOK(r)'
  <2>1. \/ Return(s) \/ UNCHANGED calls
        \/ Goto(s, "mint") \/ Goto(s, "refund")
    BY <1>10 DEF Pay, Mint, Refund, LevelUp
  <2>2. CASE UNCHANGED calls
    BY <2>2, <1>8
  <2>3. CASE r # s /\ ~ UNCHANGED calls
    BY <2>1, <2>3, <1>9 DEF CallPC
  <2>4. CASE r = s /\ Return(s)
    BY <2>4, <1>0, <1>4 DEF Return, IdleFrame
  <2>5. CASE r = s /\ (Goto(s, "mint") \/ Goto(s, "refund"))
    <3>1. g.ids = f.ids /\ g.pc \notin {"readCards", "levelUp"}
      BY <2>5, <1>0 DEF Goto, Frame
    <3> QED BY <3>1, <1>7
  <2> QED BY <2>1, <2>2, <2>3, <2>4, <2>5
<1>11. ASSUME NEW s \in Slots, CheckOwner(s) PROVE FrameOK(r)'
  <2>1. PICK a, b \in DOMAIN tokens :
          /\ MayUse(s[1], {a, b})
          /\ calls' = [calls EXCEPT ![s].pc = "readCards", ![s].ids = {a, b}]
    BY <1>11 DEF CheckOwner
  <2>2. CASE r # s
    BY <2>1, <2>2, <1>0, <1>8
  <2>3. CASE r = s
    <3> DEFINE ids == {a, b}
    <3>1. ids \subseteq DOMAIN tokens /\ \A t \in ids : tokens[t].owner = s[1]
      BY <2>1 DEF MayUse
    <3>2. UNCHANGED tokens /\ ids \subseteq 1..issued'.token
      BY <3>1, <1>0, <1>11, TokensStay DEF CheckOwner, Typed, Fresh
    <3>3. calls' = [calls EXCEPT ![s].pc = "readCards", ![s].ids = ids]
      BY <2>1
    <3> HIDE DEF ids
    <3>4. g.ids = ids /\ g.pc = "readCards"
      BY <2>3, <3>3, <1>0 DEF Frame
    <3> QED BY <2>3, <3>1, <3>2, <3>4 DEF FrameOK
  <2> QED BY <2>2, <2>3
<1>12. ASSUME NEW s \in Slots, ReadCards(s) PROVE FrameOK(r)'
  <2>1. calls[s].pc = "readCards" /\ UNCHANGED <<tokens, issued>>
    BY <1>12 DEF ReadCards
  <2>2. CASE Return(s)
    <3>1. CASE r = s
      BY <2>2, <3>1, <1>0, <1>4 DEF Return, IdleFrame
    <3>2. CASE r # s
      BY <2>2, <3>2, <1>9
    <3> QED BY <3>1, <3>2
  <2>3. CASE ~ Return(s)
    <3>1. PICK next \in Combine(calls[s].ids) :
            calls' = [calls EXCEPT ![s].pc = "levelUp", ![s].next = next]
      BY <1>12, <2>3 DEF ReadCards
    <3>2. CASE r # s
      BY <3>1, <3>2, <1>0, <1>8
    <3>3. CASE r = s
      <4>1. g.ids = f.ids /\ g.pc = "levelUp" /\ g.next = next /\ g.moved = f.moved
        BY <3>1, <3>3, <1>0 DEF Frame
      <4>2. \A t \in f.ids : tokens[t].name = next[1] /\ tokens[t].level + 1 = next[2]
        BY <3>3 DEF Combine
      <4> QED BY <2>1, <3>3, <4>1, <4>2, <1>2, <1>3 DEF FrameOK
    <3> QED BY <3>2, <3>3
  <2> QED BY <2>2, <2>3
<1>13. ASSUME NEW u \in Users, Award(u) \/ SeedToken(u) PROVE FrameOK(r)'
  <2>1. UNCHANGED calls
    BY <1>13 DEF Award, SeedToken
  <2> QED BY <2>1, <1>8
<1>14. CASE Crash
  BY <1>14, <1>4 DEF Crash, IdleFrame
<1> QED BY <1>10, <1>11, <1>12, <1>13, <1>14 DEF Next

\* Only a level-up burns cards.
LEMMA WhoBurns ==
  ASSUME Typed, Named, Next, NEW t \in DOMAIN tokens, t \notin DOMAIN tokens'
  PROVE  \E s \in Slots : LevelUp(s)
<1>a. ASSUME NEW u, NEW n, NEW l, NEW count, SafeMint(u, n, l, count) PROVE FALSE
  BY <1>a DEF SafeMint, With
<1>1. ASSUME NEW s \in Slots, Pay(s) \/ Refund(s) \/ CheckOwner(s) \/ ReadCards(s) PROVE FALSE
  <2>1. CASE CheckOwner(s) \/ ReadCards(s)
    BY <2>1 DEF CheckOwner, ReadCards
  <2>2. CASE Pay(s) \/ Refund(s)
    BY <2>2 DEF Pay, Refund
  <2> QED BY <1>1, <2>1, <2>2
<1>2. ASSUME NEW s \in Slots, Mint(s) PROVE FALSE
  BY <1>2, <1>a DEF Mint
<1>3. ASSUME NEW u \in Users, Award(u) \/ SeedToken(u) PROVE FALSE
  BY <1>3, <1>a DEF Award, SeedToken
<1>4. ASSUME NEW x \in TokenIds, NEW u \in Users, MoveToken(x, u) PROVE FALSE
  BY <1>4 DEF MoveToken
<1>5. ~ Crash
  BY DEF Crash
<1> QED BY <1>1, <1>2, <1>3, <1>4, <1>5 DEF Next

LEMMA BurnsOwned ==
  ASSUME Typed, Named, Frames, [Next]_vars, NEW t \in DOMAIN tokens, t \notin DOMAIN tokens'
  PROVE  \E s \in Slots : /\ calls[s].pc = "levelUp" /\ t \in calls[s].ids
                          /\ calls[s].moved \/ tokens[t].owner = s[1]
<1>1. Next
  BY DEF vars
<1>2. PICK s \in Slots : LevelUp(s)
  BY <1>1, WhoBurns
<1>3. ~ UNCHANGED tokens
  OBVIOUS
<1>4. PICK a, b \in DOMAIN tokens : Combined(s, a, b)
  BY <1>2, <1>3, LeveledUp
<1>5. calls[s].pc = "levelUp" /\ t \in calls[s].ids
  <2>1. calls[s].pc = "levelUp"
    BY <1>2 DEF LevelUp
  <2>2. calls[s].ids = {a, b} /\ DOMAIN tokens \ {a, b} \subseteq DOMAIN tokens'
    BY <1>4 DEF Combined
  <2> QED BY <2>1, <2>2
<1>6. calls[s].moved \in BOOLEAN /\ FrameOK(s)
  BY CallFields DEF Frames
<1> QED BY <1>5, <1>6 DEF FrameOK

-----------------------------------------------------------------------------
(* The worth of the cards                                                   *)

LEMMA BoughtFacts ==
  ASSUME account \in [Users -> Account]
  PROVE  /\ Bought = SumFunctionOnSet([u \in Users |-> account[u].bought], Users)
         /\ Bought \in Int
<1> DEFINE f == [u \in Users |-> account[u].bought]
<1>1. Bought = SumFunctionOnSet(f, Users)
  BY DEF Bought, SumFunction
<1>2. \A u \in Users : f[u] \in Int
  BY DEF Account
<1> HIDE DEF f
<1>3. SumFunctionOnSet(f, Users) \in Int
  BY <1>2, SumInt
<1> QED BY <1>1, <1>3 DEF f

\* A purchase adds one to what was bought, a payment or a refund nothing.
LEMMA BoughtStep ==
  ASSUME Typed, NEW v \in Users
  PROVE  /\ Tally(v, "bought") => Bought' = Bought + 1
         /\ (Tally(v, "paid") \/ Tally(v, "refunded") \/ UNCHANGED account) => Bought' = Bought
<1> DEFINE f == [u \in Users |-> account[u].bought]
           g == [u \in Users |-> account'[u].bought]
<1>1. account \in [Users -> Account]
  BY DEF Typed, TypeOK
<1>2. ASSUME Tally(v, "bought") PROVE Bought' = Bought + 1
  <2>1. account' \in [Users -> Account]
    BY <1>2, TallyTyped
  <2>2. Bought = SumFunctionOnSet(f, Users) /\ Bought' = SumFunctionOnSet(g, Users)
    BY <1>1, <2>1, BoughtFacts DEF Bought, SumFunction
  <2>3. /\ \A u \in Users : f[u] \in Int /\ g[u] \in Int
        /\ \A u \in Users \ {v} : g[u] = f[u]
        /\ g[v] = f[v] + 1
    BY <1>1, <1>2, <2>1 DEF Tally, Account
  <2> HIDE DEF f, g
  <2>4. SumFunctionOnSet(g, Users) = SumFunctionOnSet(f, Users) - f[v] + g[v]
    BY <2>3, SumUpdate
  <2>5. SumFunctionOnSet(f, Users) \in Int
    BY <2>3, SumInt
  <2> QED BY <2>2, <2>3, <2>4, <2>5
<1>3. ASSUME Tally(v, "paid") \/ Tally(v, "refunded") \/ UNCHANGED account PROVE Bought' = Bought
  <2>1. g = f
    BY <1>1, <1>3 DEF Tally, Account
  <2> QED BY <2>1 DEF Bought
<1> QED BY <1>2, <1>3

LEMMA Conserved == WorthConserved <=> Value(tokens) = Bought + given
BY DEF WorthConserved, Value

LEMMA WorthStep == Typed /\ Named /\ Frames /\ WorthConserved /\ [Next]_vars => WorthConserved'
<1> SUFFICES ASSUME Typed, Named, Frames, WorthConserved, [Next]_vars PROVE WorthConserved'
  OBVIOUS
<1> DEFINE Balanced == Value(tokens') = Bought' + given'
<1>0. SUFFICES Balanced
  BY DEF WorthConserved, Value
<1>1. Value(tokens) = Bought + given /\ Bought \in Int /\ given \in Nat
  BY Conserved, BoughtFacts DEF Typed, TypeOK
<1>2. CanMint => /\ [issued EXCEPT !.token = @ + 1] \in Issued
                 /\ [issued EXCEPT !.token = @ + 1].token = issued.token + 1
  BY Increments
<1>3. ASSUME UNCHANGED <<tokens, given>>, Bought' = Bought PROVE Balanced
  BY <1>1, <1>3
<1>4. UNCHANGED account => Bought' = Bought
  BY DEF Bought
<1> HIDE DEF Balanced
<1>5. ASSUME NEW s \in Slots, Pay(s) PROVE Balanced
  <2>1. UNCHANGED <<tokens, given>> /\ s[1] \in Users
    BY <1>5, CallFields DEF Pay
  <2>2. Tally(s[1], "paid") \/ UNCHANGED account
    BY <1>5 DEF Pay
  <2> QED BY <2>1, <2>2, <1>3, BoughtStep
<1>6. ASSUME NEW s \in Slots, Refund(s) PROVE Balanced
  <2>1. UNCHANGED <<tokens, given>> /\ s[1] \in Users
    BY <1>6, CallFields DEF Refund
  <2>2. Tally(s[1], "refunded") \/ UNCHANGED account
    BY <1>6 DEF Refund
  <2> QED BY <2>1, <2>2, <1>3, BoughtStep
<1>7. ASSUME NEW s \in Slots, Mint(s) PROVE Balanced
  <2>1. s[1] \in Users /\ 1 \in Levels /\ Worth[1] = 1 /\ CanMint /\ given' = given
    BY <1>7, CallFields, WorthOf DEF Mint
  <2>2. CASE Fault /\ UNCHANGED <<tokens, account>>
    BY <2>1, <2>2, <1>3, <1>4
  <2>3. CASE Tally(s[1], "bought") /\ \E n \in Names :
               \/ SafeMint(s[1], n, 1, [issued EXCEPT !.token = @ + 1])
               \/ issued.fault < MaxFaults /\ SafeMint(s[1], n, 1, Count(1, 1))
    <3>1. Bought' = Bought + 1
      BY <2>1, <2>3, BoughtStep
    <3>2. issued.fault < MaxFaults => /\ Count(1, 1) \in Issued
                                      /\ Count(1, 1).token = issued.token + 1
      BY <2>1, Increments
    <3>3. Value(tokens') = Value(tokens) + 1
      <4>1. PICK n \in Names, count \in Issued :
              count.token = issued.token + 1 /\ SafeMint(s[1], n, 1, count)
        BY <2>1, <2>3, <3>2, <1>2
      <4> QED BY <4>1, <2>1, Minted
    <3> QED BY <2>1, <3>1, <3>3, <1>1 DEF Balanced
  <2> QED BY <1>7, <2>2, <2>3 DEF Mint
<1>8. ASSUME NEW s \in Slots, CheckOwner(s) \/ ReadCards(s) PROVE Balanced
  <2>1. UNCHANGED <<tokens, account, given>>
    BY <1>8 DEF CheckOwner, ReadCards
  <2> QED BY <2>1, <1>3, <1>4
<1>9. ASSUME NEW s \in Slots, LevelUp(s) PROVE Balanced
  <2>1. UNCHANGED <<account, given>>
    BY <1>9 DEF LevelUp
  <2>2. CASE UNCHANGED tokens
    BY <2>1, <2>2, <1>3, <1>4
  <2>3. CASE ~ UNCHANGED tokens
    <3>0. PICK a, b \in DOMAIN tokens : Combined(s, a, b)
      BY <1>9, <2>3, LeveledUp
    <3>1. /\ calls[s].ids = {a, b}
          /\ Value(tokens') = Value(tokens) - Worth[tokens[a].level] - Worth[tokens[b].level]
                             + Worth[calls[s].next[2]]
      BY <3>0 DEF Combined
    <3>2. calls[s].pc = "levelUp" /\ calls[s].next[2] \in Levels
      BY <1>9, <2>3, LeveledUp
    <3>3. tokens[a].level + 1 = calls[s].next[2] /\ tokens[b].level + 1 = calls[s].next[2]
      BY <3>1, <3>2 DEF Frames, FrameOK
    <3>4. tokens[a].level \in Levels /\ tokens[b].level \in Levels
      BY TokensTyped, ValueFacts
    <3>5. /\ Worth[calls[s].next[2]] = 2 * Worth[tokens[a].level]
          /\ Worth[calls[s].next[2]] = 2 * Worth[tokens[b].level]
          /\ Worth[tokens[a].level] \in Int /\ Worth[tokens[b].level] \in Int
      BY <3>2, <3>3, <3>4, WorthOf
    <3>6. Value(tokens') = Value(tokens)
      BY <3>1, <3>5, <1>1
    <3> QED BY <3>6, <2>1, <1>1, <1>4 DEF Balanced
  <2> QED BY <2>2, <2>3
<1>10. ASSUME NEW u \in Users, Award(u) \/ SeedToken(u) PROVE Balanced
  <2>1. CanMint /\ UNCHANGED account
        /\ \E n \in Names, l \in Levels : /\ SafeMint(u, n, l, [issued EXCEPT !.token = @ + 1])
                                        /\ given' = given + Worth[l]
    BY <1>10, WorthOf DEF Award, SeedToken
  <2>2. PICK n \in Names, l \in Levels : /\ SafeMint(u, n, l, [issued EXCEPT !.token = @ + 1])
                                        /\ given' = given + Worth[l]
    BY <2>1
  <2>3. Value(tokens') = Value(tokens) + Worth[l] /\ Worth[l] \in Int
    BY <2>1, <2>2, <1>2, Minted, WorthOf
  <2> QED BY <2>1, <2>2, <2>3, <1>1, <1>4 DEF Balanced
<1>11. ASSUME NEW t \in TokenIds, NEW u \in Users, MoveToken(t, u) PROVE Balanced
  <2>1. /\ t \in DOMAIN tokens /\ tokens' = [tokens EXCEPT ![t].owner = u]
        /\ UNCHANGED <<account, given>>
    BY <1>11 DEF MoveToken
  <2>2. /\ TokensOK(tokens') /\ DOMAIN tokens' = DOMAIN tokens
        /\ \A x \in DOMAIN tokens : tokens'[x].level = tokens[x].level
    BY <2>1, TokensTyped DEF TokensOK, Token
  <2>3. Value(tokens') = Value(tokens)
    BY <2>2, TokensTyped, ValueMove
  <2> QED BY <2>1, <2>3, <1>1, <1>4 DEF Balanced
<1>12. CASE Crash
  BY <1>12, <1>3, <1>4 DEF Crash
<1>13. CASE UNCHANGED vars
  BY <1>13, <1>3, <1>4 DEF vars
<1> QED BY <1>5, <1>6, <1>7, <1>8, <1>9, <1>10, <1>11, <1>12, <1>13 DEF Next

-----------------------------------------------------------------------------
(* The fees                                                                 *)

\* What a player has paid that was neither refunded nor turned into a card, and
\* how many calls will still settle a fee; they differ only by what was lost.
Net(u) == account[u].paid - account[u].refunded - account[u].bought
OpenFees(u) == {s \in Slots : s[1] = u /\ calls[s].pc \in {"mint", "refund"}}
Open(u) == Cardinality(OpenFees(u))
Off(u) == Abs(Net(u) - Open(u))
Slack == issued.costly + issued.crash * Cardinality(Slots)
FeesOpen == SumFunctionOnSet([u \in Users |-> Off(u)], Users) <= Slack

LEMMA FeeFacts ==
  ASSUME Typed
  PROVE  /\ \A u \in Users : Net(u) \in Int /\ Open(u) \in Nat /\ Off(u) \in Int
         /\ Slack \in Int /\ Cardinality(Slots) \in Nat
         /\ SumFunctionOnSet([u \in Users |-> Off(u)], Users) \in Int
<1>1. \A u \in Users : IsFiniteSet(OpenFees(u))
  BY FS_Subset DEF OpenFees
<1>2. \A u \in Users : Open(u) \in Nat
  BY <1>1, FS_CardinalityType DEF Open
<1>3. \A u \in Users : Net(u) \in Int
  BY DEF Typed, TypeOK, Account, Net
<1>4. \A u \in Users : Off(u) \in Int
  BY <1>2, <1>3 DEF Off, Abs
<1>5. Cardinality(Slots) \in Nat
  BY FS_CardinalityType
<1>6. Slack \in Int
  BY <1>5, IssuedFields DEF Slack
<1> DEFINE f == [u \in Users |-> Off(u)]
<1>7. \A u \in Users : f[u] \in Int
  BY <1>4
<1> HIDE DEF f
<1>8. SumFunctionOnSet(f, Users) \in Int
  BY <1>7, SumInt
<1> QED BY <1>2, <1>3, <1>4, <1>5, <1>6, <1>8 DEF f

FeesTyped == \A u \in Users : Net(u) \in Int /\ Open(u) \in Nat /\ Off(u) \in Int
LEMMA FeesBefore == Typed => FeesTyped
BY FeeFacts DEF FeesTyped
LEMMA FeesAfter == Typed' => FeesTyped'
BY FeesBefore, PTL

\* A step of the call s counts one fee more, one less or as many.
LEMMA OpenStep ==
  ASSUME Typed, Typed', NEW s \in Slots, \A r \in Slots \ {s} : calls'[r].pc = calls[r].pc
  PROVE  LET was == calls[s].pc \in {"mint", "refund"}
             is == calls'[s].pc \in {"mint", "refund"}
         IN /\ \A u \in Users \ {s[1]} : Open(u)' = Open(u)
            /\ was = is => Open(s[1])' = Open(s[1])
            /\ ~ was /\ is => Open(s[1])' = Open(s[1]) + 1
            /\ was /\ ~ is => Open(s[1])' = Open(s[1]) - 1
<1> DEFINE was == calls[s].pc \in {"mint", "refund"}
           is == calls'[s].pc \in {"mint", "refund"}
           A(u) == {r \in Slots : r[1] = u /\ calls[r].pc \in {"mint", "refund"}}
           B(u) == {r \in Slots : r[1] = u /\ calls'[r].pc \in {"mint", "refund"}}
<1>1. \A u : /\ Open(u) = Cardinality(A(u)) /\ Open(u)' = Cardinality(B(u))
             /\ IsFiniteSet(A(u)) /\ IsFiniteSet(B(u))
  BY FS_Subset DEF Open, OpenFees
<1>2. \A u \in Users \ {s[1]} : A(u) = B(u)
  OBVIOUS
<1>3. /\ was <=> s \in A(s[1])
      /\ is <=> s \in B(s[1])
      /\ B(s[1]) = IF is THEN A(s[1]) \cup {s} ELSE A(s[1]) \ {s}
  OBVIOUS
<1> HIDE DEF A, B
<1>4. s[1] \in Users
  BY CallFields
<1>5. (was <=> is) => Open(s[1])' = Open(s[1])
  <2>1. (was <=> is) => A(s[1]) = B(s[1])
    BY <1>3
  <2> QED BY <2>1, <1>1
<1>6. ~ was /\ is => Open(s[1])' = Open(s[1]) + 1
  <2> DEFINE P == A(s[1])
  <2>1. IsFiniteSet(P)
    BY <1>1
  <2>2. ~ was /\ is => s \notin P /\ B(s[1]) = P \cup {s}
    BY <1>3
  <2> HIDE DEF P
  <2>3. s \notin P => Cardinality(P \cup {s}) = Cardinality(P) + 1
    BY <2>1, FS_AddElement
  <2> QED BY <2>2, <2>3, <1>1 DEF P
<1>7. was /\ ~ is => Open(s[1])' = Open(s[1]) - 1
  <2> DEFINE P == A(s[1])
  <2>1. IsFiniteSet(P)
    BY <1>1
  <2>2. was /\ ~ is => s \in P /\ B(s[1]) = P \ {s}
    BY <1>3
  <2> HIDE DEF P
  <2>3. s \in P => Cardinality(P \ {s}) = Cardinality(P) - 1
    BY <2>1, FS_RemoveElement
  <2> QED BY <2>2, <2>3, <1>1 DEF P
<1> QED BY <1>1, <1>2, <1>5, <1>6, <1>7

\* A step that puts one player off by one more is one that counts as costly.
LEMMA OffByOne ==
  ASSUME Typed, Typed', FeesOpen, NEW v \in Users, NEW d \in {0, 1},
         issued'.costly = issued.costly + d, issued'.crash = issued.crash,
         \A u \in Users \ {v} : Net(u)' = Net(u) /\ Open(u)' = Open(u),
         Net(v)' - Open(v)' \in {Net(v) - Open(v), Net(v) - Open(v) - d, Net(v) - Open(v) + d}
  PROVE  FeesOpen'
<1> DEFINE f == [u \in Users |-> Off(u)]
           g == [u \in Users |-> Off(u)']
<1>1. /\ \A u \in Users : f[u] \in Int /\ g[u] \in Int
      /\ \A u \in Users \ {v} : g[u] = f[u]
      /\ g[v] <= f[v] + d
  <2>1. \A u \in Users : Net(u) \in Int /\ Open(u) \in Nat /\ Off(u) \in Int
    BY FeesBefore DEF FeesTyped
  <2>2. \A u \in Users : Net(u)' \in Int /\ Open(u)' \in Nat /\ Off(u)' \in Int
    BY FeesAfter DEF FeesTyped
  <2>3. \A u \in Users \ {v} : Off(u)' = Off(u)
    BY DEF Off
  <2>4. Off(v)' <= Off(v) + d
    BY <2>1, <2>2 DEF Off, Abs
  <2> QED BY <2>1, <2>2, <2>3, <2>4
<1>2. FeesOpen <=> SumFunctionOnSet(f, Users) <= Slack
  BY DEF FeesOpen
<1>3. FeesOpen' <=> SumFunctionOnSet(g, Users) <= Slack'
  BY DEF FeesOpen
<1> HIDE DEF f, g
<1>4. SumFunctionOnSet(g, Users) = SumFunctionOnSet(f, Users) - f[v] + g[v]
  BY <1>1, SumUpdate
<1>5. SumFunctionOnSet(f, Users) \in Int /\ Slack \in Int
  BY <1>1, SumInt, FeeFacts
<1>6. Slack' = Slack + d
  <2>1. issued.crash * Cardinality(Slots) \in Int /\ issued.costly \in Int
    BY IssuedFields, FeeFacts
  <2> QED BY <2>1 DEF Slack
<1> QED BY <1>1, <1>2, <1>3, <1>4, <1>5, <1>6

\* A restart puts the players off by no more than the calls it cuts off.
LEMMA FeesCrash == Typed /\ Typed' /\ FeesOpen /\ Crash => FeesOpen'
<1> SUFFICES ASSUME Typed, Typed', FeesOpen, Crash PROVE FeesOpen'
  OBVIOUS
<1> DEFINE f == [u \in Users |-> Off(u)]
           g == [u \in Users |-> Off(u)']
           h == [u \in Users |-> Cardinality({s \in Slots : s[1] = u})]
           k == [u \in Users |-> Off(u) + h[u]]
<1>1. /\ issued' = [issued EXCEPT !.crash = @ + 1] /\ UNCHANGED account
      /\ calls' = [s \in Slots |-> IdleFrame]
  BY DEF Crash
<1>2. \A u \in Users : /\ f[u] \in Int /\ g[u] \in Int /\ h[u] \in Int /\ k[u] = f[u] + h[u]
                      /\ k[u] \in Int /\ g[u] <= k[u]
  <2> SUFFICES ASSUME NEW u \in Users
               PROVE  /\ Off(u) \in Int /\ Off(u)' \in Int /\ h[u] \in Int
                      /\ Off(u)' <= Off(u) + h[u]
    OBVIOUS
  <2> DEFINE S == {s \in Slots : s[1] = u}
  <2>1. IsFiniteSet(S) /\ Cardinality(S) \in Nat /\ h[u] = Cardinality(S)
    BY FS_Subset, FS_CardinalityType
  <2>2. Open(u) <= Cardinality(S)
    BY <2>1, FS_Subset DEF Open, OpenFees
  <2>3. Open(u)' = 0
    <3>1. OpenFees(u)' = {}
      BY <1>1 DEF OpenFees, IdleFrame
    <3> QED BY <3>1, FS_EmptySet DEF Open
  <2>4. Net(u)' = Net(u)
    BY <1>1 DEF Net
  <2>5. Net(u) \in Int /\ Open(u) \in Nat /\ Off(u) \in Int /\ Off(u)' \in Int
    BY FeesBefore, FeesAfter DEF FeesTyped
  <2>6. Off(u)' <= Off(u) + Cardinality(S)
    <3>1. Off(u) = Abs(Net(u) - Open(u)) /\ Off(u)' = Abs(Net(u) - 0)
      BY <2>3, <2>4 DEF Off
    <3> HIDE DEF S
    <3> QED BY <3>1, <2>1, <2>2, <2>5 DEF Abs
  <2> QED BY <2>1, <2>5, <2>6
<1>3. FeesOpen <=> SumFunctionOnSet(f, Users) <= Slack
  BY DEF FeesOpen
<1>4. FeesOpen' <=> SumFunctionOnSet(g, Users) <= Slack'
  BY DEF FeesOpen
<1>5. SumFunctionOnSet(h, Users) = Cardinality(Slots)
  BY SumOfShares
<1> HIDE DEF f, g, h, k
<1>6. SumFunctionOnSet(g, Users) <= SumFunctionOnSet(k, Users)
  BY <1>2, SumLeq
<1>7. SumFunctionOnSet(k, Users) = SumFunctionOnSet(f, Users) + SumFunctionOnSet(h, Users)
  BY <1>2, SumPlus
<1>8. /\ SumFunctionOnSet(f, Users) \in Int /\ SumFunctionOnSet(g, Users) \in Int
      /\ SumFunctionOnSet(k, Users) \in Int
  BY <1>2, SumInt
<1>9. Slack' = Slack + Cardinality(Slots) /\ Slack \in Int /\ Cardinality(Slots) \in Nat
  <2>1. issued'.costly = issued.costly /\ issued'.crash = issued.crash + 1
    BY <1>1, IssuedFields DEF Issued
  <2>2. Cardinality(Slots) \in Nat /\ Slack \in Int
    BY FeeFacts
  <2>3. (issued.crash + 1) * Cardinality(Slots) = issued.crash * Cardinality(Slots) + Cardinality(Slots)
    BY <2>2, IssuedFields
  <2>4. issued.crash * Cardinality(Slots) \in Int /\ issued.costly \in Int
    BY <2>2, IssuedFields
  <2> QED BY <2>1, <2>2, <2>3, <2>4 DEF Slack
<1> QED BY <1>3, <1>4, <1>5, <1>6, <1>7, <1>8, <1>9

\* What a record of what one player did to the counts does to what is owed.
LEMMA NetStep ==
  ASSUME Typed, NEW v \in Users
  PROVE  /\ Tally(v, "paid") => Net(v)' = Net(v) + 1
         /\ Tally(v, "refunded") \/ Tally(v, "bought") => Net(v)' = Net(v) - 1
         /\ \A f \in {"paid", "refunded", "bought"} :
              Tally(v, f) => \A u \in Users \ {v} : Net(u)' = Net(u)
<1>1. account \in [Users -> Account]
  BY DEF Typed, TypeOK
<1>2. Tally(v, "paid") => Net(v)' = Net(v) + 1
  BY <1>1 DEF Tally, Net, Account
<1>3. Tally(v, "refunded") => Net(v)' = Net(v) - 1
  BY <1>1 DEF Tally, Net, Account
<1>4. Tally(v, "bought") => Net(v)' = Net(v) - 1
  BY <1>1 DEF Tally, Net, Account
<1>5. \A f \in {"paid", "refunded", "bought"} :
        Tally(v, f) => \A u \in Users \ {v} : Net(u)' = Net(u)
  BY <1>1 DEF Tally, Net, Account
<1> QED BY <1>2, <1>3, <1>4, <1>5

LEMMA FeesStep == Typed /\ Named /\ FeesOpen /\ [Next]_vars => FeesOpen'
<1> SUFFICES ASSUME Typed, Named, FeesOpen, [Next]_vars PROVE FeesOpen'
  OBVIOUS
<1>0. Typed' /\ calls \in [Slots -> Frame] /\ issued \in Issued
  BY TypedStep, IssuedFields, CallFields DEF Typed, TypeOK, Frame
<1>a. FeesTyped
  BY FeesBefore
<1>b. Fault => issued'.costly = issued.costly + 0 /\ issued'.crash = issued.crash
  BY Increments, IssuedFields DEF Fault
<1>c. CostlyFault => issued'.costly = issued.costly + 1 /\ issued'.crash = issued.crash
  BY Increments DEF CostlyFault
<1>d. UNCHANGED issued => issued'.costly = issued.costly + 0 /\ issued'.crash = issued.crash
  BY IssuedFields
<1>e. CanMint /\ issued' = [issued EXCEPT !.token = @ + 1]
        => issued'.costly = issued.costly + 0 /\ issued'.crash = issued.crash
  BY IssuedFields DEF Issued
\* Nothing about the fees changes.
<1>f. ASSUME UNCHANGED account, \A r \in Slots : calls'[r].pc = calls[r].pc
                                  \/ {calls'[r].pc, calls[r].pc} \cap {"mint", "refund"} = {},
             issued'.costly = issued.costly + 0, issued'.crash = issued.crash
      PROVE  FeesOpen'
  <2>1. \A u \in Users : Net(u)' = Net(u) /\ OpenFees(u)' = OpenFees(u)
    BY <1>f DEF Net, OpenFees
  <2>2. \A u \in Users : Off(u)' = Off(u)
    BY <2>1 DEF Off, Open
  <2>3. [u \in Users |-> Off(u)'] = [u \in Users |-> Off(u)]
    BY <2>2
  <2>4. Slack' = Slack
    BY <1>f, IssuedFields DEF Slack
  <2> QED BY <2>3, <2>4 DEF FeesOpen
\* One call of the player s[1] moves, and the player's account with it.
<1>g. ASSUME NEW s \in Slots, NEW d \in {0, 1}, NEW n \in {-1, 0, 1}, NEW o \in {-1, 0, 1},
             \A r \in Slots \ {s} : calls'[r].pc = calls[r].pc,
             issued'.costly = issued.costly + d, issued'.crash = issued.crash,
             Net(s[1])' = Net(s[1]) + n, \A u \in Users \ {s[1]} : Net(u)' = Net(u),
             Open(s[1])' = Open(s[1]) + o, n - o \in {0, d, -d}
      PROVE  FeesOpen'
  <2>1. s[1] \in Users
    BY CallFields
  <2>2. PICK v \in Users : v = s[1]
    BY <2>1
  <2>3. \A u \in Users \ {v} : Net(u)' = Net(u) /\ Open(u)' = Open(u)
    BY <1>g, <1>0, <2>2, OpenStep
  <2>4. Net(v)' - Open(v)' \in {Net(v) - Open(v), Net(v) - Open(v) - d, Net(v) - Open(v) + d}
    <3>1. Net(v) \in Int /\ Open(v) \in Int /\ Net(v)' = Net(v) + n /\ Open(v)' = Open(v) + o
      BY <1>a, <1>g, <2>2 DEF FeesTyped
    <3> QED BY <3>1, <1>g
  <2> QED BY <1>0, <1>g, <2>3, <2>4, OffByOne
<1>h. ASSUME NEW s \in Slots
      PROVE  /\ s[1] \in Users
             /\ \A p \in CallPC : Goto(s, p) => /\ \A r \in Slots \ {s} : calls'[r].pc = calls[r].pc
                                              /\ calls'[s].pc = p
             /\ Return(s) => /\ \A r \in Slots \ {s} : calls'[r].pc = calls[r].pc
                             /\ calls'[s].pc = "idle"
  BY <1>0, CallFields DEF Goto, Return, IdleFrame, Frame
<1>i. \A u \in Users : UNCHANGED account => Net(u)' = Net(u) + 0
  BY <1>a DEF Net, FeesTyped
<1>1. ASSUME NEW s \in Slots, Pay(s) PROVE FeesOpen'
  <2>1. calls[s].pc = "idle"
    BY <1>1 DEF Pay
  <2>2. CASE Tally(s[1], "paid") /\ Goto(s, "mint") /\ UNCHANGED issued
    <3>1. /\ \A r \in Slots \ {s} : calls'[r].pc = calls[r].pc
          /\ calls'[s].pc = "mint"
      BY <2>2, <1>h DEF CallPC
    <3>2. Open(s[1])' = Open(s[1]) + 1
      BY <2>1, <3>1, <1>0, OpenStep
    <3>3. Net(s[1])' = Net(s[1]) + 1 /\ \A u \in Users \ {s[1]} : Net(u)' = Net(u)
      BY <2>2, <1>h, NetStep
    <3> QED BY <2>2, <3>1, <3>2, <3>3, <1>d, <1>g
  <2>3. CASE Fault /\ UNCHANGED <<calls, account>>
    BY <2>3, <1>b, <1>f
  <2>4. CASE CostlyFault /\ Tally(s[1], "paid") /\ UNCHANGED calls
    <3>1. Open(s[1])' = Open(s[1]) + 0 /\ \A r \in Slots \ {s} : calls'[r].pc = calls[r].pc
      <4>1. \A u : OpenFees(u)' = OpenFees(u)
        BY <2>4 DEF OpenFees
      <4>2. \A u : Open(u)' = Open(u)
        BY <4>1 DEF Open
      <4> QED BY <2>4, <4>2, <1>a, <1>h DEF FeesTyped
    <3>2. Net(s[1])' = Net(s[1]) + 1 /\ \A u \in Users \ {s[1]} : Net(u)' = Net(u)
      BY <2>4, <1>h, NetStep
    <3> QED BY <2>4, <3>1, <3>2, <1>c, <1>g
  <2> QED BY <1>1, <2>2, <2>3, <2>4 DEF Pay
<1>2. ASSUME NEW s \in Slots, Mint(s) PROVE FeesOpen'
  <2>1. calls[s].pc = "mint" /\ CanMint
    BY <1>2 DEF Mint
  <2>2. CASE /\ \E n \in Names : SafeMint(s[1], n, 1, [issued EXCEPT !.token = @ + 1])
             /\ Tally(s[1], "bought") /\ Return(s)
    <3>1. /\ \A r \in Slots \ {s} : calls'[r].pc = calls[r].pc
          /\ calls'[s].pc = "idle"
      BY <2>2, <1>h
    <3>2. Open(s[1])' = Open(s[1]) + (-1)
      BY <2>1, <3>1, <1>0, <1>a, <1>h, OpenStep DEF FeesTyped
    <3>3. Net(s[1])' = Net(s[1]) + (-1) /\ \A u \in Users \ {s[1]} : Net(u)' = Net(u)
      BY <2>2, <1>a, <1>h, NetStep DEF FeesTyped
    <3>4. issued'.costly = issued.costly + 0 /\ issued'.crash = issued.crash
      BY <2>1, <2>2, <1>e DEF SafeMint
    <3> QED BY <3>1, <3>2, <3>3, <3>4, <1>g
  <2>3. CASE Fault /\ Goto(s, "refund") /\ UNCHANGED <<tokens, account>>
    <3>1. /\ \A r \in Slots \ {s} : calls'[r].pc = calls[r].pc
          /\ calls'[s].pc = "refund"
      BY <2>3, <1>h DEF CallPC
    <3>2. Open(s[1])' = Open(s[1]) + 0
      BY <2>1, <3>1, <1>0, <1>a, <1>h, OpenStep DEF FeesTyped
    <3>3. Net(s[1])' = Net(s[1]) + 0 /\ \A u \in Users \ {s[1]} : Net(u)' = Net(u)
      BY <2>3, <1>h, <1>i DEF Net
    <3> QED BY <2>3, <3>1, <3>2, <3>3, <1>b, <1>g
  <2>4. CASE /\ issued.fault < MaxFaults
             /\ \E n \in Names : SafeMint(s[1], n, 1, Count(1, 1))
             /\ Tally(s[1], "bought")
             /\ Goto(s, "refund")
    <3>1. /\ \A r \in Slots \ {s} : calls'[r].pc = calls[r].pc
          /\ calls'[s].pc = "refund"
      BY <2>4, <1>h DEF CallPC
    <3>2. Open(s[1])' = Open(s[1]) + 0
      BY <2>1, <3>1, <1>0, <1>a, <1>h, OpenStep DEF FeesTyped
    <3>3. Net(s[1])' = Net(s[1]) + (-1) /\ \A u \in Users \ {s[1]} : Net(u)' = Net(u)
      BY <2>4, <1>a, <1>h, NetStep DEF FeesTyped
    <3>4. issued'.costly = issued.costly + 1 /\ issued'.crash = issued.crash
      BY <2>1, <2>4, Increments DEF SafeMint
    <3> QED BY <3>1, <3>2, <3>3, <3>4, <1>g
  <2> QED BY <1>2, <2>2, <2>3, <2>4 DEF Mint
<1>3. ASSUME NEW s \in Slots, Refund(s) PROVE FeesOpen'
  <2>1. calls[s].pc = "refund" /\ Return(s)
    BY <1>3 DEF Refund
  <2>2. /\ \A r \in Slots \ {s} : calls'[r].pc = calls[r].pc
        /\ calls'[s].pc = "idle"
    BY <2>1, <1>h
  <2>3. Open(s[1])' = Open(s[1]) + (-1)
    BY <2>1, <2>2, <1>0, <1>a, <1>h, OpenStep DEF FeesTyped
  <2>4. CASE Tally(s[1], "refunded") /\ UNCHANGED issued
    <3>1. Net(s[1])' = Net(s[1]) + (-1) /\ \A u \in Users \ {s[1]} : Net(u)' = Net(u)
      BY <2>4, <1>a, <1>h, NetStep DEF FeesTyped
    <3> QED BY <2>2, <2>3, <2>4, <3>1, <1>d, <1>g
  <2>5. CASE CostlyFault /\ UNCHANGED account
    <3>1. Net(s[1])' = Net(s[1]) + 0 /\ \A u \in Users \ {s[1]} : Net(u)' = Net(u)
      BY <2>5, <1>h, <1>i DEF Net
    <3>2. issued'.costly = issued.costly + 1 /\ issued'.crash = issued.crash
      BY <2>5, <1>c
    <3>3. 0 - (-1) \in {0, 1, -1}
      OBVIOUS
    <3> QED BY <2>2, <2>3, <3>1, <3>2, <3>3, <1>g
  <2> QED BY <1>3, <2>4, <2>5 DEF Refund
<1>4. ASSUME NEW s \in Slots, CheckOwner(s) \/ ReadCards(s) \/ LevelUp(s) PROVE FeesOpen'
  <2>1. UNCHANGED account
    BY <1>4 DEF CheckOwner, ReadCards, LevelUp
  <2>2. issued'.costly = issued.costly + 0 /\ issued'.crash = issued.crash
    <3>1. CASE CheckOwner(s) \/ ReadCards(s)
      BY <3>1, <1>d DEF CheckOwner, ReadCards
    <3>2. CASE LevelUp(s)
      <4>1. \/ Fault \/ UNCHANGED issued
            \/ CanMint /\ issued' = [issued EXCEPT !.token = @ + 1]
        BY <3>2 DEF LevelUp
      <4> QED BY <4>1, <1>b, <1>d, <1>e
    <3> QED BY <1>4, <3>1, <3>2
  <2>3. calls[s].pc \in {"idle", "readCards", "levelUp"}
    BY <1>4 DEF CheckOwner, ReadCards, LevelUp
  <2>4. \/ Return(s)
        \/ \E a, b : calls' = [calls EXCEPT ![s].pc = "readCards", ![s].ids = {a, b}]
        \/ \E next : calls' = [calls EXCEPT ![s].pc = "levelUp", ![s].next = next]
    BY <1>4 DEF CheckOwner, ReadCards, LevelUp
  <2>5. /\ \A r \in Slots \ {s} : calls'[r].pc = calls[r].pc
        /\ calls'[s].pc \in {"idle", "readCards", "levelUp"}
    BY <2>4, <1>0, <1>h DEF Frame
  <2> QED BY <2>1, <2>2, <2>3, <2>5, <1>f
<1>5. ASSUME NEW u \in Users, Award(u) \/ SeedToken(u) PROVE FeesOpen'
  <2>1. UNCHANGED <<account, calls>> /\ CanMint /\ issued' = [issued EXCEPT !.token = @ + 1]
    BY <1>5 DEF Award, SeedToken, SafeMint
  <2> QED BY <2>1, <1>e, <1>f
<1>6. ASSUME NEW t \in TokenIds, NEW u \in Users, MoveToken(t, u) PROVE FeesOpen'
  <2>1. UNCHANGED account /\ issued' = [issued EXCEPT !.move = @ + 1]
        /\ calls' = [s \in Slots |-> [calls[s] EXCEPT !.moved = @ \/ t \in calls[s].ids]]
    BY <1>6 DEF MoveToken
  <2>2. issued'.costly = issued.costly + 0 /\ issued'.crash = issued.crash
    BY <2>1, <1>0, IssuedFields DEF Issued
  <2>3. \A r \in Slots : calls'[r].pc = calls[r].pc
    BY <2>1, <1>0 DEF Frame
  <2> QED BY <2>1, <2>2, <2>3, <1>f
<1>7. CASE Crash
  BY <1>7, <1>0, FeesCrash
<1>8. CASE UNCHANGED vars
  BY <1>8, <1>d, <1>f DEF vars
<1> QED BY <1>1, <1>2, <1>3, <1>4, <1>5, <1>6, <1>7, <1>8 DEF Next

-----------------------------------------------------------------------------
(* Theorems                                                                 *)

\* The inductive invariant.
Inv == Typed /\ Named /\ Frames /\ WorthConserved /\ FeesOpen

LEMMA InvInit == Init => Inv
<1> SUFFICES ASSUME Init PROVE Inv
  OBVIOUS
<1>1. /\ tokens = <<>> /\ given = 0 /\ calls = [s \in Slots |-> IdleFrame]
      /\ account = [u \in Users |-> [paid |-> 0, refunded |-> 0, bought |-> 0]]
      /\ issued = [token |-> 0, move |-> 0, fault |-> 0, costly |-> 0, crash |-> 0]
      /\ DOMAIN tokens = {}
  BY DEF Init
<1>2. Typed
  BY <1>1 DEF Typed, TypeOK, Fresh, IdleFrame, CallPC, Account
<1>3. Named /\ Frames
  BY <1>1 DEF Named, Frames, FrameOK, IdleFrame
<1>4. WorthConserved
  <2> DEFINE w == [t \in DOMAIN tokens |-> Worth[tokens[t].level]]
             f == [u \in Users |-> account[u].bought]
  <2>1. Value(tokens) = SumFunctionOnSet(w, DOMAIN tokens) /\ Bought = SumFunctionOnSet(f, Users)
    BY DEF Value, Bought, SumFunction
  <2>2. \A u \in Users : f[u] = 0
    BY <1>1
  <2> HIDE DEF w, f
  <2>3. SumFunctionOnSet(w, {}) = 0 /\ SumFunctionOnSet(f, Users) = 0
    BY <2>2, SumEmpty, SumZero
  <2> QED BY <2>1, <2>3, <1>1, Conserved
<1>5. FeesOpen
  <2> DEFINE f == [u \in Users |-> Off(u)]
  <2>1. \A u \in Users : f[u] = 0
    <3> SUFFICES ASSUME NEW u \in Users PROVE Off(u) = 0
      OBVIOUS
    <3>1. OpenFees(u) = {}
      BY <1>1 DEF OpenFees, IdleFrame
    <3>2. Open(u) = 0
      BY <3>1, FS_EmptySet DEF Open
    <3>3. Net(u) = 0
      BY <1>1 DEF Net
    <3> QED BY <3>2, <3>3 DEF Off, Abs
  <2> HIDE DEF f
  <2>2. SumFunctionOnSet(f, Users) = 0
    BY <2>1, SumZero
  <2>3. Slack = 0
    <3>1. issued.costly = 0 /\ issued.crash = 0 /\ Cardinality(Slots) \in Nat
      BY <1>1, FS_CardinalityType
    <3> QED BY <3>1 DEF Slack
  <2> QED BY <2>2, <2>3 DEF FeesOpen, f
<1> QED BY <1>2, <1>3, <1>4, <1>5 DEF Inv

LEMMA InvStep == Inv /\ [Next]_vars => Inv'
BY TypedStep, NamedStep, FramesStep, WorthStep, FeesStep DEF Inv

LEMMA Invariance == Spec => []Inv
<1>1. Init => Inv
  BY InvInit
<1>2. Inv /\ [Next]_vars => Inv'
  BY InvStep
<1> QED BY <1>1, <1>2, PTL DEF Spec

\* Every collection, account, frame and count has its type.
THEOREM TypeCorrect == Spec => []TypeOK
<1>1. Inv => TypeOK
  BY DEF Inv, Typed
<1> QED BY <1>1, Invariance, PTL

\* CardService.mint, award and levelUpCard neither make nor lose worth: two calls
\* that level up with a sacrifice in common make one card, not two.
THEOREM CardsConserved == Spec => []WorthConserved
<1>1. Inv => WorthConserved
  BY DEF Inv
<1> QED BY <1>1, Invariance, PTL

\* CardService.levelUpCard burns a card for its owner only, unless the card
\* changed hands after isOwnerOf was asked.
THEOREM BurnsForOwner == Spec => BurnedForOwner
<1>1. Inv /\ [Next]_vars => [\A t \in DOMAIN tokens \ DOMAIN tokens' :
        \E s \in Slots : /\ calls[s].pc = "levelUp" /\ t \in calls[s].ids
                         /\ calls[s].moved \/ tokens[t].owner = s[1]]_vars
  BY BurnsOwned DEF Inv
<1> QED BY <1>1, Invariance, PTL DEF Spec, BurnedForOwner

\* CardService.mint: at rest, the fees that were neither refunded nor turned into
\* a card are no more than the failures and the cut-off calls account for.
THEOREM FeesAccounted == Spec => []FeesSettled
<1>1. Inv => FeesSettled
  <2> SUFFICES ASSUME Inv, Quiet
               PROVE  SumFunction([u \in Users |-> Gap(u)])
                        <= issued.costly + issued.crash * Cardinality(Slots)
    BY DEF FeesSettled
  <2>1. \A u \in Users : Off(u) = Gap(u)
    <3> SUFFICES ASSUME NEW u \in Users PROVE Off(u) = Gap(u)
      OBVIOUS
    <3>1. OpenFees(u) = {}
      BY DEF Quiet, OpenFees
    <3>2. Open(u) = 0
      BY <3>1, FS_EmptySet DEF Open
    <3>3. Net(u) \in Int
      BY FeesBefore DEF FeesTyped, Inv
    <3> QED BY <3>2, <3>3 DEF Off, Gap, Net
  <2>2. [u \in Users |-> Off(u)] = [u \in Users |-> Gap(u)]
    BY <2>1
  <2> QED BY <2>2 DEF Inv, FeesOpen, Slack, SumFunction
<1> QED BY <1>1, Invariance, PTL
=============================================================================
