-------------------------------- MODULE Tokens --------------------------------
(***************************************************************************)
(* What a contract's books add up to.  Amounts are natural numbers, so a   *)
(* sum is the number of tokens: one for each unit of each account.  The    *)
(* lemmas say how a total moves when one account does, and what it is when *)
(* all hold the same.                                                      *)
(***************************************************************************)
EXTENDS Integers, FiniteSetTheorems, TLAPS

\* The tokens of the accounts in S, of which account d has amount[d].
TokensOf(amount, S) == UNION {{d} \X (1..amount[d]) : d \in S}

Total(amount) == Cardinality(TokensOf(amount, DOMAIN amount))

LEMMA TokensAreFinite ==
    ASSUME NEW S, IsFiniteSet(S), NEW amount, \A d \in S : amount[d] \in Nat
    PROVE  /\ IsFiniteSet(TokensOf(amount, S))
           /\ Cardinality(TokensOf(amount, S)) \in Nat
  <1> DEFINE heap == [d \in S |-> {d} \X (1..amount[d])]
             heaps == {{d} \X (1..amount[d]) : d \in S}
  <1>1. heap \in Surjection(S, heaps)
    BY DEF Surjection
  <1>2. IsFiniteSet(heaps)
    BY <1>1, FS_Surjection
  <1>3. ASSUME NEW d \in S
        PROVE  IsFiniteSet({d} \X (1..amount[d]))
    <2>1. IsFiniteSet(1..amount[d])
      BY <1>3, FS_Interval
    <2>2. IsFiniteSet({d})
      BY FS_Singleton
    <2> QED BY <2>1, <2>2, FS_Product
  <1>4. IsFiniteSet(UNION heaps)
    BY <1>2, <1>3, FS_UNION
  <1> QED BY <1>4, FS_CardinalityType DEF TokensOf

\* One account counted apart from the others.
LEMMA TokensApart ==
    ASSUME NEW S, IsFiniteSet(S), NEW amount, \A d \in S : amount[d] \in Nat, NEW a \in S
    PROVE  Cardinality(TokensOf(amount, S)) = amount[a] + Cardinality(TokensOf(amount, S \ {a}))
  <1> DEFINE mine == {a} \X (1..amount[a])
             others == TokensOf(amount, S \ {a})
  <1>1. TokensOf(amount, S) = mine \cup others /\ mine \cap others = {}
    BY DEF TokensOf
  <1>2. IsFiniteSet(S \ {a})
    BY FS_RemoveElement
  <1>3. IsFiniteSet(others) /\ Cardinality(others) \in Nat
    BY <1>2, TokensAreFinite
  <1>4. IsFiniteSet({a}) /\ Cardinality({a}) = 1
    BY FS_Singleton
  <1>5. IsFiniteSet(1..amount[a]) /\ Cardinality(1..amount[a]) = amount[a]
    <2>1. amount[a] \in Int /\ 1 \in Int
      OBVIOUS
    <2>2. /\ IsFiniteSet(1..amount[a])
          /\ Cardinality(1..amount[a]) = IF 1 > amount[a] THEN 0 ELSE amount[a] - 1 + 1
      BY <2>1, FS_Interval
    <2> QED BY <2>2
  <1>6. IsFiniteSet(mine) /\ Cardinality(mine) = Cardinality({a}) * Cardinality(1..amount[a])
    BY <1>4, <1>5, FS_Product
  <1>7. Cardinality(mine) = amount[a]
    BY <1>4, <1>5, <1>6
  <1> HIDE DEF mine, others
  <1>8. Cardinality(mine \cup others) =
            Cardinality(mine) + Cardinality(others) - Cardinality(mine \cap others)
    BY <1>3, <1>6, FS_Union
  <1>9. Cardinality(mine \cap others) = 0
    BY <1>1, FS_EmptySet
  <1>10. Cardinality(TokensOf(amount, S)) = amount[a] + Cardinality(others)
    BY <1>1, <1>3, <1>7, <1>8, <1>9
  <1> QED BY <1>10 DEF others

LEMMA TotalType ==
    ASSUME NEW S, IsFiniteSet(S), NEW amount \in [S -> Nat]
    PROVE  Total(amount) \in Nat
  BY TokensAreFinite DEF Total

\* A total moves by what one account does.
LEMMA TotalMoves ==
    ASSUME NEW S, IsFiniteSet(S), NEW f \in [S -> Nat], NEW g \in [S -> Nat], NEW a \in S,
           \A d \in S : d # a => g[d] = f[d]
    PROVE  Total(g) = Total(f) + (g[a] - f[a])
  <1>1. Cardinality(TokensOf(f, S)) = f[a] + Cardinality(TokensOf(f, S \ {a}))
    BY TokensApart
  <1>2. Cardinality(TokensOf(g, S)) = g[a] + Cardinality(TokensOf(g, S \ {a}))
    BY TokensApart
  <1>3. TokensOf(g, S \ {a}) = TokensOf(f, S \ {a})
    BY DEF TokensOf
  <1>4. Cardinality(TokensOf(f, S \ {a})) \in Nat
    BY FS_RemoveElement, TokensAreFinite
  <1> QED BY <1>1, <1>2, <1>3, <1>4 DEF Total

\* The members of T hold c each, the others nothing.
LEMMA TotalOfEqual ==
    ASSUME NEW S, IsFiniteSet(S), NEW T \in SUBSET S, NEW c \in Nat
    PROVE  Total([d \in S |-> IF d \in T THEN c ELSE 0]) = Cardinality(T) * c
  <1> DEFINE f == [d \in S |-> IF d \in T THEN c ELSE 0]
  <1>1. TokensOf(f, S) = T \X (1..c)
    BY DEF TokensOf
  <1>2. IsFiniteSet(T)
    BY FS_Subset
  <1>3. IsFiniteSet(1..c) /\ Cardinality(1..c) = c
    <2>1. /\ IsFiniteSet(1..c)
          /\ Cardinality(1..c) = IF 1 > c THEN 0 ELSE c - 1 + 1
      BY FS_Interval
    <2> QED BY <2>1
  <1>4. Cardinality(T \X (1..c)) = Cardinality(T) * Cardinality(1..c)
    BY <1>2, <1>3, FS_Product
  <1> QED BY <1>1, <1>3, <1>4 DEF Total
===============================================================================
