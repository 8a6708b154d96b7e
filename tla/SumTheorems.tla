---------------------------- MODULE SumTheorems ----------------------------
(* Facts about SumFunctionOnSet of the community module Functions.  The sum is *)
(* a recursive function on the subsets of a set, so each fact is an induction  *)
(* over a finite set.  Induction is done with sets instead of predicates: the  *)
(* subsets without the property would have a smallest one.                     *)
EXTENDS Integers, Functions, FiniteSetTheorems, WellFoundedInduction, TLAPS

-----------------------------------------------------------------------------
(* Induction over a finite set *)

LEMMA SmallestSubset ==
    ASSUME NEW S, IsFiniteSet(S), NEW Bad \in SUBSET (SUBSET S), Bad # {}
    PROVE  \E T \in Bad : \A U \in SUBSET T : U # T => U \notin Bad
<1>1. Bad \subseteq FiniteSubsetsOf(S)
  BY FS_Subset DEF FiniteSubsetsOf
<1>2. PICK T \in Bad : \A U \in Bad : ~(<<U, T>> \in StrictSubsetOrdering(S))
  BY <1>1, WFMin, FS_StrictSubsetOrderingWellFounded, Zenon
<1>3. ASSUME NEW U \in SUBSET T, U # T, U \in Bad
      PROVE  FALSE
  <2>1. U \in SUBSET S /\ T \in SUBSET S /\ U \subseteq T
    OBVIOUS
  <2>2. <<U, T>> \in StrictSubsetOrdering(S)
    BY <2>1, <1>3 DEF StrictSubsetOrdering
  <2> QED
    BY <2>2, <1>2, <1>3
<1> QED
  BY <1>3

LEMMA SetInduction ==
    ASSUME NEW S, IsFiniteSet(S), NEW Good, {} \in Good,
           \A T \in SUBSET S, x \in S : T \in Good /\ x \notin T => T \cup {x} \in Good
    PROVE  S \in Good
<1> SUFFICES ASSUME S \notin Good PROVE FALSE
  OBVIOUS
<1> DEFINE Bad == {T \in SUBSET S : T \notin Good}
<1>1. PICK T \in Bad : \A U \in SUBSET T : U # T => U \notin Bad
  <2>1. S \in Bad /\ Bad \in SUBSET (SUBSET S)
    OBVIOUS
  <2> HIDE DEF Bad
  <2> QED
    BY <2>1, SmallestSubset
<1>2. PICK x \in T : TRUE
  BY <1>1
<1> DEFINE U == T \ {x}
<1>3. U \in SUBSET S /\ U \in Good /\ x \in S /\ x \notin U
  BY <1>1, <1>2
<1>4. T \notin Good /\ U \cup {x} = T
  BY <1>1, <1>2
<1> HIDE DEF U, Bad
<1> QED
  BY <1>3, <1>4

\* What a function takes a finite set to is finite.
LEMMA ImageIsFinite ==
    ASSUME NEW S, IsFiniteSet(S), NEW f, NEW T, \A t \in T : \E x \in S : t = f[x]
    PROVE  IsFiniteSet(T)
<1> DEFINE I == {f[x] : x \in S}
           g == [x \in S |-> f[x]]
<1>1. g \in Surjection(S, I)
  BY DEF Surjection
<1>2. IsFiniteSet(I)
  <2> HIDE DEF g, I
  <2> QED
    BY <1>1, FS_Surjection
<1>3. T \in SUBSET I
  OBVIOUS
<1> HIDE DEF I
<1> QED
  BY <1>2, <1>3, FS_Subset

\* A finite set has an element that no other precedes in a strict order.
LEMMA FiniteSetHasBest ==
    ASSUME NEW S, IsFiniteSet(S), S # {}, NEW R,
           \A x \in S : <<x, x>> \notin R,
           \A x, y, z \in S : <<x, y>> \in R /\ <<y, z>> \in R => <<x, z>> \in R
    PROVE  \E x \in S : \A y \in S : <<y, x>> \notin R
<1> DEFINE best(T, x) == \A y \in T : <<y, x>> \notin R
           Good == {T \in SUBSET S : T = {} \/ \E x \in T : best(T, x)}
<1>1. {} \in Good
  OBVIOUS
<1>2. ASSUME NEW T \in SUBSET S, NEW x \in S, T \in Good, x \notin T
      PROVE  T \cup {x} \in Good
  <2>1. CASE T = {}
    <3>1. best({x}, x)
      OBVIOUS
    <3> QED
      BY <2>1, <3>1
  <2>2. CASE T # {}
    <3>1. PICK b \in T : best(T, b)
      BY <1>2, <2>2
    <3>2. CASE <<x, b>> \in R
      <4>1. best(T \cup {x}, x)
        BY <3>1, <3>2
      <4> QED
        BY <4>1
    <3>3. CASE <<x, b>> \notin R
      <4>1. best(T \cup {x}, b)
        BY <3>1, <3>3
      <4> QED
        BY <4>1
    <3> QED
      BY <3>2, <3>3
  <2> QED
    BY <2>1, <2>2
<1>3. S \in Good
  <2> HIDE DEF Good
  <2> QED
    BY <1>1, <1>2, SetInduction
<1> QED
  BY <1>3

-----------------------------------------------------------------------------
(* The recursive function *)

First(s) == CHOOSE x \in s : TRUE

\* What the function iter of the definition satisfies.
IsIter(f, S, iter) ==
    iter = [s \in SUBSET S |-> IF s = {} THEN 0 ELSE f[First(s)] + iter[s \ {First(s)}]]

LEMMA FirstIsElement == ASSUME NEW s, s # {} PROVE First(s) \in s
BY DEF First

LEMMA SumIsIter ==
    ASSUME NEW f, NEW S
    PROVE  SumFunctionOnSet(f, S) = (CHOOSE iter : IsIter(f, S, iter))[S]
BY DEF SumFunctionOnSet, FoldFunctionOnSet, MapThenFoldSet, IsIter, First

LEMMA IterIsUnique ==
    ASSUME NEW f, NEW S, IsFiniteSet(S), NEW T \in SUBSET S, NEW g, NEW h,
           IsIter(f, S, g), IsIter(f, T, h), NEW U \in SUBSET T
    PROVE  g[U] = h[U]
<1> SUFFICES ASSUME g[U] # h[U] PROVE FALSE
  OBVIOUS
<1> DEFINE Bad == {V \in SUBSET T : g[V] # h[V]}
<1>1. IsFiniteSet(T) /\ U \in Bad /\ Bad \in SUBSET (SUBSET T)
  BY FS_Subset
<1>2. PICK V \in Bad : \A W \in SUBSET V : W # V => W \notin Bad
  <2> HIDE DEF Bad
  <2> QED
    BY <1>1, SmallestSubset
<1>3. V \in SUBSET T /\ V \in SUBSET S
  BY <1>2
<1>4. g[V] = IF V = {} THEN 0 ELSE f[First(V)] + g[V \ {First(V)}]
  BY <1>3 DEF IsIter
<1>5. h[V] = IF V = {} THEN 0 ELSE f[First(V)] + h[V \ {First(V)}]
  BY <1>3 DEF IsIter
<1>6. V # {}
  BY <1>2, <1>4, <1>5
<1>7. V \ {First(V)} \in SUBSET V /\ V \ {First(V)} # V
  BY <1>6, FirstIsElement
<1>8. g[V \ {First(V)}] = h[V \ {First(V)}]
  BY <1>2, <1>3, <1>7
<1> QED
  BY <1>2, <1>4, <1>5, <1>6, <1>8

LEMMA IterExists ==
    ASSUME NEW f, NEW S, IsFiniteSet(S)
    PROVE  \E iter : IsIter(f, S, iter)
<1> SUFFICES ASSUME ~\E iter : IsIter(f, S, iter) PROVE FALSE
  OBVIOUS
<1> DEFINE Bad == {T \in SUBSET S : ~\E iter : IsIter(f, T, iter)}
<1>1. S \in Bad /\ Bad \in SUBSET (SUBSET S)
  OBVIOUS
<1>2. PICK T \in Bad : \A U \in SUBSET T : U # T => U \notin Bad
  <2> HIDE DEF Bad
  <2> QED
    BY <1>1, SmallestSubset
<1> DEFINE of(U) == CHOOSE iter : IsIter(f, U, iter)
           rest(s) == s \ {First(s)}
           iter == [s \in SUBSET T |->
                      IF s = {} THEN 0 ELSE f[First(s)] + of(rest(s))[rest(s)]]
<1>3. \A U \in SUBSET T : U # T => IsIter(f, U, of(U))
  <2> SUFFICES ASSUME NEW U \in SUBSET T, U # T PROVE IsIter(f, U, of(U))
    OBVIOUS
  <2>1. \E g : IsIter(f, U, g)
    BY <1>2
  <2> QED
    BY <2>1
<1>4. \A s \in SUBSET T : s # {} => rest(s) \in SUBSET T /\ rest(s) # T /\ rest(s) # s /\ rest(s) \in SUBSET s
  BY FirstIsElement
<1>5. ASSUME NEW s \in SUBSET T, s # {}
      PROVE  iter[rest(s)] = of(rest(s))[rest(s)]
  <2> DEFINE u == rest(s)
  <2>1. u \in SUBSET T /\ u # T
    BY <1>4, <1>5
  <2>2. IsIter(f, u, of(u))
    BY <2>1, <1>3
  <2>3. of(u)[u] = IF u = {} THEN 0 ELSE f[First(u)] + of(u)[rest(u)]
    <3> HIDE DEF of, rest
    <3>1. of(u)[u] = IF u = {} THEN 0 ELSE f[First(u)] + of(u)[u \ {First(u)}]
      <4> DEFINE g == of(u)
      <4>1. IsIter(f, u, g)
        BY <2>2
      <4> HIDE DEF g, u
      <4>2. u \in SUBSET u
        OBVIOUS
      <4> QED
        BY <4>1, <4>2 DEF IsIter, g
    <3> QED
      BY <3>1 DEF rest
  <2>4. CASE u = {}
    BY <2>1, <2>3, <2>4
  <2>5. CASE u # {}
    <3>1. rest(u) \in SUBSET u /\ rest(u) # T /\ rest(u) \in SUBSET T
      BY <2>1, <2>5, <1>4
    <3>2. IsIter(f, rest(u), of(rest(u)))
      BY <3>1, <1>3
    <3>3. IsFiniteSet(u) /\ rest(u) \in SUBSET rest(u)
      <4>1. u \in SUBSET S
        BY <2>1, <1>2
      <4> QED
        BY <4>1, FS_Subset
    <3>4. of(u)[rest(u)] = of(rest(u))[rest(u)]
      <4> HIDE DEF of, rest, u
      <4> QED
        BY <2>2, <3>1, <3>2, <3>3, IterIsUnique
    <3>5. iter[u] = f[First(u)] + of(rest(u))[rest(u)]
      <4> HIDE DEF of, rest, u
      <4> QED
        BY <2>1, <2>5
    <3> QED
      BY <2>3, <2>5, <3>4, <3>5
  <2> QED
    BY <2>4, <2>5
<1>6. IsIter(f, T, iter)
  <2>1. \A s \in SUBSET T : s # {} => f[First(s)] + of(rest(s))[rest(s)] = f[First(s)] + iter[rest(s)]
    BY <1>5
  <2>2. iter = [s \in SUBSET T |-> IF s = {} THEN 0 ELSE f[First(s)] + iter[rest(s)]]
    <3> HIDE DEF of, rest
    <3> DEFINE jter == [s \in SUBSET T |-> IF s = {} THEN 0 ELSE f[First(s)] + iter[rest(s)]]
    <3>1. \A s \in SUBSET T : iter[s] = jter[s]
      <4> SUFFICES ASSUME NEW s \in SUBSET T PROVE iter[s] = jter[s]
        OBVIOUS
      <4>1. iter[s] = IF s = {} THEN 0 ELSE f[First(s)] + of(rest(s))[rest(s)]
        OBVIOUS
      <4>2. jter[s] = IF s = {} THEN 0 ELSE f[First(s)] + iter[rest(s)]
        OBVIOUS
      <4> QED
        BY <4>1, <4>2, <2>1
    <3>2. /\ DOMAIN iter = DOMAIN jter
          /\ iter = [s \in DOMAIN iter |-> iter[s]]
          /\ jter = [s \in DOMAIN jter |-> jter[s]]
      OBVIOUS
    <3> QED
      BY <3>1, <3>2
  <2> QED
    BY <2>2 DEF IsIter
<1>7. \E g : IsIter(f, T, g)
  BY <1>6
<1> QED
  BY <1>2, <1>7

LEMMA ChosenIter ==
    ASSUME NEW f, NEW S, IsFiniteSet(S)
    PROVE  \E iter : IsIter(f, S, iter) /\ SumFunctionOnSet(f, S) = iter[S]
<1> DEFINE it == CHOOSE iter : IsIter(f, S, iter)
<1>1. IsIter(f, S, it)
  BY IterExists
<1>2. SumFunctionOnSet(f, S) = it[S]
  BY SumIsIter
<1> QED
  BY <1>1, <1>2

-----------------------------------------------------------------------------
(* Adding and removing elements *)

LEMMA SumEmpty == ASSUME NEW f PROVE SumFunctionOnSet(f, {}) = 0
<1>1. PICK iter : IsIter(f, {}, iter) /\ SumFunctionOnSet(f, {}) = iter[{}]
  BY ChosenIter, FS_EmptySet
<1> QED
  BY <1>1 DEF IsIter

LEMMA SumFirst ==
    ASSUME NEW f, NEW S, IsFiniteSet(S), S # {}
    PROVE  SumFunctionOnSet(f, S) = f[First(S)] + SumFunctionOnSet(f, S \ {First(S)})
<1> DEFINE R == S \ {First(S)}
<1>1. R \in SUBSET S /\ IsFiniteSet(R)
  BY FS_Subset
<1>2. PICK g : IsIter(f, S, g) /\ SumFunctionOnSet(f, S) = g[S]
  BY ChosenIter
<1>3. PICK h : IsIter(f, R, h) /\ SumFunctionOnSet(f, R) = h[R]
  BY <1>1, ChosenIter
<1>4. g[S] = f[First(S)] + g[R]
  BY <1>2, S \in SUBSET S DEF IsIter
<1>5. g[R] = h[R]
  <2> HIDE DEF R
  <2> QED
    BY <1>1, <1>2, <1>3, R \in SUBSET R, IterIsUnique
<1> QED
  BY <1>2, <1>3, <1>4, <1>5

LEMMA SumType ==
    ASSUME NEW f, NEW S, IsFiniteSet(S), \A x \in S : f[x] \in Int
    PROVE  SumFunctionOnSet(f, S) \in Int
<1> SUFFICES ASSUME SumFunctionOnSet(f, S) \notin Int PROVE FALSE
  OBVIOUS
<1> DEFINE Bad == {T \in SUBSET S : SumFunctionOnSet(f, T) \notin Int}
<1>1. S \in Bad /\ Bad \in SUBSET (SUBSET S)
  OBVIOUS
<1>2. PICK T \in Bad : \A U \in SUBSET T : U # T => U \notin Bad
  <2> HIDE DEF Bad
  <2> QED
    BY <1>1, SmallestSubset
<1>3. T \in SUBSET S /\ IsFiniteSet(T) /\ SumFunctionOnSet(f, T) \notin Int
  BY <1>2, FS_Subset
<1>4. T # {}
  BY <1>3, SumEmpty
<1>5. First(T) \in T
  BY <1>4, FirstIsElement
<1> DEFINE U == T \ {First(T)}
<1>6. U \in SUBSET T /\ U # T /\ U \in SUBSET S
  BY <1>3, <1>5
<1>7. SumFunctionOnSet(f, U) \in Int
  <2> HIDE DEF U
  <2> QED
    BY <1>2, <1>6
<1>8. SumFunctionOnSet(f, T) = f[First(T)] + SumFunctionOnSet(f, U)
  BY <1>3, <1>4, SumFirst
<1> QED
  BY <1>3, <1>5, <1>7, <1>8

\* The order does not matter: any element may come first.
LEMMA SumRemove ==
    ASSUME NEW f, NEW S, IsFiniteSet(S), \A y \in S : f[y] \in Int, NEW x \in S
    PROVE  SumFunctionOnSet(f, S) = f[x] + SumFunctionOnSet(f, S \ {x})
<1> DEFINE Fine(T) == \A z \in T : SumFunctionOnSet(f, T) = f[z] + SumFunctionOnSet(f, T \ {z})
<1> SUFFICES ASSUME ~Fine(S) PROVE FALSE
  OBVIOUS
<1> DEFINE Bad == {T \in SUBSET S : ~Fine(T)}
<1>1. S \in Bad /\ Bad \in SUBSET (SUBSET S)
  OBVIOUS
<1>2. PICK T \in Bad : \A U \in SUBSET T : U # T => U \notin Bad
  <2> HIDE DEF Bad
  <2> QED
    BY <1>1, SmallestSubset
<1>3. T \in SUBSET S /\ IsFiniteSet(T) /\ ~Fine(T)
  BY <1>2, FS_Subset
<1>4. PICK z \in T : SumFunctionOnSet(f, T) # f[z] + SumFunctionOnSet(f, T \ {z})
  BY <1>3
<1> DEFINE c == First(T)
<1>5. c \in T
  BY <1>4, FirstIsElement
<1>6. SumFunctionOnSet(f, T) = f[c] + SumFunctionOnSet(f, T \ {c})
  BY <1>3, <1>5, SumFirst
<1>7. c # z
  BY <1>4, <1>6
<1> HIDE DEF c
<1>8. /\ T \ {c} \in SUBSET T /\ T \ {c} # T /\ z \in T \ {c} /\ T \ {c} \in SUBSET S
      /\ T \ {z} \in SUBSET S /\ IsFiniteSet(T \ {z}) /\ IsFiniteSet((T \ {z}) \ {c})
  BY <1>3, <1>5, <1>7, FS_Subset
<1>9. Fine(T \ {c})
  BY <1>2, <1>8
<1>10. SumFunctionOnSet(f, T \ {c}) = f[z] + SumFunctionOnSet(f, (T \ {c}) \ {z})
  BY <1>8, <1>9
<1>11. (T \ {c}) \ {z} = (T \ {z}) \ {c}
  OBVIOUS
<1>12. SumFunctionOnSet(f, T \ {z}) = f[c] + SumFunctionOnSet(f, (T \ {z}) \ {c})
  <2> DEFINE V == T \ {z}
  <2>0. V \in SUBSET S /\ c \in V /\ IsFiniteSet(V) /\ V # T /\ V \in SUBSET T
    BY <1>3, <1>5, <1>7, <1>8
  <2> HIDE DEF V
  <2>1. V \notin Bad
    <3> HIDE DEF Bad
    <3> QED
      BY <1>2, <2>0
  <2>2. SumFunctionOnSet(f, V) = f[c] + SumFunctionOnSet(f, V \ {c})
    BY <2>0, <2>1
  <2> QED
    BY <2>2 DEF V
<1>13. f[c] \in Int /\ f[z] \in Int /\ SumFunctionOnSet(f, (T \ {z}) \ {c}) \in Int
  <2>1. \A y \in (T \ {z}) \ {c} : f[y] \in Int
    BY <1>3
  <2> QED
    BY <2>1, <1>3, <1>5, <1>8, SumType
<1>14. SumFunctionOnSet(f, T) = f[c] + (f[z] + SumFunctionOnSet(f, (T \ {z}) \ {c}))
  BY <1>6, <1>10, <1>11
<1>15. SumFunctionOnSet(f, T) = f[z] + (f[c] + SumFunctionOnSet(f, (T \ {z}) \ {c}))
  <2> DEFINE rest == SumFunctionOnSet(f, (T \ {z}) \ {c})
  <2> HIDE DEF rest
  <2> QED
    BY <1>13, <1>14 DEF rest
<1> QED
  BY <1>4, <1>12, <1>15

LEMMA SumAdd ==
    ASSUME NEW f, NEW S, IsFiniteSet(S), NEW x, x \notin S,
           \A y \in S : f[y] \in Int, f[x] \in Int
    PROVE  SumFunctionOnSet(f, S \cup {x}) = f[x] + SumFunctionOnSet(f, S)
<1> DEFINE T == S \cup {x}
<1>1. IsFiniteSet(T)
  BY FS_AddElement
<1>2. x \in T /\ T \ {x} = S /\ \A y \in T : f[y] \in Int
  OBVIOUS
<1> HIDE DEF T
<1>3. SumFunctionOnSet(f, T) = f[x] + SumFunctionOnSet(f, T \ {x})
  BY <1>1, <1>2, SumRemove
<1> QED
  BY <1>2, <1>3 DEF T

LEMMA SumSingle ==
    ASSUME NEW f, NEW x, f[x] \in Int
    PROVE  SumFunctionOnSet(f, {x}) = f[x]
<1>1. SumFunctionOnSet(f, {} \cup {x}) = f[x] + SumFunctionOnSet(f, {})
  BY FS_EmptySet, SumAdd
<1> QED
  BY <1>1, SumEmpty, {} \cup {x} = {x}

-----------------------------------------------------------------------------
(* Comparing sums over one set *)

LEMMA SumAtMost ==
    ASSUME NEW S, IsFiniteSet(S), NEW f, NEW g,
           \A x \in S : f[x] \in Int /\ g[x] \in Int /\ f[x] <= g[x]
    PROVE  SumFunctionOnSet(f, S) <= SumFunctionOnSet(g, S)
<1> DEFINE Good == {T \in SUBSET S : SumFunctionOnSet(f, T) <= SumFunctionOnSet(g, T)}
<1>1. {} \in Good
  BY SumEmpty
<1>2. ASSUME NEW T \in SUBSET S, NEW x \in S, T \in Good, x \notin T
      PROVE  T \cup {x} \in Good
  <2>1. IsFiniteSet(T)
    BY FS_Subset
  <2>2. SumFunctionOnSet(f, T) \in Int /\ SumFunctionOnSet(g, T) \in Int
    BY <2>1, SumType
  <2>3. SumFunctionOnSet(f, T \cup {x}) = f[x] + SumFunctionOnSet(f, T)
    BY <1>2, <2>1, SumAdd
  <2>4. SumFunctionOnSet(g, T \cup {x}) = g[x] + SumFunctionOnSet(g, T)
    BY <1>2, <2>1, SumAdd
  <2> QED
    BY <1>2, <2>2, <2>3, <2>4
<1>3. S \in Good
  <2> HIDE DEF Good
  <2> QED
    BY <1>1, <1>2, SetInduction
<1> QED
  BY <1>3

LEMMA SumSame ==
    ASSUME NEW S, IsFiniteSet(S), NEW f, NEW g, \A x \in S : f[x] \in Int /\ f[x] = g[x]
    PROVE  SumFunctionOnSet(f, S) = SumFunctionOnSet(g, S)
<1>1. \A x \in S : f[x] \in Int /\ g[x] \in Int /\ f[x] <= g[x] /\ g[x] <= f[x]
  OBVIOUS
<1>2. SumFunctionOnSet(f, S) <= SumFunctionOnSet(g, S)
  BY <1>1, SumAtMost
<1>3. SumFunctionOnSet(g, S) <= SumFunctionOnSet(f, S)
  BY <1>1, SumAtMost
<1>4. SumFunctionOnSet(f, S) \in Int /\ SumFunctionOnSet(g, S) \in Int
  BY <1>1, SumType
<1> QED
  BY <1>2, <1>3, <1>4

LEMMA SumZero ==
    ASSUME NEW S, IsFiniteSet(S), NEW f, \A x \in S : f[x] = 0
    PROVE  SumFunctionOnSet(f, S) = 0
<1> DEFINE Good == {T \in SUBSET S : SumFunctionOnSet(f, T) = 0}
<1>1. {} \in Good
  BY SumEmpty
<1>2. ASSUME NEW T \in SUBSET S, NEW x \in S, T \in Good, x \notin T
      PROVE  T \cup {x} \in Good
  <2>1. IsFiniteSet(T) /\ f[x] \in Int /\ \A y \in T : f[y] \in Int
    BY FS_Subset
  <2>2. SumFunctionOnSet(f, T \cup {x}) = f[x] + SumFunctionOnSet(f, T)
    BY <1>2, <2>1, SumAdd
  <2> QED
    BY <1>2, <2>2
<1>3. S \in Good
  <2> HIDE DEF Good
  <2> QED
    BY <1>1, <1>2, SetInduction
<1> QED
  BY <1>3

LEMMA SumNat ==
    ASSUME NEW S, IsFiniteSet(S), NEW f, \A x \in S : f[x] \in Nat
    PROVE  SumFunctionOnSet(f, S) \in Nat
<1> DEFINE zero == [x \in S |-> 0]
<1>1. SumFunctionOnSet(zero, S) = 0
  <2>1. \A x \in S : zero[x] = 0
    OBVIOUS
  <2> QED
    BY <2>1, SumZero
<1>2. SumFunctionOnSet(zero, S) <= SumFunctionOnSet(f, S)
  <2>1. \A x \in S : zero[x] \in Int /\ f[x] \in Int /\ zero[x] <= f[x]
    OBVIOUS
  <2> HIDE DEF zero
  <2> QED
    BY <2>1, SumAtMost
<1>3. SumFunctionOnSet(f, S) \in Int
  BY SumType
<1> HIDE DEF zero
<1> QED
  BY <1>1, <1>2, <1>3

LEMMA SumPlus ==
    ASSUME NEW S, IsFiniteSet(S), NEW f, NEW g, NEW h,
           \A x \in S : f[x] \in Int /\ g[x] \in Int /\ h[x] = f[x] + g[x]
    PROVE  SumFunctionOnSet(h, S) = SumFunctionOnSet(f, S) + SumFunctionOnSet(g, S)
<1> DEFINE Good == {T \in SUBSET S :
                      SumFunctionOnSet(h, T) = SumFunctionOnSet(f, T) + SumFunctionOnSet(g, T)}
<1>1. {} \in Good
  BY SumEmpty
<1>2. ASSUME NEW T \in SUBSET S, NEW x \in S, T \in Good, x \notin T
      PROVE  T \cup {x} \in Good
  <2>1. IsFiniteSet(T) /\ \A y \in S : h[y] \in Int
    BY FS_Subset
  <2>2. SumFunctionOnSet(f, T) \in Int /\ SumFunctionOnSet(g, T) \in Int
    BY <2>1, SumType
  <2>3. SumFunctionOnSet(f, T \cup {x}) = f[x] + SumFunctionOnSet(f, T)
    BY <1>2, <2>1, SumAdd
  <2>4. SumFunctionOnSet(g, T \cup {x}) = g[x] + SumFunctionOnSet(g, T)
    BY <1>2, <2>1, SumAdd
  <2>5. SumFunctionOnSet(h, T \cup {x}) = h[x] + SumFunctionOnSet(h, T)
    BY <1>2, <2>1, SumAdd
  <2> QED
    BY <1>2, <2>2, <2>3, <2>4, <2>5
<1>3. S \in Good
  <2> HIDE DEF Good
  <2> QED
    BY <1>1, <1>2, SetInduction
<1> QED
  BY <1>3

-----------------------------------------------------------------------------
(* Sums over several sets *)

LEMMA SumUnion ==
    ASSUME NEW f, NEW S, NEW T, IsFiniteSet(S), IsFiniteSet(T), S \cap T = {},
           \A x \in S \cup T : f[x] \in Int
    PROVE  SumFunctionOnSet(f, S \cup T) = SumFunctionOnSet(f, S) + SumFunctionOnSet(f, T)
<1> DEFINE Good == {U \in SUBSET T :
                      SumFunctionOnSet(f, S \cup U) = SumFunctionOnSet(f, S) + SumFunctionOnSet(f, U)}
<1>0. SumFunctionOnSet(f, S) \in Int
  BY SumType
<1>1. {} \in Good
  BY <1>0, SumEmpty, S \cup {} = S
<1>2. ASSUME NEW U \in SUBSET T, NEW x \in T, U \in Good, x \notin U
      PROVE  U \cup {x} \in Good
  <2> DEFINE V == S \cup U
  <2>1. IsFiniteSet(U) /\ IsFiniteSet(V)
    BY FS_Subset, FS_Union
  <2>2. x \notin V /\ f[x] \in Int /\ \A y \in V : f[y] \in Int
    BY <1>2
  <2>3. SumFunctionOnSet(f, U) \in Int
    BY <2>1, SumType
  <2>4. SumFunctionOnSet(f, U \cup {x}) = f[x] + SumFunctionOnSet(f, U)
    BY <1>2, <2>1, SumAdd
  <2>5. SumFunctionOnSet(f, V \cup {x}) = f[x] + SumFunctionOnSet(f, V)
    <3> HIDE DEF V
    <3> QED
      BY <2>1, <2>2, SumAdd
  <2>6. V \cup {x} = S \cup (U \cup {x})
    OBVIOUS
  <2>7. SumFunctionOnSet(f, V) = SumFunctionOnSet(f, S) + SumFunctionOnSet(f, U)
    BY <1>2
  <2> HIDE DEF V
  <2>8. SumFunctionOnSet(f, V \cup {x})
          = SumFunctionOnSet(f, S) + SumFunctionOnSet(f, U \cup {x})
    BY <2>2, <2>3, <2>4, <2>5, <2>7, <1>0
  <2> QED
    BY <2>6, <2>8
<1>3. T \in Good
  <2> HIDE DEF Good
  <2> QED
    BY <1>1, <1>2, SetInduction
<1> QED
  BY <1>3

\* Elements whose value is zero can be left out.
LEMMA SumNonZero ==
    ASSUME NEW f, NEW S, IsFiniteSet(S), \A x \in S : f[x] \in Int,
           NEW T \in SUBSET S, \A x \in S \ T : f[x] = 0
    PROVE  SumFunctionOnSet(f, S) = SumFunctionOnSet(f, T)
<1> DEFINE Z == S \ T
<1>1. IsFiniteSet(T) /\ IsFiniteSet(Z) /\ T \cap Z = {} /\ T \cup Z = S
  BY FS_Subset
<1>2. SumFunctionOnSet(f, Z) = 0
  BY <1>1, SumZero
<1> HIDE DEF Z
<1>3. SumFunctionOnSet(f, S) = SumFunctionOnSet(f, T) + SumFunctionOnSet(f, Z)
  BY <1>1, SumUnion
<1>4. SumFunctionOnSet(f, T) \in Int
  BY <1>1, SumType
<1> QED
  BY <1>2, <1>3, <1>4

\* A sum is the sum over the groups of the sums over each group.
LEMMA SumGroups ==
    ASSUME NEW S, IsFiniteSet(S), NEW f, \A x \in S : f[x] \in Int,
           NEW K, IsFiniteSet(K), NEW key, \A x \in S : key[x] \in K,
           NEW group, \A k \in K : group[k] = {x \in S : key[x] = k},
           NEW g, \A k \in K : g[k] = SumFunctionOnSet(f, group[k])
    PROVE  SumFunctionOnSet(f, S) = SumFunctionOnSet(g, K)
<1> DEFINE Part(L) == {x \in S : key[x] \in L}
           Good == {L \in SUBSET K : SumFunctionOnSet(f, Part(L)) = SumFunctionOnSet(g, L)}
<1>0. \A k \in K : g[k] \in Int
  <2> SUFFICES ASSUME NEW k \in K PROVE g[k] \in Int
    OBVIOUS
  <2> DEFINE P == group[k]
  <2>1. IsFiniteSet(P) /\ \A x \in P : f[x] \in Int
    BY FS_Subset
  <2>2. g[k] = SumFunctionOnSet(f, P)
    OBVIOUS
  <2> HIDE DEF P
  <2> QED
    BY <2>1, <2>2, SumType
<1>1. {} \in Good
  <2>1. Part({}) = {}
    OBVIOUS
  <2> QED
    BY <2>1, SumEmpty
<1>2. ASSUME NEW L \in SUBSET K, NEW k \in K, L \in Good, k \notin L
      PROVE  L \cup {k} \in Good
  <2> DEFINE A == Part(L)
             B == group[k]
  <2>1. /\ IsFiniteSet(A) /\ IsFiniteSet(B) /\ A \cap B = {} /\ Part(L \cup {k}) = A \cup B
        /\ \A x \in A \cup B : f[x] \in Int
    BY <1>2, FS_Subset
  <2>2. SumFunctionOnSet(f, A) = SumFunctionOnSet(g, L) /\ SumFunctionOnSet(f, B) = g[k]
    BY <1>2
  <2> HIDE DEF A, B
  <2>3. SumFunctionOnSet(f, A \cup B) = SumFunctionOnSet(f, A) + SumFunctionOnSet(f, B)
    BY <2>1, SumUnion
  <2>4. SumFunctionOnSet(g, L \cup {k}) = g[k] + SumFunctionOnSet(g, L)
    BY <1>0, <1>2, FS_Subset, SumAdd
  <2>5. SumFunctionOnSet(g, L) \in Int /\ g[k] \in Int
    BY <1>0, FS_Subset, SumType
  <2>6. SumFunctionOnSet(f, A \cup B) = SumFunctionOnSet(g, L \cup {k})
    BY <2>2, <2>3, <2>4, <2>5
  <2>7. L \cup {k} \in SUBSET K
    OBVIOUS
  <2> HIDE DEF Part
  <2> QED
    BY <2>1, <2>6, <2>7
<1>3. K \in Good
  <2> HIDE DEF Good
  <2> QED
    BY <1>1, <1>2, SetInduction
<1>4. Part(K) = S
  OBVIOUS
<1> QED
  BY <1>3, <1>4

\* b takes S to T one to one.
Renames(b, S, T) ==
    /\ \A x \in S : b[x] \in T
    /\ \A x, y \in S : b[x] = b[y] => x = y
    /\ \A t \in T : \E x \in S : b[x] = t

\* A sum does not depend on how its elements are named.
LEMMA SumRename ==
    ASSUME NEW S, IsFiniteSet(S), NEW f, \A x \in S : f[x] \in Int,
           NEW T, NEW b, Renames(b, S, T),
           NEW g, \A x \in S : g[b[x]] = f[x]
    PROVE  IsFiniteSet(T) /\ SumFunctionOnSet(f, S) = SumFunctionOnSet(g, T)
<1>0. /\ \A x \in S : b[x] \in T
      /\ \A x, y \in S : b[x] = b[y] => x = y
      /\ \A t \in T : \E x \in S : b[x] = t
  BY DEF Renames
<1>1. IsFiniteSet(T)
  <2> DEFINE bb == [x \in S |-> b[x]]
  <2>1. bb \in Surjection(S, T)
    BY <1>0 DEF Surjection
  <2> QED
    BY <2>1, FS_Surjection
<1> DEFINE group == [t \in T |-> {x \in S : b[x] = t}]
<1>2. \A t \in T : g[t] = SumFunctionOnSet(f, group[t])
  <2> SUFFICES ASSUME NEW t \in T PROVE g[t] = SumFunctionOnSet(f, group[t])
    OBVIOUS
  <2>1. PICK x \in S : b[x] = t
    BY <1>0
  <2>2. group[t] = {x}
    BY <1>0, <2>1
  <2>3. SumFunctionOnSet(f, {x}) = f[x]
    BY SumSingle
  <2> QED
    BY <2>1, <2>2, <2>3
<1>3. \A t \in T : group[t] = {x \in S : b[x] = t}
  OBVIOUS
<1> HIDE DEF group
<1>4. SumFunctionOnSet(f, S) = SumFunctionOnSet(g, T)
  BY <1>0, <1>1, <1>2, <1>3, SumGroups
<1> QED
  BY <1>1, <1>4

LEMMA SumGrows ==
    ASSUME NEW f, NEW S, IsFiniteSet(S), \A x \in S : f[x] \in Nat, NEW T \in SUBSET S
    PROVE  SumFunctionOnSet(f, T) <= SumFunctionOnSet(f, S)
<1> DEFINE R == S \ T
<1>1. IsFiniteSet(T) /\ IsFiniteSet(R) /\ T \cap R = {} /\ T \cup R = S
  BY FS_Subset
<1>2. \A x \in T \cup R : f[x] \in Int /\ f[x] \in Nat
  OBVIOUS
<1> HIDE DEF R
<1>3. SumFunctionOnSet(f, T \cup R) = SumFunctionOnSet(f, T) + SumFunctionOnSet(f, R)
  BY <1>1, <1>2, SumUnion
<1>4. SumFunctionOnSet(f, T) \in Nat /\ SumFunctionOnSet(f, R) \in Nat
  BY <1>1, <1>2, SumNat
<1>5. SumFunctionOnSet(f, T) <= SumFunctionOnSet(f, T \cup R)
  BY <1>3, <1>4
<1> QED
  BY <1>1, <1>5

-----------------------------------------------------------------------------
(* SumFunction, the sum over the domain *)

LEMMA SumOfPart ==
    ASSUME NEW h, IsFiniteSet(DOMAIN h), NEW f, \A x \in DOMAIN h : f[x] \in Int /\ h[x] = f[x]
    PROVE  SumFunction(h) = SumFunctionOnSet(f, DOMAIN h)
<1>1. SumFunction(h) = SumFunctionOnSet(h, DOMAIN h)
  BY DEF SumFunction
<1>2. SumFunctionOnSet(h, DOMAIN h) = SumFunctionOnSet(f, DOMAIN h)
  BY SumSame
<1> QED
  BY <1>1, <1>2

\* A table with one row for each index adds up like the indices.
LEMMA SumOfTable ==
    ASSUME NEW K, IsFiniteSet(K), NEW g, \A k \in K : g[k] \in Int,
           NEW T, NEW row, Renames(row, K, T),
           NEW h, DOMAIN h = T, \A k \in K : h[row[k]] = g[k]
    PROVE  SumFunction(h) = SumFunctionOnSet(g, K)
<1>1. SumFunctionOnSet(g, K) = SumFunctionOnSet(h, T)
  BY SumRename
<1> QED
  BY <1>1 DEF SumFunction
=============================================================================
