---------------------------- MODULE MCFigures_proofs ----------------------------
(****************************************************************************)
(* Proofs that the figures agree: for any tables of rows, contributions and *)
(* goals, and for any tournaments, events and entries of the bankroll.      *)
(****************************************************************************)
EXTENDS MCFigures, TLAPS, FiniteSetTheorems

-------------------------------------------------------------------------------
(* Sums over finite sets.                                                     *)

\* Induction: among the sets of a family of subsets of a finite set there is one
\* that includes no other.
LEMMA SmallestSet ==
  ASSUME NEW S, IsFiniteSet(S), NEW Family \in SUBSET SUBSET S, Family # {}
  PROVE  \E T \in Family : \A U \in SUBSET T : U # T => U \notin Family
<1>1. IsWellFoundedOn(StrictSubsetOrdering(S), SUBSET S)
  BY FS_StrictSubsetOrderingWellFounded, FS_FiniteSubsetsOfFinite
<1>2. PICK T \in Family : \A U \in Family : <<U, T>> \notin StrictSubsetOrdering(S)
  BY <1>1, WFMin
<1>3. ASSUME NEW U \in SUBSET T, U # T, U \in Family PROVE FALSE
  BY <1>2, <1>3 DEF StrictSubsetOrdering
<1> QED
  BY <1>3

\* The element of s that the folds of the library take first.
First(s) == CHOOSE x \in s : TRUE

LEMMA FirstIsIn == ASSUME NEW s, s # {} PROVE First(s) \in s
  BY DEF First

\* sums[s] is the sum of the values f[x] of the elements x of s.
Sums(f, S, sums) ==
    sums = [s \in SUBSET S |-> IF s = {} THEN 0 ELSE f[First(s)] + sums[s \ {First(s)}]]

\* The sum of the library is one of them.
LEMMA SumUnfolds ==
  ASSUME NEW S, NEW f
  PROVE  SumFunctionOnSet(f, S) = (CHOOSE sums : Sums(f, S, sums))[S]
  BY DEF SumFunctionOnSet, FoldFunctionOnSet, MapThenFoldSet, Sums, First

\* There is one such function at most.
LEMMA SumsUnique ==
  ASSUME NEW S, IsFiniteSet(S), NEW f, NEW a, NEW b, Sums(f, S, a), Sums(f, S, b)
  PROVE  a = b
<1> DEFINE Differ == {s \in SUBSET S : a[s] # b[s]}
<1>1. ASSUME Differ # {} PROVE FALSE
  <2>1. PICK s \in Differ : \A t \in SUBSET s : t # s => t \notin Differ
    <3>1. Differ \in SUBSET SUBSET S
      OBVIOUS
    <3> HIDE DEF Differ
    <3> QED
      BY <1>1, <3>1, SmallestSet
  <2>2. s # {}
    BY <2>1 DEF Sums
  <2>3. First(s) \in s /\ s \ {First(s)} \in SUBSET s /\ s \ {First(s)} # s /\ s \ {First(s)} \in SUBSET S
    BY <2>1, <2>2, FirstIsIn
  <2>4. a[s \ {First(s)}] = b[s \ {First(s)}]
    BY <2>1, <2>3
  <2>5. /\ a[s] = f[First(s)] + a[s \ {First(s)}]
        /\ b[s] = f[First(s)] + b[s \ {First(s)}]
    BY <2>1, <2>2 DEF Sums
  <2> QED
    BY <2>1, <2>4, <2>5
<1>2. \A s \in SUBSET S : a[s] = b[s]
  BY <1>1
<1>3. a = [s \in SUBSET S |-> a[s]] /\ b = [s \in SUBSET S |-> b[s]]
  BY DEF Sums
<1> QED
  BY <1>2, <1>3

\* The sums of the subsets of a set are among those of the set.
LEMMA SumsWithin ==
  ASSUME NEW S, NEW T \in SUBSET S, NEW f, NEW a, Sums(f, S, a)
  PROVE  Sums(f, T, [s \in SUBSET T |-> a[s]])
<1> DEFINE b == [s \in SUBSET T |-> a[s]]
<1>1. ASSUME NEW s \in SUBSET T
      PROVE  b[s] = IF s = {} THEN 0 ELSE f[First(s)] + b[s \ {First(s)}]
  <2>1. s \in SUBSET S /\ s \ {First(s)} \in SUBSET T
    OBVIOUS
  <2>2. a[s] = IF s = {} THEN 0 ELSE f[First(s)] + a[s \ {First(s)}]
    BY <2>1 DEF Sums
  <2> QED
    BY <2>1, <2>2
<1>2. b = [s \in SUBSET T |-> b[s]]
  OBVIOUS
<1> HIDE DEF b
<1>3. Sums(f, T, b)
  BY <1>1, <1>2 DEF Sums
<1> QED
  BY <1>3 DEF b

\* A finite set has such a function.
LEMMA SumsExist ==
  ASSUME NEW S, IsFiniteSet(S), NEW f
  PROVE  \E sums : Sums(f, S, sums)
<1> DEFINE Without == {T \in SUBSET S : \A sums : ~Sums(f, T, sums)}
<1>1. ASSUME Without # {} PROVE FALSE
  <2>1. PICK T \in Without : \A U \in SUBSET T : U # T => U \notin Without
    <3>1. Without \in SUBSET SUBSET S
      OBVIOUS
    <3> HIDE DEF Without
    <3> QED
      BY <1>1, <3>1, SmallestSet
  <2> DEFINE SumsOf(s) == CHOOSE sums : Sums(f, s, sums)
             value == [s \in SUBSET T |-> IF s = {} THEN 0
                                          ELSE f[First(s)] + SumsOf(s \ {First(s)})[s \ {First(s)}]]
  <2>2. ASSUME NEW s \in SUBSET T, s # T PROVE Sums(f, s, SumsOf(s))
    <3>1. s \in SUBSET S /\ s \notin Without
      BY <2>1, <2>2
    <3> QED
      BY <3>1
  <2> HIDE DEF SumsOf
  \* What a proper subset makes of its own subsets is what each makes of itself.
  <2>3. ASSUME NEW s \in SUBSET T, s # T, s # {}
        PROVE  SumsOf(s)[s] = f[First(s)] + SumsOf(s \ {First(s)})[s \ {First(s)}]
    <3> DEFINE rest == s \ {First(s)}
    <3>1. rest \in SUBSET s /\ rest \in SUBSET T /\ rest # T
      BY <2>3, FirstIsIn
    <3>2. Sums(f, s, SumsOf(s)) /\ Sums(f, rest, SumsOf(rest))
      BY <2>2, <2>3, <3>1
    <3>3. SumsOf(s)[s] = f[First(s)] + SumsOf(s)[rest]
      BY <2>3, <3>2 DEF Sums
    <3> HIDE DEF rest
    <3>4. IsFiniteSet(rest)
      BY <3>1, FS_Subset
    <3>5. Sums(f, rest, [t \in SUBSET rest |-> SumsOf(s)[t]])
      <4>1. PICK own : own = SumsOf(s)
        OBVIOUS
      <4>2. Sums(f, s, own)
        BY <3>2, <4>1
      <4>3. Sums(f, rest, [t \in SUBSET rest |-> own[t]])
        BY <3>1, <4>2, SumsWithin
      <4> QED
        BY <4>1, <4>3
    <3>6. [t \in SUBSET rest |-> SumsOf(s)[t]] = SumsOf(rest)
      BY <3>2, <3>4, <3>5, SumsUnique
    <3>7. [t \in SUBSET rest |-> SumsOf(s)[t]][rest] = SumsOf(s)[rest]
      OBVIOUS
    <3>8. SumsOf(rest)[rest] = SumsOf(s)[rest]
      BY <3>6, <3>7
    <3> QED
      BY <3>3, <3>8 DEF rest
  <2>4. ASSUME NEW s \in SUBSET T, s # T PROVE value[s] = SumsOf(s)[s]
    <3>1. CASE s = {}
      <4>1. SumsOf(s)[s] = 0
        BY <2>2, <2>4, <3>1 DEF Sums
      <4> QED
        BY <3>1, <4>1
    <3>2. CASE s # {}
      BY <2>3, <2>4, <3>2
    <3> QED
      BY <3>1, <3>2
  <2>5. ASSUME NEW s \in SUBSET T, s # {} PROVE value[s] = f[First(s)] + value[s \ {First(s)}]
    <3>1. s \ {First(s)} \in SUBSET T /\ s \ {First(s)} # T
      BY <2>5, FirstIsIn
    <3>2. value[s \ {First(s)}] = SumsOf(s \ {First(s)})[s \ {First(s)}]
      BY <2>4, <3>1
    <3>3. value[s] = f[First(s)] + SumsOf(s \ {First(s)})[s \ {First(s)}]
      BY <2>5
    <3> QED
      BY <3>2, <3>3
  <2>6. value[{}] = 0 /\ value = [s \in SUBSET T |-> value[s]]
    OBVIOUS
  <2> HIDE DEF value
  <2>7. \A s \in SUBSET T : value[s] = IF s = {} THEN 0 ELSE f[First(s)] + value[s \ {First(s)}]
    BY <2>5, <2>6
  <2>8. Sums(f, T, value)
    BY <2>6, <2>7 DEF Sums
  <2> QED
    BY <2>1, <2>8
<1>2. S \notin Without
  BY <1>1
<1> QED
  BY <1>2

\* Whatever function there is, it has the sum.
LEMMA SumIs ==
  ASSUME NEW S, IsFiniteSet(S), NEW f, NEW sums, Sums(f, S, sums)
  PROVE  sums[S] = SumFunctionOnSet(f, S)
<1> DEFINE chosen == CHOOSE any : Sums(f, S, any)
<1>1. Sums(f, S, chosen)
  OBVIOUS
<1> HIDE DEF chosen
<1>2. sums = chosen
  BY <1>1, SumsUnique
<1> QED
  BY <1>2, SumUnfolds DEF chosen

LEMMA SumOfNone == ASSUME NEW f PROVE SumFunctionOnSet(f, {}) = 0
<1>1. IsFiniteSet({})
  BY FS_EmptySet
<1>2. PICK sums : Sums(f, {}, sums)
  BY <1>1, SumsExist
<1>3. sums[{}] = 0
  BY <1>2 DEF Sums
<1> QED
  BY <1>1, <1>2, <1>3, SumIs

LEMMA SumOfFirst ==
  ASSUME NEW S, IsFiniteSet(S), S # {}, NEW f
  PROVE  SumFunctionOnSet(f, S) = f[First(S)] + SumFunctionOnSet(f, S \ {First(S)})
<1> DEFINE rest == S \ {First(S)}
<1>1. PICK sums : Sums(f, S, sums)
  BY SumsExist
<1>2. sums[S] = f[First(S)] + sums[rest]
  BY <1>1 DEF Sums
<1>3. rest \in SUBSET S
  OBVIOUS
<1> HIDE DEF rest
<1>4. IsFiniteSet(rest)
  BY <1>3, FS_Subset
<1>5. [s \in SUBSET rest |-> sums[s]][rest] = SumFunctionOnSet(f, rest)
  <2>1. Sums(f, rest, [s \in SUBSET rest |-> sums[s]])
    BY <1>1, <1>3, SumsWithin
  <2> QED
    BY <1>4, <2>1, SumIs
<1>6. sums[rest] = SumFunctionOnSet(f, rest) /\ sums[S] = SumFunctionOnSet(f, S)
  BY <1>1, <1>5, SumIs
<1> QED
  BY <1>2, <1>6 DEF rest

LEMMA SumOfInt ==
  ASSUME NEW S, IsFiniteSet(S), NEW f, \A x \in S : f[x] \in Int
  PROVE  SumFunctionOnSet(f, S) \in Int
<1> DEFINE Wrong == {T \in SUBSET S : SumFunctionOnSet(f, T) \notin Int}
<1>1. ASSUME Wrong # {} PROVE FALSE
  <2>1. PICK T \in Wrong : \A U \in SUBSET T : U # T => U \notin Wrong
    <3>1. Wrong \in SUBSET SUBSET S
      OBVIOUS
    <3> HIDE DEF Wrong
    <3> QED
      BY <1>1, <3>1, SmallestSet
  <2>2. T # {} /\ IsFiniteSet(T)
    <3>1. SumFunctionOnSet(f, {}) \in Int
      BY SumOfNone
    <3>2. IsFiniteSet(T)
      BY <2>1, FS_Subset
    <3> QED
      BY <2>1, <3>1, <3>2
  <2>3. First(T) \in T
    BY <2>2, FirstIsIn
  <2>4. SumFunctionOnSet(f, T \ {First(T)}) \in Int
    BY <2>1, <2>3
  <2>5. SumFunctionOnSet(f, T) = f[First(T)] + SumFunctionOnSet(f, T \ {First(T)})
    BY <2>2, SumOfFirst
  <2>6. f[First(T)] \in Int
    BY <2>1, <2>3
  <2> QED
    BY <2>1, <2>4, <2>5, <2>6
<1> QED
  BY <1>1

LEMMA SumOfNat ==
  ASSUME NEW S, IsFiniteSet(S), NEW f, \A x \in S : f[x] \in Nat
  PROVE  SumFunctionOnSet(f, S) \in Nat
<1> DEFINE Wrong == {T \in SUBSET S : SumFunctionOnSet(f, T) \notin Nat}
<1>1. ASSUME Wrong # {} PROVE FALSE
  <2>1. PICK T \in Wrong : \A U \in SUBSET T : U # T => U \notin Wrong
    <3>1. Wrong \in SUBSET SUBSET S
      OBVIOUS
    <3> HIDE DEF Wrong
    <3> QED
      BY <1>1, <3>1, SmallestSet
  <2>2. T # {} /\ IsFiniteSet(T)
    <3>1. SumFunctionOnSet(f, {}) \in Nat
      BY SumOfNone
    <3>2. IsFiniteSet(T)
      BY <2>1, FS_Subset
    <3> QED
      BY <2>1, <3>1, <3>2
  <2>3. First(T) \in T
    BY <2>2, FirstIsIn
  <2>4. SumFunctionOnSet(f, T \ {First(T)}) \in Nat
    BY <2>1, <2>3
  <2>5. SumFunctionOnSet(f, T) = f[First(T)] + SumFunctionOnSet(f, T \ {First(T)})
    BY <2>2, SumOfFirst
  <2>6. f[First(T)] \in Nat
    BY <2>1, <2>3
  <2> QED
    BY <2>1, <2>4, <2>5, <2>6
<1> QED
  BY <1>1

\* Any element may be taken first.
LEMMA SumOfAny ==
  ASSUME NEW S, IsFiniteSet(S), NEW f, \A x \in S : f[x] \in Int, NEW e \in S
  PROVE  SumFunctionOnSet(f, S) = f[e] + SumFunctionOnSet(f, S \ {e})
<1> DEFINE Wrong == {T \in SUBSET S : \E x \in T : SumFunctionOnSet(f, T) # f[x] + SumFunctionOnSet(f, T \ {x})}
<1>1. ASSUME Wrong # {} PROVE FALSE
  <2>1. PICK T \in Wrong : \A U \in SUBSET T : U # T => U \notin Wrong
    <3>1. Wrong \in SUBSET SUBSET S
      OBVIOUS
    <3> HIDE DEF Wrong
    <3> QED
      BY <1>1, <3>1, SmallestSet
  <2>2. PICK x \in T : SumFunctionOnSet(f, T) # f[x] + SumFunctionOnSet(f, T \ {x})
    BY <2>1
  <2> DEFINE y == First(T)
  <2>3. IsFiniteSet(T) /\ SumFunctionOnSet(f, T) = f[y] + SumFunctionOnSet(f, T \ {y}) /\ y \in T
    <3>1. IsFiniteSet(T)
      BY <2>1, FS_Subset
    <3> QED
      BY <2>2, <3>1, SumOfFirst, FirstIsIn
  <2> HIDE DEF y
  <2>4. x # y
    BY <2>2, <2>3
  <2>5. SumFunctionOnSet(f, T \ {y}) = f[x] + SumFunctionOnSet(f, (T \ {y}) \ {x})
    BY <2>1, <2>2, <2>3, <2>4
  <2>6. SumFunctionOnSet(f, T \ {x}) = f[y] + SumFunctionOnSet(f, (T \ {x}) \ {y})
    BY <2>1, <2>2, <2>3, <2>4
  <2>7. (T \ {y}) \ {x} = (T \ {x}) \ {y}
    OBVIOUS
  <2>8. SumFunctionOnSet(f, (T \ {x}) \ {y}) \in Int
    <3>1. (T \ {x}) \ {y} \in SUBSET S
      BY <2>1
    <3>2. IsFiniteSet((T \ {x}) \ {y})
      BY <3>1, FS_Subset
    <3> QED
      BY <3>1, <3>2, SumOfInt
  <2>9. f[x] \in Int /\ f[y] \in Int
    BY <2>1, <2>2, <2>3
  <2>10. SumFunctionOnSet(f, T) = f[y] + (f[x] + SumFunctionOnSet(f, (T \ {x}) \ {y}))
    BY <2>3, <2>5, <2>7
  <2> QED
    BY <2>2, <2>6, <2>8, <2>9, <2>10
<1>2. S \notin Wrong
  BY <1>1
<1> QED
  BY <1>2

LEMMA SumOfOne == ASSUME NEW f, NEW x, f[x] \in Int PROVE SumFunctionOnSet(f, {x}) = f[x]
<1>1. IsFiniteSet({x})
  BY FS_Singleton
<1>2. SumFunctionOnSet(f, {x}) = f[x] + SumFunctionOnSet(f, {x} \ {x})
  <2>1. \A y \in {x} : f[y] \in Int
    OBVIOUS
  <2> QED
    BY <1>1, <2>1, SumOfAny
<1>3. {x} \ {x} = {}
  OBVIOUS
<1> QED
  BY <1>2, <1>3, SumOfNone

\* The sum is that of the values on the set, whatever else the function holds.
LEMMA SumOfSame ==
  ASSUME NEW S, IsFiniteSet(S), NEW f, NEW g, \A x \in S : f[x] = g[x]
  PROVE  SumFunctionOnSet(f, S) = SumFunctionOnSet(g, S)
<1> DEFINE Wrong == {T \in SUBSET S : SumFunctionOnSet(f, T) # SumFunctionOnSet(g, T)}
<1>1. ASSUME Wrong # {} PROVE FALSE
  <2>1. PICK T \in Wrong : \A U \in SUBSET T : U # T => U \notin Wrong
    <3>1. Wrong \in SUBSET SUBSET S
      OBVIOUS
    <3> HIDE DEF Wrong
    <3> QED
      BY <1>1, <3>1, SmallestSet
  <2>2. T # {} /\ IsFiniteSet(T)
    BY <2>1, SumOfNone, FS_Subset
  <2>3. First(T) \in T /\ First(T) \in S
    BY <2>1, <2>2, FirstIsIn
  <2>4. SumFunctionOnSet(f, T \ {First(T)}) = SumFunctionOnSet(g, T \ {First(T)})
    BY <2>1, <2>3
  <2>5. /\ SumFunctionOnSet(f, T) = f[First(T)] + SumFunctionOnSet(f, T \ {First(T)})
        /\ SumFunctionOnSet(g, T) = g[First(T)] + SumFunctionOnSet(g, T \ {First(T)})
    BY <2>2, SumOfFirst
  <2> QED
    BY <2>1, <2>3, <2>4, <2>5
<1>2. S \notin Wrong
  BY <1>1
<1> QED
  BY <1>2

\* The sum over two sets without a common element.
LEMMA SumOfUnion ==
  ASSUME NEW S, NEW T, IsFiniteSet(S), IsFiniteSet(T), S \cap T = {},
         NEW f, \A x \in S \cup T : f[x] \in Int
  PROVE  SumFunctionOnSet(f, S \cup T) = SumFunctionOnSet(f, S) + SumFunctionOnSet(f, T)
<1> DEFINE Wrong == {U \in SUBSET T : SumFunctionOnSet(f, S \cup U) # SumFunctionOnSet(f, S) + SumFunctionOnSet(f, U)}
<1>1. ASSUME Wrong # {} PROVE FALSE
  <2>1. PICK U \in Wrong : \A V \in SUBSET U : V # U => V \notin Wrong
    <3>1. Wrong \in SUBSET SUBSET T
      OBVIOUS
    <3> HIDE DEF Wrong
    <3> QED
      BY <1>1, <3>1, SmallestSet
  <2>2. U # {}
    <3>1. S \cup {} = S
      OBVIOUS
    <3>2. SumFunctionOnSet(f, S) \in Int
      BY SumOfInt
    <3>3. SumFunctionOnSet(f, S) = SumFunctionOnSet(f, S) + SumFunctionOnSet(f, {})
      BY <3>2, SumOfNone
    <3> QED
      BY <2>1, <3>1, <3>3
  <2>3. PICK x \in U : TRUE
    BY <2>2
  <2>4. SumFunctionOnSet(f, S \cup (U \ {x})) = SumFunctionOnSet(f, S) + SumFunctionOnSet(f, U \ {x})
    BY <2>1, <2>3
  <2>5. IsFiniteSet(U) /\ IsFiniteSet(S \cup U) /\ IsFiniteSet(U \ {x})
    <3>1. IsFiniteSet(U)
      BY <2>1, FS_Subset
    <3> QED
      BY <3>1, FS_Union, FS_RemoveElement
  <2>6. \A y \in S \cup U : f[y] \in Int
    BY <2>1
  <2>7. SumFunctionOnSet(f, U) = f[x] + SumFunctionOnSet(f, U \ {x})
    BY <2>3, <2>5, <2>6, SumOfAny
  <2>8. SumFunctionOnSet(f, S \cup U) = f[x] + SumFunctionOnSet(f, S \cup (U \ {x}))
    <3>1. (S \cup U) \ {x} = S \cup (U \ {x})
      BY <2>1, <2>3
    <3>2. SumFunctionOnSet(f, S \cup U) = f[x] + SumFunctionOnSet(f, (S \cup U) \ {x})
      BY <2>3, <2>5, <2>6, SumOfAny
    <3> QED
      BY <3>1, <3>2
  <2>9. SumFunctionOnSet(f, S) \in Int /\ SumFunctionOnSet(f, U \ {x}) \in Int /\ f[x] \in Int
    BY <2>3, <2>5, <2>6, SumOfInt
  <2> QED
    BY <2>1, <2>4, <2>7, <2>8, <2>9
<1>2. T \notin Wrong
  BY <1>1
<1> QED
  BY <1>2

\* The sum over a set from that over a subset and over the rest.
LEMMA SumOfSplit ==
  ASSUME NEW S, IsFiniteSet(S), NEW T \in SUBSET S, NEW f, \A x \in S : f[x] \in Int
  PROVE  SumFunctionOnSet(f, S) = SumFunctionOnSet(f, T) + SumFunctionOnSet(f, S \ T)
<1>1. IsFiniteSet(T) /\ IsFiniteSet(S \ T) /\ T \cap (S \ T) = {} /\ T \cup (S \ T) = S
  <2>1. S \ T \in SUBSET S
    OBVIOUS
  <2> QED
    BY <2>1, FS_Subset
<1> DEFINE rest == S \ T
<1>2. \A x \in T \cup rest : f[x] \in Int
  OBVIOUS
<1> HIDE DEF rest
<1>3. SumFunctionOnSet(f, T \cup rest) = SumFunctionOnSet(f, T) + SumFunctionOnSet(f, rest)
  BY <1>1, <1>2, SumOfUnion DEF rest
<1> QED
  BY <1>1, <1>3 DEF rest

\* Elements that count nothing may be left out.
LEMMA SumOfZeros ==
  ASSUME NEW S, IsFiniteSet(S), NEW f, \A x \in S : f[x] = 0
  PROVE  SumFunctionOnSet(f, S) = 0
<1> DEFINE Wrong == {T \in SUBSET S : SumFunctionOnSet(f, T) # 0}
<1>1. ASSUME Wrong # {} PROVE FALSE
  <2>1. PICK T \in Wrong : \A U \in SUBSET T : U # T => U \notin Wrong
    <3>1. Wrong \in SUBSET SUBSET S
      OBVIOUS
    <3> HIDE DEF Wrong
    <3> QED
      BY <1>1, <3>1, SmallestSet
  <2>2. T # {} /\ IsFiniteSet(T)
    BY <2>1, SumOfNone, FS_Subset
  <2>3. First(T) \in T
    BY <2>2, FirstIsIn
  <2>4. SumFunctionOnSet(f, T \ {First(T)}) = 0 /\ f[First(T)] = 0
    BY <2>1, <2>3
  <2>5. SumFunctionOnSet(f, T) = f[First(T)] + SumFunctionOnSet(f, T \ {First(T)})
    BY <2>2, SumOfFirst
  <2> QED
    BY <2>1, <2>4, <2>5
<1>2. S \notin Wrong
  BY <1>1
<1> QED
  BY <1>2

\* The sum of two columns.
LEMMA SumOfAdded ==
  ASSUME NEW S, IsFiniteSet(S), NEW f, NEW g, NEW h,
         \A x \in S : f[x] \in Int /\ g[x] \in Int /\ h[x] = f[x] + g[x]
  PROVE  SumFunctionOnSet(h, S) = SumFunctionOnSet(f, S) + SumFunctionOnSet(g, S)
<1> DEFINE Wrong == {T \in SUBSET S : SumFunctionOnSet(h, T) # SumFunctionOnSet(f, T) + SumFunctionOnSet(g, T)}
<1>1. ASSUME Wrong # {} PROVE FALSE
  <2>1. PICK T \in Wrong : \A U \in SUBSET T : U # T => U \notin Wrong
    <3>1. Wrong \in SUBSET SUBSET S
      OBVIOUS
    <3> HIDE DEF Wrong
    <3> QED
      BY <1>1, <3>1, SmallestSet
  <2>2. T # {} /\ IsFiniteSet(T)
    <3>1. SumFunctionOnSet(h, {}) = SumFunctionOnSet(f, {}) + SumFunctionOnSet(g, {})
      <4>1. SumFunctionOnSet(h, {}) = 0 /\ SumFunctionOnSet(f, {}) = 0 /\ SumFunctionOnSet(g, {}) = 0
        BY SumOfNone
      <4> QED
        BY <4>1
    <3>2. IsFiniteSet(T)
      BY <2>1, FS_Subset
    <3> QED
      BY <2>1, <3>1, <3>2
  <2> DEFINE x == First(T)
             rest == T \ {x}
  <2>3. x \in S /\ rest \in SUBSET T /\ rest # T /\ rest \in SUBSET S
    BY <2>1, <2>2, FirstIsIn
  <2>4. /\ SumFunctionOnSet(f, T) = f[x] + SumFunctionOnSet(f, rest)
        /\ SumFunctionOnSet(g, T) = g[x] + SumFunctionOnSet(g, rest)
        /\ SumFunctionOnSet(h, T) = h[x] + SumFunctionOnSet(h, rest)
    BY <2>2, SumOfFirst
  <2> HIDE DEF x, rest
  <2>5. SumFunctionOnSet(h, rest) = SumFunctionOnSet(f, rest) + SumFunctionOnSet(g, rest)
    BY <2>1, <2>3
  <2>6. SumFunctionOnSet(f, rest) \in Int /\ SumFunctionOnSet(g, rest) \in Int
    <3>1. IsFiniteSet(rest) /\ \A y \in rest : f[y] \in Int /\ g[y] \in Int
      BY <2>3, FS_Subset
    <3> QED
      BY <3>1, SumOfInt
  <2>7. f[x] \in Int /\ g[x] \in Int /\ h[x] = f[x] + g[x]
    BY <2>3
  <2> QED
    BY <2>1, <2>4, <2>5, <2>6, <2>7
<1>2. S \notin Wrong
  BY <1>1
<1> QED
  BY <1>2

\* A sum by parts: sums[k] is the sum over the part with the key k.
LEMMA SumOfParts ==
  ASSUME NEW S, IsFiniteSet(S), NEW f, \A x \in S : f[x] \in Int,
         NEW K, IsFiniteSet(K), NEW part, \A k \in K : part[k] \in SUBSET S,
         \A x \in S : \E k \in K : x \in part[k],
         \A k, l \in K : k # l => part[k] \intersect part[l] = {},
         NEW sums, \A k \in K : sums[k] = SumFunctionOnSet(f, part[k])
  PROVE  SumFunctionOnSet(sums, K) = SumFunctionOnSet(f, S)
<1> DEFINE Covered(L) == {x \in S : \E k \in L : x \in part[k]}
           Wrong == {L \in SUBSET K : SumFunctionOnSet(sums, L) # SumFunctionOnSet(f, Covered(L))}
<1>1. ASSUME Wrong # {} PROVE FALSE
  <2>1. PICK L \in Wrong : \A M \in SUBSET L : M # L => M \notin Wrong
    <3>1. Wrong \in SUBSET SUBSET K
      OBVIOUS
    <3> HIDE DEF Wrong
    <3> QED
      BY <1>1, <3>1, SmallestSet
  <2>2. L # {} /\ IsFiniteSet(L)
    <3>1. Covered({}) = {}
      OBVIOUS
    <3> QED
      BY <2>1, <3>1, SumOfNone, FS_Subset
  <2> DEFINE k == First(L)
             rest == L \ {k}
             others == Covered(rest)
  <2>3. k \in L /\ k \in K /\ rest \in SUBSET L /\ rest # L /\ rest \in SUBSET K
    BY <2>1, <2>2, FirstIsIn
  <2>4. SumFunctionOnSet(sums, L) = sums[k] + SumFunctionOnSet(sums, rest)
    BY <2>2, SumOfFirst
  <2>5. part[k] \intersect others = {} /\ part[k] \union others = Covered(L)
    BY <2>3
  <2>6. part[k] \in SUBSET S /\ others \in SUBSET S
    BY <2>3
  <2>7. sums[k] = SumFunctionOnSet(f, part[k])
    BY <2>3
  <2>8. SumFunctionOnSet(sums, rest) = SumFunctionOnSet(f, others)
    BY <2>1, <2>3
  <2>9. SumFunctionOnSet(sums, L) # SumFunctionOnSet(f, Covered(L))
    BY <2>1
  <2> HIDE DEF Covered, Wrong, k, rest, others
  <2>10. IsFiniteSet(part[k]) /\ IsFiniteSet(others)
    BY <2>6, FS_Subset
  <2>11. \A x \in part[k] \union others : f[x] \in Int
    BY <2>6
  <2>12. SumFunctionOnSet(f, part[k] \union others) = SumFunctionOnSet(f, part[k]) + SumFunctionOnSet(f, others)
    BY <2>5, <2>10, <2>11, SumOfUnion
  <2> QED
    BY <2>4, <2>5, <2>7, <2>8, <2>9, <2>12
<1>2. K \notin Wrong
  BY <1>1
<1>3. Covered(K) = S
  OBVIOUS
<1> QED
  BY <1>2, <1>3

-------------------------------------------------------------------------------
(* Poker.                                                                     *)

\* A set of table whose ids are unique.
Table(table) == IsFiniteSet(table) /\ \A row, other \in table : row.id = other.id => row = other

Tournament(t) == t.id \in Tournaments /\ t.sharedCosts \in Nat

\* An event that was played.
Played(e) ==
    /\ e.buyIn \in Nat /\ e.winnings \in Nat /\ e.addOnPurchased \in BOOLEAN
    /\ e.reBuyAmount \in Nat \union {Null} /\ e.addOnAmount \in Nat \union {Null}

\* An entry of the bankroll.
Booked(entry) == entry.id \in Entries /\ entry.type \in EntryTypes /\ entry.amount \in Nat

\* The tables of poker: every event is of a tournament that exists.
PokerInv ==
    /\ Table(tournaments) /\ \A t \in tournaments : Tournament(t)
    /\ Table(events) /\ \A e \in events : Played(e) /\ e.tournament \in IdsOf(tournaments)
    /\ Table(bankroll) /\ \A entry \in bankroll : Booked(entry)

LEMMA NoRows == Table({})
  BY FS_EmptySet DEF Table

\* A row with a new id joins a table.
LEMMA RowAdded ==
  ASSUME NEW table, Table(table), NEW row, \A other \in table : other.id # row.id
  PROVE  Table(table \union {row})
<1>1. IsFiniteSet(table \union {row})
  BY FS_AddElement DEF Table
<1>2. ASSUME NEW a \in table \union {row}, NEW b \in table \union {row}, a.id = b.id PROVE a = b
  <2>1. CASE a \in table /\ b \in table
    BY <1>2, <2>1 DEF Table
  <2>2. CASE a = row \/ b = row
    BY <1>2, <2>2
  <2> QED
    BY <2>1, <2>2
<1> QED
  BY <1>1, <1>2 DEF Table

LEMMA RowsRemoved == ASSUME NEW table, Table(table), NEW kept \in SUBSET table PROVE Table(kept)
  BY FS_Subset DEF Table

\* A row takes the place of the one with its id.
LEMMA RowReplaced ==
  ASSUME NEW table, Table(table), NEW row
  PROVE  Table((table \ WithId(table, row.id)) \union {row})
<1> DEFINE kept == table \ WithId(table, row.id)
<1>1. Table(kept)
  BY RowsRemoved
<1>2. \A other \in kept : other.id # row.id
  BY DEF WithId
<1> HIDE DEF kept
<1>3. Table(kept \union {row})
  BY <1>1, <1>2, RowAdded
<1> QED
  BY <1>3 DEF kept

LEMMA PokerInitInv == ASSUME PokerInit PROVE PokerInv
  BY NoRows DEF PokerInit, PokerInv

LEMMA CreateTournamentInv ==
  ASSUME PokerInv, NEW t \in Tournaments, NEW costs \in Costs, createTournament(t, costs)
  PROVE  PokerInv'
<1> DEFINE new == [id |-> t, sharedCosts |-> costs]
<1>1. new.id = t /\ Tournament(new)
  BY PokerAssumption DEF Tournament
<1>2. tournaments' = tournaments \union {new} /\ events' = events /\ bankroll' = bankroll
  BY DEF createTournament
<1> HIDE DEF new
<1>3. \A other \in tournaments : other.id # new.id
  BY <1>1 DEF createTournament, IdsOf
<1>4. Table(tournaments')
  BY <1>2, <1>3, RowAdded DEF PokerInv
<1>5. \A row \in tournaments' : Tournament(row)
  BY <1>1, <1>2 DEF PokerInv
<1>6. \A e \in events : e.tournament \in IdsOf(tournaments')
  BY <1>2 DEF PokerInv, IdsOf
<1> QED
  BY <1>2, <1>4, <1>5, <1>6 DEF PokerInv, IdsOf

LEMMA UpdateTournamentInv ==
  ASSUME PokerInv, NEW t \in Tournaments, NEW costs \in Costs, updateTournament(t, costs)
  PROVE  PokerInv'
<1> DEFINE new == [id |-> t, sharedCosts |-> costs]
<1>1. new.id = t /\ Tournament(new)
  BY PokerAssumption DEF Tournament
<1>2. /\ tournaments' = (tournaments \ WithId(tournaments, new.id)) \union {new}
      /\ events' = events /\ bankroll' = bankroll
  BY DEF updateTournament
<1> HIDE DEF new
<1>3. Table(tournaments')
  BY <1>2, RowReplaced DEF PokerInv
<1>4. \A row \in tournaments' : Tournament(row)
  BY <1>1, <1>2 DEF PokerInv
<1>5. ASSUME NEW e \in events PROVE e.tournament \in IdsOf(tournaments')
  <2>1. PICK row \in tournaments : row.id = e.tournament
    BY DEF PokerInv, IdsOf
  <2>2. CASE row.id = t
    BY <1>1, <1>2, <2>1, <2>2 DEF IdsOf
  <2>3. CASE row.id # t
    BY <1>1, <1>2, <2>1, <2>3 DEF IdsOf, WithId
  <2> QED
    BY <2>2, <2>3
<1> QED
  BY <1>2, <1>3, <1>4, <1>5 DEF PokerInv, IdsOf

LEMMA DeleteTournamentInv ==
  ASSUME PokerInv, NEW t \in Tournaments, deleteTournament(t)
  PROVE  PokerInv'
<1>1. /\ tournaments' = tournaments \ WithId(tournaments, t)
      /\ events' = {e \in events : e.tournament # t} /\ bankroll' = bankroll
  BY DEF deleteTournament
<1>2. Table(tournaments') /\ Table(events')
  <2>1. Table(tournaments) /\ Table(events)
    BY DEF PokerInv
  <2>2. tournaments' \in SUBSET tournaments /\ events' \in SUBSET events
    BY <1>1
  <2> QED
    BY <2>1, <2>2, RowsRemoved
<1>3. ASSUME NEW e \in events' PROVE e.tournament \in IdsOf(tournaments')
  <2>1. PICK row \in tournaments : row.id = e.tournament
    BY <1>1 DEF PokerInv, IdsOf
  <2>2. row \in tournaments'
    BY <1>1, <2>1 DEF WithId
  <2> QED
    BY <2>1, <2>2 DEF IdsOf
<1>4. (\A row \in tournaments' : Tournament(row)) /\ \A e \in events' : Played(e)
  BY <1>1 DEF PokerInv
<1> QED
  BY <1>1, <1>2, <1>3, <1>4 DEF PokerInv, IdsOf

\* What EventOf makes of the results that were entered.
LEMMA EventPlayed ==
  ASSUME NEW e, NEW t, NEW play \in Plays
  PROVE  /\ EventOf(e, t, play).id = e /\ EventOf(e, t, play).tournament = t
         /\ Played(EventOf(e, t, play))
  BY PokerAssumption DEF EventOf, Played

LEMMA CreateEventInv ==
  ASSUME PokerInv, NEW e \in Events, NEW t \in Tournaments, NEW play \in Plays,
         createTournamentEvent(e, t, play)
  PROVE  PokerInv'
<1>1. PICK new : new = EventOf(e, t, play)
  OBVIOUS
<1>2. new.id = e /\ new.tournament = t /\ Played(new)
  BY <1>1, EventPlayed
<1>3. events' = events \union {new} /\ tournaments' = tournaments /\ bankroll' = bankroll
  BY <1>1 DEF createTournamentEvent
<1>4. \A other \in events : other.id # new.id
  BY <1>2 DEF createTournamentEvent, IdsOf
<1>5. Table(events')
  BY <1>3, <1>4, RowAdded DEF PokerInv
<1>6. \A row \in events' : Played(row) /\ row.tournament \in IdsOf(tournaments)
  BY <1>2, <1>3 DEF PokerInv, createTournamentEvent
<1> QED
  BY <1>3, <1>5, <1>6 DEF PokerInv, IdsOf

LEMMA UpdateEventInv ==
  ASSUME PokerInv, NEW e \in Events, NEW play \in Plays, updateTournamentEvent(e, play)
  PROVE  PokerInv'
<1>1. PICK old \in WithId(events, e) : events' = (events \ {old}) \union {EventOf(e, old.tournament, play)}
  BY DEF updateTournamentEvent
<1>2. PICK new : new = EventOf(e, old.tournament, play)
  OBVIOUS
<1>3. new.id = e /\ new.tournament = old.tournament /\ Played(new)
  BY <1>2, EventPlayed
<1>4. tournaments' = tournaments /\ bankroll' = bankroll
  BY DEF updateTournamentEvent
<1>5. old \in events /\ old.id = e /\ \A row \in events : row.id = e => row = old
  BY <1>1 DEF WithId, PokerInv, Table
<1>6. events' = (events \ WithId(events, new.id)) \union {new}
  BY <1>1, <1>2, <1>3, <1>5 DEF WithId
<1>7. Table(events')
  BY <1>6, RowReplaced DEF PokerInv
<1>8. \A row \in events' : Played(row) /\ row.tournament \in IdsOf(tournaments)
  BY <1>3, <1>5, <1>6 DEF PokerInv
<1> QED
  BY <1>4, <1>7, <1>8 DEF PokerInv, IdsOf

LEMMA DeleteEventInv == ASSUME PokerInv, NEW e \in Events, deleteTournamentEvent(e) PROVE PokerInv'
<1>1. events' \in SUBSET events /\ tournaments' = tournaments /\ bankroll' = bankroll
  BY DEF deleteTournamentEvent
<1>2. Table(events')
  BY <1>1, RowsRemoved DEF PokerInv
<1> QED
  BY <1>1, <1>2 DEF PokerInv, IdsOf

LEMMA CreateEntryInv ==
  ASSUME PokerInv, NEW id \in Entries, NEW type \in EntryTypes, NEW amount \in Amounts,
         createBankrollTransaction(id, type, amount)
  PROVE  PokerInv'
<1> DEFINE new == [id |-> id, type |-> type, amount |-> amount]
<1>1. new.id = id /\ Booked(new)
  BY PokerAssumption DEF Booked
<1>2. bankroll' = bankroll \union {new} /\ events' = events /\ tournaments' = tournaments
  BY DEF createBankrollTransaction
<1> HIDE DEF new
<1>3. \A other \in bankroll : other.id # new.id
  BY <1>1 DEF createBankrollTransaction, IdsOf
<1>4. Table(bankroll')
  BY <1>2, <1>3, RowAdded DEF PokerInv
<1>5. \A row \in bankroll' : Booked(row)
  BY <1>1, <1>2 DEF PokerInv
<1> QED
  BY <1>2, <1>4, <1>5 DEF PokerInv, IdsOf

LEMMA DeleteEntryInv == ASSUME PokerInv, NEW id \in Entries, deleteBankrollTransaction(id) PROVE PokerInv'
<1>1. bankroll' \in SUBSET bankroll /\ tournaments' = tournaments /\ events' = events
  BY DEF deleteBankrollTransaction
<1>2. Table(bankroll')
  BY <1>1, RowsRemoved DEF PokerInv
<1> QED
  BY <1>1, <1>2 DEF PokerInv, IdsOf

LEMMA PokerNextInv == ASSUME PokerInv, PokerNext \/ UNCHANGED pokerVars PROVE PokerInv'
<1>1. ASSUME NEW t \in Tournaments, NEW costs \in Costs,
             createTournament(t, costs) \/ updateTournament(t, costs)
      PROVE  PokerInv'
  BY <1>1, CreateTournamentInv, UpdateTournamentInv
<1>2. ASSUME NEW t \in Tournaments, deleteTournament(t) PROVE PokerInv'
  BY <1>2, DeleteTournamentInv
<1>3. ASSUME NEW t \in Tournaments, NEW e \in Events, NEW play \in Plays, createTournamentEvent(e, t, play)
      PROVE  PokerInv'
  BY <1>3, CreateEventInv
<1>4. ASSUME NEW e \in Events, NEW play \in Plays, updateTournamentEvent(e, play) PROVE PokerInv'
  BY <1>4, UpdateEventInv
<1>5. ASSUME NEW e \in Events, deleteTournamentEvent(e) PROVE PokerInv'
  BY <1>5, DeleteEventInv
<1>6. ASSUME NEW id \in Entries, NEW type \in EntryTypes, NEW amount \in Amounts,
             createBankrollTransaction(id, type, amount)
      PROVE  PokerInv'
  BY <1>6, CreateEntryInv
<1>7. ASSUME NEW id \in Entries, deleteBankrollTransaction(id) PROVE PokerInv'
  BY <1>7, DeleteEntryInv
<1>8. CASE UNCHANGED pokerVars
  BY <1>8 DEF pokerVars, PokerInv, IdsOf
<1> QED
  BY <1>1, <1>2, <1>3, <1>4, <1>5, <1>6, <1>7, <1>8 DEF PokerNext

\* The columns of the table of events, and the sums over some of them.
BuyIns == [e \in events |-> e.buyIn]
ReBuys == [e \in events |-> OrZero(e.reBuyAmount)]
AddOns == [e \in events |-> AddOnCost(e)]
Winnings == [e \in events |-> e.winnings]
Paid == [e \in events |-> CostOf(e)]
Net == [e \in events |-> e.winnings - CostOf(e)]

LEMMA ColumnsTyped ==
  ASSUME PokerInv, NEW e \in events
  PROVE  /\ BuyIns[e] \in Int /\ ReBuys[e] \in Int /\ AddOns[e] \in Int
         /\ Winnings[e] \in Int /\ Paid[e] \in Int /\ Net[e] \in Int
         /\ Paid[e] = BuyIns[e] + ReBuys[e] + AddOns[e]
         /\ Winnings[e] = Net[e] + Paid[e]
<1>1. Played(e)
  BY DEF PokerInv
<1>2. /\ e.buyIn \in Int /\ e.winnings \in Int
      /\ OrZero(e.reBuyAmount) \in Int /\ OrZero(e.addOnAmount) \in Int
  BY <1>1 DEF Played, OrZero
<1>3. AddOnCost(e) \in Int
  BY <1>1, <1>2 DEF AddOnCost
<1>4. CostOf(e) = e.buyIn + OrZero(e.reBuyAmount) + AddOnCost(e)
  BY DEF CostOf
<1>5. CostOf(e) \in Int
  BY <1>2, <1>3, <1>4
<1>6. e.winnings = (e.winnings - CostOf(e)) + CostOf(e) /\ e.winnings - CostOf(e) \in Int
  BY <1>2, <1>5
<1> QED
  BY <1>2, <1>3, <1>4, <1>5, <1>6 DEF BuyIns, ReBuys, AddOns, Winnings, Paid, Net

\* A sum over some rows is that of the column of a table on these rows.
LEMMA SumOfColumn ==
  ASSUME NEW S, IsFiniteSet(S), NEW f, DOMAIN f = S, NEW column, \A x \in S : f[x] = column[x]
  PROVE  SumFunction(f) = SumFunctionOnSet(column, S)
  BY SumOfSame DEF SumFunction

LEMMA SumsOfEvents ==
  ASSUME PokerInv, NEW played \in SUBSET events
  PROVE  /\ IsFiniteSet(played)
         /\ SumFunction([e \in played |-> e.buyIn]) = SumFunctionOnSet(BuyIns, played)
         /\ SumFunction([e \in played |-> OrZero(e.reBuyAmount)]) = SumFunctionOnSet(ReBuys, played)
         /\ SumFunction([e \in played |-> AddOnCost(e)]) = SumFunctionOnSet(AddOns, played)
         /\ SumFunction([e \in played |-> e.winnings]) = SumFunctionOnSet(Winnings, played)
         /\ SumFunction([e \in played |-> CostOf(e)]) = SumFunctionOnSet(Paid, played)
<1>1. IsFiniteSet(played)
  BY FS_Subset DEF PokerInv, Table
<1>2. SumFunction([e \in played |-> e.buyIn]) = SumFunctionOnSet(BuyIns, played)
  BY <1>1, SumOfColumn DEF BuyIns
<1>3. SumFunction([e \in played |-> OrZero(e.reBuyAmount)]) = SumFunctionOnSet(ReBuys, played)
  BY <1>1, SumOfColumn DEF ReBuys
<1>4. SumFunction([e \in played |-> AddOnCost(e)]) = SumFunctionOnSet(AddOns, played)
  BY <1>1, SumOfColumn DEF AddOns
<1>5. SumFunction([e \in played |-> e.winnings]) = SumFunctionOnSet(Winnings, played)
  BY <1>1, SumOfColumn DEF Winnings
<1>6. SumFunction([e \in played |-> CostOf(e)]) = SumFunctionOnSet(Paid, played)
  BY <1>1, SumOfColumn DEF Paid
<1> QED
  BY <1>1, <1>2, <1>3, <1>4, <1>5, <1>6

\* What was won in some events less what they cost.
LEMMA NetOfEvents ==
  ASSUME PokerInv, NEW played \in SUBSET events
  PROVE  /\ SumFunctionOnSet(Winnings, played) - SumFunctionOnSet(Paid, played) = SumFunctionOnSet(Net, played)
         /\ SumFunctionOnSet(Paid, played) = SumFunctionOnSet(BuyIns, played)
                + SumFunctionOnSet(ReBuys, played) + SumFunctionOnSet(AddOns, played)
         /\ \A column \in {BuyIns, ReBuys, AddOns, Winnings, Paid, Net} : SumFunctionOnSet(column, played) \in Int
<1>1. IsFiniteSet(played)
  BY SumsOfEvents
<1>2. \A column \in {BuyIns, ReBuys, AddOns, Winnings, Paid, Net} : SumFunctionOnSet(column, played) \in Int
  <2>1. \A column \in {BuyIns, ReBuys, AddOns, Winnings, Paid, Net} : \A e \in played : column[e] \in Int
    BY ColumnsTyped
  <2> QED
    BY <1>1, <2>1, SumOfInt
<1>3. SumFunctionOnSet(Winnings, played) = SumFunctionOnSet(Net, played) + SumFunctionOnSet(Paid, played)
  <2>1. \A e \in played : Net[e] \in Int /\ Paid[e] \in Int /\ Winnings[e] = Net[e] + Paid[e]
    BY ColumnsTyped
  <2> QED
    BY <1>1, <2>1, SumOfAdded
<1> DEFINE Entered == [e \in played |-> BuyIns[e] + ReBuys[e]]
<1>4. SumFunctionOnSet(Entered, played) = SumFunctionOnSet(BuyIns, played) + SumFunctionOnSet(ReBuys, played)
  <2>1. \A e \in played : BuyIns[e] \in Int /\ ReBuys[e] \in Int /\ Entered[e] = BuyIns[e] + ReBuys[e]
    BY ColumnsTyped
  <2> HIDE DEF Entered
  <2> QED
    BY <1>1, <2>1, SumOfAdded
<1>5. SumFunctionOnSet(Paid, played) = SumFunctionOnSet(Entered, played) + SumFunctionOnSet(AddOns, played)
  <2>1. \A e \in played : Entered[e] \in Int /\ AddOns[e] \in Int /\ Paid[e] = Entered[e] + AddOns[e]
    BY ColumnsTyped
  <2> HIDE DEF Entered
  <2> QED
    BY <1>1, <2>1, SumOfAdded
<1> HIDE DEF Entered
<1>6. SumFunctionOnSet(Net, played) \in Int /\ SumFunctionOnSet(Paid, played) \in Int
  BY <1>2
<1> QED
  BY <1>2, <1>3, <1>4, <1>5, <1>6

\* The service's and SQL's results of a tournament are the same.
LEMMA ResultOfTournament ==
  ASSUME PokerInv, NEW t \in tournaments
  PROVE  /\ transformTournamentToDto(t) = getTournamentStats(t)
         /\ transformTournamentToDto(t).netProfit = SumFunctionOnSet(Net, EventsOf(t)) - t.sharedCosts
         /\ transformTournamentToDto(t).eventsWon = Cardinality(Won(EventsOf(t)))
<1> DEFINE played == EventsOf(t)
           entered == {e \in played : e.reBuyAmount # Null}
           purchased == {e \in played : e.addOnPurchased /\ e.addOnAmount # Null}
<1>1. played \in SUBSET events /\ entered \in SUBSET played /\ purchased \in SUBSET played
  BY DEF EventsOf
<1>2. SumFunction([e \in entered |-> e.reBuyAmount]) = SumFunctionOnSet(ReBuys, entered)
  <2>1. IsFiniteSet(entered)
    BY <1>1, SumsOfEvents
  <2>2. \A e \in entered : e.reBuyAmount = ReBuys[e]
    BY <1>1 DEF ReBuys, OrZero
  <2> HIDE DEF entered
  <2> QED
    BY <2>1, <2>2, SumOfColumn
<1>3. SumFunctionOnSet(ReBuys, played) = SumFunctionOnSet(ReBuys, entered)
  <2>1. IsFiniteSet(played) /\ IsFiniteSet(played \ entered) /\ IsFiniteSet(entered)
    BY <1>1, SumsOfEvents, FS_Subset
  <2>2. \A e \in played \ entered : ReBuys[e] = 0
    BY <1>1 DEF ReBuys, OrZero
  <2>3. \A e \in played : ReBuys[e] \in Int
    BY <1>1, ColumnsTyped
  <2> HIDE DEF played, entered
  <2>4. SumFunctionOnSet(ReBuys, played \ entered) = 0
    BY <2>1, <2>2, SumOfZeros
  <2>5. SumFunctionOnSet(ReBuys, played)
            = SumFunctionOnSet(ReBuys, entered) + SumFunctionOnSet(ReBuys, played \ entered)
    BY <1>1, <2>1, <2>3, SumOfSplit
  <2>6. SumFunctionOnSet(ReBuys, entered) \in Int
    BY <1>1, <2>1, <2>3, SumOfInt
  <2> QED
    BY <2>4, <2>5, <2>6
<1>4. SumFunction([e \in purchased |-> e.addOnAmount]) = SumFunctionOnSet(AddOns, purchased)
  <2>1. IsFiniteSet(purchased)
    BY <1>1, SumsOfEvents
  <2>2. \A e \in purchased : e.addOnAmount = AddOns[e]
    BY <1>1 DEF AddOns, AddOnCost, OrZero
  <2> HIDE DEF purchased
  <2> QED
    BY <2>1, <2>2, SumOfColumn
<1>5. SumFunctionOnSet(AddOns, played) = SumFunctionOnSet(AddOns, purchased)
  <2>1. IsFiniteSet(played) /\ IsFiniteSet(played \ purchased) /\ IsFiniteSet(purchased)
    BY <1>1, SumsOfEvents, FS_Subset
  <2>2. \A e \in played \ purchased : AddOns[e] = 0
    BY <1>1 DEF AddOns, AddOnCost, OrZero
  <2>3. \A e \in played : AddOns[e] \in Int
    BY <1>1, ColumnsTyped
  <2> HIDE DEF played, purchased
  <2>4. SumFunctionOnSet(AddOns, played \ purchased) = 0
    BY <2>1, <2>2, SumOfZeros
  <2>5. SumFunctionOnSet(AddOns, played)
            = SumFunctionOnSet(AddOns, purchased) + SumFunctionOnSet(AddOns, played \ purchased)
    BY <1>1, <2>1, <2>3, SumOfSplit
  <2>6. SumFunctionOnSet(AddOns, purchased) \in Int
    BY <1>1, <2>1, <2>3, SumOfInt
  <2> QED
    BY <2>4, <2>5, <2>6
<1> DEFINE bought == SumFunctionOnSet(BuyIns, played)
           rebought == SumFunctionOnSet(ReBuys, played)
           added == SumFunctionOnSet(AddOns, played)
           won == SumFunctionOnSet(Winnings, played)
           result == [totalInvestment |-> t.sharedCosts + bought + rebought + added, totalWinnings |-> won,
                      netProfit |-> won - (t.sharedCosts + bought + rebought + added),
                      eventsPlayed |-> Cardinality(played), eventsWon |-> Cardinality(Won(played))]
<1>6. /\ SumFunction([e \in played |-> e.buyIn]) = bought
      /\ SumFunction([e \in played |-> OrZero(e.reBuyAmount)]) = rebought
      /\ SumFunction([e \in played |-> AddOnCost(e)]) = added
      /\ SumFunction([e \in played |-> e.winnings]) = won
  BY <1>1, SumsOfEvents
<1>7. /\ SumFunction([e \in entered |-> e.reBuyAmount]) = rebought
      /\ SumFunction([e \in purchased |-> e.addOnAmount]) = added
  BY <1>2, <1>3, <1>4, <1>5
<1>8. transformTournamentToDto(t) = result
  BY <1>6 DEF transformTournamentToDto, Added
<1>9. getTournamentStats(t) = result
  BY <1>6, <1>7 DEF getTournamentStats, Added
<1>10. result.netProfit = SumFunctionOnSet(Net, played) - t.sharedCosts
  <2>1. /\ bought \in Int /\ rebought \in Int /\ added \in Int /\ won \in Int
        /\ won - SumFunctionOnSet(Paid, played) = SumFunctionOnSet(Net, played)
        /\ SumFunctionOnSet(Paid, played) = bought + rebought + added
    BY <1>1, NetOfEvents
  <2>2. t.sharedCosts \in Int
    BY DEF PokerInv, Tournament
  <2>3. result.netProfit = won - (t.sharedCosts + bought + rebought + added)
    OBVIOUS
  <2> HIDE DEF result, bought, rebought, added, won, played
  <2> QED
    BY <2>1, <2>2, <2>3
<1> QED
  BY <1>8, <1>9, <1>10

\* The number of elements is the sum of ones.
LEMMA SumOfOnes ==
  ASSUME NEW S, IsFiniteSet(S), NEW ones, \A x \in S : ones[x] = 1
  PROVE  SumFunctionOnSet(ones, S) = Cardinality(S)
<1> DEFINE Wrong == {T \in SUBSET S : SumFunctionOnSet(ones, T) # Cardinality(T)}
<1>1. ASSUME Wrong # {} PROVE FALSE
  <2>1. PICK T \in Wrong : \A U \in SUBSET T : U # T => U \notin Wrong
    <3>1. Wrong \in SUBSET SUBSET S
      OBVIOUS
    <3> HIDE DEF Wrong
    <3> QED
      BY <1>1, <3>1, SmallestSet
  <2>2. T # {} /\ IsFiniteSet(T)
    BY <2>1, SumOfNone, FS_Subset, FS_EmptySet
  <2>3. First(T) \in T
    BY <2>2, FirstIsIn
  <2>4. SumFunctionOnSet(ones, T \ {First(T)}) = Cardinality(T \ {First(T)}) /\ ones[First(T)] = 1
    BY <2>1, <2>3
  <2>5. SumFunctionOnSet(ones, T) = ones[First(T)] + SumFunctionOnSet(ones, T \ {First(T)})
    BY <2>2, SumOfFirst
  <2>6. Cardinality(T \ {First(T)}) = Cardinality(T) - 1 /\ Cardinality(T) \in Nat
    BY <2>2, <2>3, FS_RemoveElement, FS_CardinalityType
  <2> QED
    BY <2>1, <2>4, <2>5, <2>6
<1>2. S \notin Wrong
  BY <1>1
<1> QED
  BY <1>2

\* The sum over all events is the sum of those of the tournaments.
LEMMA SumByTournament ==
  ASSUME PokerInv, NEW played \in SUBSET events, NEW column, \A e \in played : column[e] \in Int,
         NEW parts, \A t \in tournaments : parts[t] = SumFunctionOnSet(column, played \intersect EventsOf(t))
  PROVE  SumFunctionOnSet(parts, tournaments) = SumFunctionOnSet(column, played)
<1> DEFINE part == [t \in tournaments |-> played \intersect EventsOf(t)]
<1>1. IsFiniteSet(played) /\ IsFiniteSet(tournaments)
  BY SumsOfEvents DEF PokerInv, Table
<1>2. \A t \in tournaments : part[t] \in SUBSET played /\ parts[t] = SumFunctionOnSet(column, part[t])
  OBVIOUS
<1>3. \A e \in played : \E t \in tournaments : e \in part[t]
  BY DEF PokerInv, IdsOf, EventsOf
<1>4. \A t, u \in tournaments : t # u => part[t] \intersect part[u] = {}
  BY DEF PokerInv, Table, EventsOf
<1> HIDE DEF part
<1> QED
  BY <1>1, <1>2, <1>3, <1>4, SumOfParts

\* The results of all tournaments are those of the tournaments added up.
LEMMA ResultsAddUp == ASSUME PokerInv PROVE ResultsAgree
<1> DEFINE Dto(t) == transformTournamentToDto(t)
<1>1. \A t \in tournaments : Dto(t) = getTournamentStats(t)
  BY ResultOfTournament
<1>2. IsFiniteSet(tournaments) /\ IsFiniteSet(events)
  BY DEF PokerInv, Table
<1>3. getUserPokerStats.netProfit = SumFunction([t \in tournaments |-> Dto(t).netProfit])
  <2> DEFINE shared == [t \in tournaments |-> t.sharedCosts]
             results == [t \in tournaments |-> Dto(t).netProfit]
             played == [t \in tournaments |-> SumFunctionOnSet(Net, EventsOf(t))]
  <2>1. getUserPokerStats.netProfit
            = SumFunctionOnSet(Winnings, events)
              - (SumFunctionOnSet(shared, tournaments) + SumFunctionOnSet(Paid, events))
    <3>1. SumFunction([e \in events |-> e.winnings]) = SumFunctionOnSet(Winnings, events)
      BY SumsOfEvents
    <3>2. SumFunction([e \in events |-> CostOf(e)]) = SumFunctionOnSet(Paid, events)
      BY SumsOfEvents
    <3>3. SumFunction(shared) = SumFunctionOnSet(shared, tournaments)
      BY DEF SumFunction
    <3> QED
      BY <3>1, <3>2, <3>3 DEF getUserPokerStats, SharedCosts, Added
  <2>2. SumFunctionOnSet(Winnings, events) - SumFunctionOnSet(Paid, events) = SumFunctionOnSet(Net, events)
    BY NetOfEvents
  <2>3. SumFunctionOnSet(played, tournaments) = SumFunctionOnSet(Net, events)
    <3>1. \A e \in events : Net[e] \in Int
      BY ColumnsTyped
    <3>2. \A t \in tournaments : played[t] = SumFunctionOnSet(Net, events \intersect EventsOf(t))
      <4>1. \A t \in tournaments : events \intersect EventsOf(t) = EventsOf(t)
        BY DEF EventsOf
      <4> QED
        BY <4>1
    <3> HIDE DEF played
    <3> QED
      BY <3>1, <3>2, SumByTournament
  <2>4. ASSUME NEW t \in tournaments
        PROVE  /\ shared[t] \in Int /\ results[t] \in Int
               /\ played[t] = results[t] + shared[t]
    <3>1. EventsOf(t) \in SUBSET events
      BY DEF EventsOf
    <3>2. SumFunctionOnSet(Net, EventsOf(t)) \in Int
      BY <3>1, NetOfEvents
    <3>3. t.sharedCosts \in Int
      BY DEF PokerInv, Tournament
    <3>4. Dto(t).netProfit = SumFunctionOnSet(Net, EventsOf(t)) - t.sharedCosts
      BY ResultOfTournament
    <3> HIDE DEF Dto
    <3> QED
      BY <3>2, <3>3, <3>4
  <2>5. SumFunction(results) = SumFunctionOnSet(results, tournaments)
    BY DEF SumFunction
  <2> HIDE DEF shared, results, played, Dto
  <2>6. SumFunctionOnSet(played, tournaments)
            = SumFunctionOnSet(results, tournaments) + SumFunctionOnSet(shared, tournaments)
    BY <1>2, <2>4, SumOfAdded
  <2>7. /\ SumFunctionOnSet(results, tournaments) \in Int
        /\ SumFunctionOnSet(shared, tournaments) \in Int
    BY <1>2, <2>4, SumOfInt
  <2>8. SumFunctionOnSet(Winnings, events) \in Int /\ SumFunctionOnSet(Paid, events) \in Int
    BY NetOfEvents
  <2>9. getUserPokerStats.netProfit = SumFunctionOnSet(results, tournaments)
    BY <2>1, <2>2, <2>3, <2>6, <2>7, <2>8
  <2> QED
    BY <2>5, <2>9 DEF results
<1>4. getUserPokerStats.totalEventsWon = SumFunction([t \in tournaments |-> Dto(t).eventsWon])
  <2> DEFINE ones == [e \in events |-> 1]
             numbers == [t \in tournaments |-> Dto(t).eventsWon]
  <2>1. ASSUME NEW t \in tournaments
        PROVE  numbers[t] = SumFunctionOnSet(ones, Won(events) \intersect EventsOf(t))
    <3>1. Won(events) \intersect EventsOf(t) = Won(EventsOf(t)) /\ Won(EventsOf(t)) \in SUBSET events
      BY DEF Won, EventsOf
    <3>2. IsFiniteSet(Won(EventsOf(t))) /\ \A e \in Won(EventsOf(t)) : ones[e] = 1
      BY <1>2, <3>1, FS_Subset
    <3>3. SumFunctionOnSet(ones, Won(EventsOf(t))) = Cardinality(Won(EventsOf(t)))
      <4> HIDE DEF ones
      <4> QED
        BY <3>2, SumOfOnes
    <3>4. Dto(t).eventsWon = Cardinality(Won(EventsOf(t)))
      BY ResultOfTournament
    <3> HIDE DEF ones, Dto
    <3> QED
      BY <3>1, <3>3, <3>4
  <2>2. Won(events) \in SUBSET events /\ IsFiniteSet(Won(events)) /\ \A e \in Won(events) : ones[e] = 1
    <3>1. Won(events) \in SUBSET events
      BY DEF Won
    <3> QED
      BY <1>2, <3>1, FS_Subset
  <2>3. SumFunction(numbers) = SumFunctionOnSet(numbers, tournaments)
    BY DEF SumFunction
  <2> HIDE DEF ones, numbers, Dto
  <2>4. SumFunctionOnSet(numbers, tournaments) = SumFunctionOnSet(ones, Won(events))
    BY <2>1, <2>2, SumByTournament
  <2>5. SumFunctionOnSet(ones, Won(events)) = Cardinality(Won(events))
    BY <2>2, SumOfOnes
  <2>6. getUserPokerStats.totalEventsWon = Cardinality(Won(events))
    BY DEF getUserPokerStats
  <2> QED
    BY <2>3, <2>4, <2>5, <2>6 DEF numbers
<1> QED
  BY <1>1, <1>3, <1>4 DEF ResultsAgree, Added

\* The greater and the lesser of two amounts.
LEMMA MaxOfTwo == ASSUME NEW a \in Int, NEW b \in Int PROVE Max({a, b}) = IF a >= b THEN a ELSE b
  BY DEF Max

LEMMA MinOfTwo == ASSUME NEW a \in Int, NEW b \in Int PROVE Min({a, b}) = IF a <= b THEN a ELSE b
  BY DEF Min

\* What is taken out is added to the withdrawals, and to nothing else.
LEMMA AmountsOfType ==
  ASSUME NEW ledger, IsFiniteSet(ledger), \A entry \in ledger : entry.amount \in Int, NEW type
  PROVE  /\ OfType(ledger, type) \in Int
         /\ \A new : new \notin ledger /\ new.amount \in Int =>
               OfType(ledger \union {new}, type) = OfType(ledger, type) + IF new.type = type THEN new.amount ELSE 0
<1> DEFINE Those(table) == {entry \in table : entry.type = type}
           amounts(table) == [entry \in table |-> entry.amount]
<1>1. ASSUME NEW table, IsFiniteSet(table), \A entry \in table : entry.amount \in Int
      PROVE  /\ IsFiniteSet(Those(table)) /\ OfType(table, type) = SumFunctionOnSet(amounts(table), Those(table))
             /\ OfType(table, type) \in Int
  <2>1. Those(table) \in SUBSET table
    OBVIOUS
  <2>2. IsFiniteSet(Those(table))
    BY <1>1, <2>1, FS_Subset
  <2>3. OfType(table, type) = SumFunction([entry \in Those(table) |-> entry.amount])
    BY DEF OfType, Added
  <2>4. \A entry \in Those(table) : entry.amount = amounts(table)[entry] /\ amounts(table)[entry] \in Int
    BY <1>1
  <2> HIDE DEF Those, amounts
  <2>5. OfType(table, type) = SumFunctionOnSet(amounts(table), Those(table))
    BY <2>2, <2>3, <2>4, SumOfColumn
  <2> QED
    BY <2>2, <2>4, <2>5, SumOfInt
<1>2. ASSUME NEW new, new \notin ledger, new.amount \in Int
      PROVE  OfType(ledger \union {new}, type)
                 = OfType(ledger, type) + IF new.type = type THEN new.amount ELSE 0
  <2> DEFINE more == ledger \union {new}
  <2>1. IsFiniteSet(more) /\ \A entry \in more : entry.amount \in Int
    BY <1>2, FS_AddElement
  <2>2. /\ OfType(more, type) = SumFunctionOnSet(amounts(more), Those(more))
        /\ IsFiniteSet(Those(more))
    BY <1>1, <2>1
  <2>3. /\ OfType(ledger, type) = SumFunctionOnSet(amounts(ledger), Those(ledger))
        /\ IsFiniteSet(Those(ledger))
    BY <1>1
  <2>4. SumFunctionOnSet(amounts(more), Those(ledger)) = SumFunctionOnSet(amounts(ledger), Those(ledger))
    <3>1. \A entry \in Those(ledger) : amounts(more)[entry] = amounts(ledger)[entry]
      OBVIOUS
    <3> HIDE DEF amounts, Those
    <3> QED
      BY <2>3, <3>1, SumOfSame
  <2>5. OfType(ledger, type) \in Int
    BY <1>1
  <2>6. CASE new.type = type
    <3>1. new \in Those(more) /\ Those(more) \ {new} = Those(ledger) /\ amounts(more)[new] = new.amount
      BY <1>2, <2>6
    <3>2. \A entry \in Those(more) : amounts(more)[entry] \in Int
      BY <2>1
    <3> HIDE DEF amounts, Those, more
    <3>3. SumFunctionOnSet(amounts(more), Those(more))
              = amounts(more)[new] + SumFunctionOnSet(amounts(more), Those(more) \ {new})
      BY <2>2, <3>1, <3>2, SumOfAny
    <3>4. OfType(more, type) = new.amount + OfType(ledger, type)
      BY <2>2, <2>3, <2>4, <3>1, <3>3
    <3>5. OfType(more, type) = OfType(ledger, type) + new.amount
      BY <1>2, <2>5, <3>4
    <3> QED
      BY <2>6, <3>5 DEF more
  <2>7. CASE new.type # type
    <3>1. Those(more) = Those(ledger)
      BY <2>7
    <3> HIDE DEF amounts, Those, more
    <3> QED
      BY <2>2, <2>3, <2>4, <2>5, <2>7, <3>1 DEF more
  <2> QED
    BY <2>6, <2>7
<1>3. OfType(ledger, type) \in Int
  BY <1>1
<1> QED
  BY <1>2, <1>3

\* The bankroll in terms of what was put in, taken out and won.
BankrollOf(deposits, withdrawals, profit, told) ==
    LET current == deposits - withdrawals + profit
        atRisk == IF deposits >= withdrawals THEN deposits - withdrawals ELSE 0
        capped == IF current >= 0 THEN current ELSE 0
        beyond == IF current >= deposits THEN current - deposits ELSE 0
        free == withdrawals >= deposits /\ current > 0
        freeroll == deposits > 0 /\ (free \/ profit >= 2 * deposits)
        inProfit == deposits > 0 /\ ~free /\ profit >= deposits /\ profit < 2 * deposits
    IN  /\ told.currentBankroll = current /\ told.capitalAtRisk = atRisk
        /\ told.status = "FREEROLL" <=> freeroll
        /\ told.status = "IN_PROFIT" <=> inProfit
        /\ freeroll => told.suggestedWithdrawal = IF atRisk <= capped THEN atRisk ELSE capped
        /\ inProfit => told.suggestedWithdrawal = IF beyond <= capped THEN beyond ELSE capped
        /\ ~freeroll /\ ~inProfit => told.suggestedWithdrawal = 0

LEMMA BankrollIs ==
  ASSUME NEW ledger, OfType(ledger, "DEPOSIT") \in Int, OfType(ledger, "WITHDRAWAL") \in Int,
         getUserPokerStats.netProfit \in Int
  PROVE  BankrollOf(OfType(ledger, "DEPOSIT"), OfType(ledger, "WITHDRAWAL"), getUserPokerStats.netProfit,
                    getBankroll(ledger))
<1>1. PICK d \in Int : d = OfType(ledger, "DEPOSIT")
  OBVIOUS
<1>2. PICK w \in Int : w = OfType(ledger, "WITHDRAWAL")
  OBVIOUS
<1>3. PICK p \in Int : p = getUserPokerStats.netProfit
  OBVIOUS
<1> DEFINE current == d - w + p
           atRisk == IF d >= w THEN d - w ELSE 0
           beyond == IF current >= d THEN current - d ELSE 0
           capped == IF current >= 0 THEN current ELSE 0
           isFreerolling == d > 0 /\ w >= d /\ current > 0
           status == CASE d > 0 /\ (isFreerolling \/ p >= 2 * d) -> "FREEROLL"
                       [] d > 0 /\ ~isFreerolling /\ p \in d .. 2 * d - 1 -> "IN_PROFIT"
                       [] OTHER -> "BUILDING"
           suggested == CASE status = "FREEROLL" -> atRisk [] status = "IN_PROFIT" -> beyond [] OTHER -> 0
<1>4. current \in Int /\ atRisk \in Int /\ beyond \in Int /\ capped \in Int
  OBVIOUS
<1>5. Max({0, d - w}) = atRisk /\ Max({0, current - d}) = beyond /\ Max({0, current}) = capped
  <2>1. Max({0, d - w}) = IF 0 >= d - w THEN 0 ELSE d - w
    BY MaxOfTwo
  <2>2. Max({0, current - d}) = IF 0 >= current - d THEN 0 ELSE current - d
    BY <1>4, MaxOfTwo
  <2>3. Max({0, current}) = IF 0 >= current THEN 0 ELSE current
    BY <1>4, MaxOfTwo
  <2> QED
    BY <2>1, <2>2, <2>3
<1>6. /\ getBankroll(ledger).currentBankroll = current /\ getBankroll(ledger).capitalAtRisk = atRisk
      /\ getBankroll(ledger).status = status /\ getBankroll(ledger).suggestedWithdrawal = Min({suggested, capped})
  BY <1>1, <1>2, <1>3, <1>5 DEF getBankroll
<1>7. status = "FREEROLL" <=> d > 0 /\ (isFreerolling \/ p >= 2 * d)
  OBVIOUS
<1>8. status = "IN_PROFIT" <=> d > 0 /\ ~isFreerolling /\ p >= d /\ p < 2 * d
  OBVIOUS
<1>9. suggested \in Int
  BY <1>4
<1>10. Min({suggested, capped}) = IF suggested <= capped THEN suggested ELSE capped
  <2> HIDE DEF suggested, capped
  <2> QED
    BY <1>4, <1>9, MinOfTwo
<1>11. 0 <= capped
  OBVIOUS
<1> DEFINE told == getBankroll(ledger)
<1> HIDE DEF status, told
<1>12. BankrollOf(d, w, p, told)
  BY <1>6, <1>7, <1>8, <1>10, <1>11 DEF BankrollOf, told
<1> QED
  BY <1>1, <1>2, <1>3, <1>12 DEF told

\* After the suggested withdrawal nothing more is suggested.
LEMMA SuggestedIsLast ==
  ASSUME NEW d \in Nat, NEW w \in Int, NEW p \in Int, NEW before, BankrollOf(d, w, p, before),
         before.suggestedWithdrawal > 0, NEW after, BankrollOf(d, w + before.suggestedWithdrawal, p, after)
  PROVE  /\ after.suggestedWithdrawal = 0
         /\ before.status = "FREEROLL" => after.capitalAtRisk = 0 /\ after.currentBankroll = p
         /\ before.status = "IN_PROFIT" => after.currentBankroll = d
<1>1. CASE before.status = "FREEROLL"
  <2>1. d > 0 /\ p >= 2 * d /\ d - w > 0 /\ before.suggestedWithdrawal = d - w
    BY <1>1 DEF BankrollOf
  <2>2. w + before.suggestedWithdrawal = d
    BY <2>1
  <2>3. BankrollOf(d, d, p, after)
    BY <2>2
  <2>4. before.status # "IN_PROFIT"
    BY <1>1
  <2> QED
    BY <2>1, <2>3, <2>4 DEF BankrollOf
<1>2. CASE before.status = "IN_PROFIT"
  <2>1. d > 0 /\ p >= d /\ p < 2 * d /\ p - w > 0 /\ before.suggestedWithdrawal = p - w
    BY <1>2 DEF BankrollOf
  <2>2. w + before.suggestedWithdrawal = p
    BY <2>1
  <2>3. BankrollOf(d, p, p, after)
    BY <2>2
  <2>4. before.status # "FREEROLL"
    BY <1>2
  <2> QED
    BY <2>1, <2>3, <2>4 DEF BankrollOf
<1>3. CASE before.status # "FREEROLL" /\ before.status # "IN_PROFIT"
  <2>1. before.suggestedWithdrawal = 0
    BY <1>3 DEF BankrollOf
  <2> QED
    BY <2>1
<1> QED
  BY <1>1, <1>2, <1>3

LEMMA SuggestionsHold == ASSUME PokerInv PROVE SuggestedOnce
<1> DEFINE d == OfType(bankroll, "DEPOSIT")
           w == OfType(bankroll, "WITHDRAWAL")
           p == getUserPokerStats.netProfit
<1>1. IsFiniteSet(bankroll) /\ \A entry \in bankroll : entry.amount \in Int
  BY DEF PokerInv, Table, Booked
<1>2. d \in Int /\ w \in Int
  BY <1>1, AmountsOfType
<1>3. d >= 0
  <2> DEFINE deposits == {entry \in bankroll : entry.type = "DEPOSIT"}
             amounts == [entry \in deposits |-> entry.amount]
  <2>1. IsFiniteSet(deposits)
    <3>1. deposits \in SUBSET bankroll
      OBVIOUS
    <3> QED
      BY <1>1, <3>1, FS_Subset
  <2>2. \A entry \in deposits : amounts[entry] \in Nat
    BY DEF PokerInv, Booked
  <2>3. d = SumFunctionOnSet(amounts, deposits)
    BY DEF OfType, Added, SumFunction
  <2> HIDE DEF amounts, deposits
  <2> QED
    BY <2>1, <2>2, <2>3, SumOfNat
<1>4. p \in Int
  <2>1. p = SumFunctionOnSet(Winnings, events) - (SharedCosts + SumFunctionOnSet(Paid, events))
    <3>1. /\ SumFunction([e \in events |-> e.winnings]) = SumFunctionOnSet(Winnings, events)
          /\ SumFunction([e \in events |-> CostOf(e)]) = SumFunctionOnSet(Paid, events)
      BY SumsOfEvents
    <3> QED
      BY <3>1 DEF getUserPokerStats, Added
  <2>2. SumFunctionOnSet(Winnings, events) \in Int /\ SumFunctionOnSet(Paid, events) \in Int
    BY NetOfEvents
  <2>3. SharedCosts \in Int
    <3> DEFINE shared == [t \in tournaments |-> t.sharedCosts]
    <3>1. SharedCosts = SumFunctionOnSet(shared, tournaments)
      BY DEF SharedCosts, Added, SumFunction
    <3>2. IsFiniteSet(tournaments) /\ \A t \in tournaments : shared[t] \in Int
      BY DEF PokerInv, Table, Tournament
    <3> HIDE DEF shared
    <3> QED
      BY <3>1, <3>2, SumOfInt
  <2> QED
    BY <2>1, <2>2, <2>3
<1> DEFINE before == getBankroll(bankroll)
           new == [id |-> None, type |-> "WITHDRAWAL", amount |-> before.suggestedWithdrawal]
           after == getBankroll(bankroll \union {new})
<1>5. BankrollOf(d, w, p, before)
  BY <1>2, <1>4, BankrollIs
<1>6. before.suggestedWithdrawal \in Int
  <2> HIDE DEF before, d, w, p
  <2> QED
    BY <1>2, <1>4, <1>5 DEF BankrollOf
<1>7. new \notin bankroll /\ new.amount = before.suggestedWithdrawal /\ new.type = "WITHDRAWAL"
  <2>1. new.id = None /\ \A entry \in bankroll : entry.id \in Entries
    BY DEF PokerInv, Booked
  <2>2. new.amount = before.suggestedWithdrawal /\ new.type = "WITHDRAWAL"
    OBVIOUS
  <2> HIDE DEF new
  <2> QED
    BY <2>1, <2>2, FiguresAssumption
<1> HIDE DEF new, before
<1>8. /\ OfType(bankroll \union {new}, "DEPOSIT") = d + 0
      /\ OfType(bankroll \union {new}, "WITHDRAWAL") = w + before.suggestedWithdrawal
  BY <1>1, <1>6, <1>7, AmountsOfType
<1> HIDE DEF d, w, p
<1>9. BankrollOf(d, w + before.suggestedWithdrawal, p, after)
  <2>1. /\ OfType(bankroll \union {new}, "DEPOSIT") = d
        /\ OfType(bankroll \union {new}, "WITHDRAWAL") = w + before.suggestedWithdrawal
        /\ d \in Int /\ w + before.suggestedWithdrawal \in Int
    BY <1>2, <1>6, <1>8
  <2>2. p = getUserPokerStats.netProfit
    BY DEF p
  <2> HIDE DEF after
  <2>3. BankrollOf(OfType(bankroll \union {new}, "DEPOSIT"), OfType(bankroll \union {new}, "WITHDRAWAL"),
                   getUserPokerStats.netProfit, after)
    BY <1>4, <2>1, <2>2, BankrollIs DEF after
  <2> QED
    BY <2>1, <2>2, <2>3
<1> HIDE DEF after
<1>10. ASSUME before.suggestedWithdrawal > 0
       PROVE  /\ after.suggestedWithdrawal = 0
              /\ before.status = "FREEROLL" => after.capitalAtRisk = 0 /\ after.currentBankroll = p
              /\ before.status = "IN_PROFIT" => after.currentBankroll = d
  <2>1. d \in Nat
    BY <1>2, <1>3
  <2> QED
    BY <1>2, <1>4, <1>5, <1>9, <1>10, <2>1, SuggestedIsLast
<1> QED
  BY <1>10 DEF SuggestedOnce, before, after, new, d, p

-------------------------------------------------------------------------------
(* The tables of the user.                                                    *)

TypedRow(row) ==
    /\ row.type \in {"INCOME", "EXPENSE"} /\ row.amount \in Nat
    /\ row.date \in Int /\ row.due \in Nat \union {NoDate}
    /\ row.status \in {"NONE", "UPCOMING", "OVERDUE", "PAID"} /\ (row.type = "INCOME" => row.status = "NONE")
    /\ row.recurring \in BOOLEAN /\ row.primary \in BOOLEAN
    /\ row.source \in {None, s1, s2} /\ (row.primary => row.type = "INCOME" /\ row.source = None)
    /\ row.text = None

Rows(table) == IsFiniteSet(table) /\ \A row \in table : TypedRow(row)

\* The row that has an id.
RowOf(id) == Row(id[1], id[2], id[3], id[4], id[5], id[6], id[7], id[8], id[9])

TypedContribution(c) ==
    /\ c.amount \in {1, 2} /\ c.date \in {At(455), At(485), At(510)} /\ c.source \in {None, s1, s2}
    /\ c.goal \in {goal.id : goal \in Goals}

Contributed(table) == IsFiniteSet(table) /\ \A c \in table : TypedContribution(c)

Tables ==
    /\ user \in Users /\ now = Now
    /\ Rows(rows) /\ Contributed(contributions)
    /\ \A row \in rows : row = RowOf(row.id)
    /\ IsFiniteSet(plans) /\ plans \subseteq Plans

FiguresInv == Tables /\ PokerInv

\* The entries of the model are rows, and contributions to goals that exist.
LEMMA EntriesTyped ==
  /\ \A row \in UnpaidBills \union OtherBills \union Spent \union Earned : TypedRow(row)
  /\ \A c \in Contributions : TypedContribution(c)
<1>1. \A n \in Nat : At(n) \in Nat
  BY DEF At
<1>2. ASSUME NEW row \in UnpaidBills PROVE TypedRow(row)
  <2>1. PICK due \in {At(487), At(512), At(515), At(515) + 9, At(516)}, recurrence \in {"weekly", "monthly"} :
            row = UnpaidBill(due, recurrence)
    BY DEF UnpaidBills
  <2>2. due \in Nat
    BY <1>1, <2>1
  <2> QED
    BY <1>1, <2>1, <2>2 DEF UnpaidBill, Row, TypedRow
<1>3. ASSUME NEW row \in OtherBills PROVE TypedRow(row)
  <2>1. CASE row = BillOfSource
    BY <1>1, <2>1 DEF BillOfSource, Row, TypedRow
  <2>2. ASSUME NEW date \in {At(484), At(510)}, NEW source \in {None, s2}, row = PaidBill(date, source)
        PROVE  TypedRow(row)
    BY <1>1, <2>2 DEF PaidBill, Row, TypedRow
  <2>3. ASSUME NEW due \in {At(503), At(514), NoDate}, NEW status \in {"OVERDUE", "NONE"},
               row = StoredBill(due, status)
        PROVE  TypedRow(row)
    <3>1. due \in Nat \union {NoDate}
      BY <1>1
    <3> QED
      BY <1>1, <2>3, <3>1 DEF StoredBill, Row, TypedRow
  <2> QED
    BY <2>1, <2>2, <2>3 DEF OtherBills
<1>4. ASSUME NEW row \in Spent PROVE TypedRow(row)
  <2>1. ASSUME NEW date \in {At(400), At(456) + 5, At(486) - 3, At(504) + 23, At(508) + 21, At(511) + 5},
               row = Purchase(date)
        PROVE  TypedRow(row)
    <3>1. date \in Int
      BY <1>1
    <3> QED
      BY <2>1, <3>1 DEF Purchase, Row, TypedRow
  <2>2. ASSUME NEW status \in {"NONE", "UPCOMING"}, NEW source \in {None, s1},
               row = SmallPurchase(status, source)
        PROVE  TypedRow(row)
    BY <1>1, <2>2 DEF SmallPurchase, Row, TypedRow
  <2> QED
    BY <2>1, <2>2 DEF Spent
<1>5. ASSUME NEW row \in Earned PROVE TypedRow(row)
  <2>1. ASSUME NEW date \in {At(472), At(498), At(509) - 5, At(510)}, NEW source \in {None, s1, s2},
               row = Payment(date, source)
        PROVE  TypedRow(row)
    <3>1. date \in Int
      BY <1>1
    <3> QED
      BY <2>1, <3>1 DEF Payment, Row, TypedRow
  <2>2. CASE row = SalaryPayment
    BY <1>1, <2>2 DEF SalaryPayment, Row, TypedRow
  <2> QED
    BY <2>1, <2>2 DEF Earned
<1>6. ASSUME NEW c \in Contributions PROVE TypedContribution(c)
  <2>1. "open" \in {goal.id : goal \in Goals} /\ "done" \in {goal.id : goal \in Goals}
        /\ "off" \in {goal.id : goal \in Goals}
    BY DEF Goals
  <2>2. /\ c.amount \in {1, 2} /\ c.date \in {At(455), At(485), At(510)} /\ c.source \in {None, s1, s2}
        /\ c.goal \in {"open", "done", "off"}
    BY DEF Contributions
  <2> QED
    BY <2>1, <2>2 DEF TypedContribution
<1> QED
  BY <1>2, <1>3, <1>4, <1>5, <1>6

\* A row is what its id says, so no two rows have the same.
LEMMA RowIs ==
  ASSUME NEW type, NEW amount, NEW date, NEW due, NEW status, NEW recurrence, NEW category, NEW source,
         NEW primary, NEW row, row = Row(type, amount, date, due, status, recurrence, category, source, primary)
  PROVE  row = RowOf(row.id)
<1> DEFINE id == <<type, amount, date, due, status, recurrence, category, source, primary>>
<1>1. row.id = id
  BY DEF Row
<1>2. /\ id[1] = type /\ id[2] = amount /\ id[3] = date /\ id[4] = due /\ id[5] = status
      /\ id[6] = recurrence /\ id[7] = category /\ id[8] = source /\ id[9] = primary
  OBVIOUS
<1> HIDE DEF id
<1> QED
  BY <1>1, <1>2 DEF RowOf

LEMMA EntriesIdentified ==
  \A row \in UnpaidBills \union OtherBills \union Spent \union Earned : row = RowOf(row.id)
<1>1. ASSUME NEW row \in UnpaidBills PROVE row = RowOf(row.id)
  <2>1. PICK due \in {At(487), At(512), At(515), At(515) + 9, At(516)}, recurrence \in {"weekly", "monthly"} :
            row = UnpaidBill(due, recurrence)
    BY DEF UnpaidBills
  <2>2. PICK primary : row = Row("EXPENSE", 2, At(486), due, "UPCOMING", recurrence, food, None, primary)
    BY <2>1, Zenon DEF UnpaidBill
  <2> QED
    BY <2>2, RowIs
<1>2. ASSUME NEW row \in OtherBills PROVE row = RowOf(row.id)
  <2>1. CASE row = BillOfSource
    <3>1. PICK primary : row = Row("EXPENSE", 2, At(486), At(512), "UPCOMING", "monthly", None, s1, primary)
      BY <2>1, Zenon DEF BillOfSource
    <3> QED
      BY <3>1, RowIs
  <2>2. ASSUME NEW date \in {At(484), At(510)}, NEW source \in {None, s2}, row = PaidBill(date, source)
        PROVE  row = RowOf(row.id)
    <3>1. PICK primary : row = Row("EXPENSE", 2, date, At(515), "PAID", "monthly", food, source, primary)
      BY <2>2, Zenon DEF PaidBill
    <3> QED
      BY <3>1, RowIs
  <2>3. ASSUME NEW due \in {At(503), At(514), NoDate}, NEW status \in {"OVERDUE", "NONE"},
               row = StoredBill(due, status)
        PROVE  row = RowOf(row.id)
    <3>1. PICK primary : row = Row("EXPENSE", 2, At(506), due, status, "monthly", None, None, primary)
      BY <2>3, Zenon DEF StoredBill
    <3> QED
      BY <3>1, RowIs
  <2> QED
    BY <2>1, <2>2, <2>3 DEF OtherBills
<1>3. ASSUME NEW row \in Spent PROVE row = RowOf(row.id)
  <2>1. ASSUME NEW date \in {At(400), At(456) + 5, At(486) - 3, At(504) + 23, At(508) + 21, At(511) + 5},
               row = Purchase(date)
        PROVE  row = RowOf(row.id)
    <3>1. PICK primary : row = Row("EXPENSE", 9, date, NoDate, "NONE", None, food, None, primary)
      BY <2>1, Zenon DEF Purchase
    <3> QED
      BY <3>1, RowIs
  <2>2. ASSUME NEW status \in {"NONE", "UPCOMING"}, NEW source \in {None, s1},
               row = SmallPurchase(status, source)
        PROVE  row = RowOf(row.id)
    <3>1. PICK primary : row = Row("EXPENSE", 1, At(510), NoDate, status, None, None, source, primary)
      BY <2>2, Zenon DEF SmallPurchase
    <3> QED
      BY <3>1, RowIs
  <2> QED
    BY <2>1, <2>2 DEF Spent
<1>4. ASSUME NEW row \in Earned PROVE row = RowOf(row.id)
  <2>1. ASSUME NEW date \in {At(472), At(498), At(509) - 5, At(510)}, NEW source \in {None, s1, s2},
               row = Payment(date, source)
        PROVE  row = RowOf(row.id)
    <3>1. PICK primary : row = Row("INCOME", 4, date, NoDate, "NONE", None, None, source, primary)
      BY <2>1, Zenon DEF Payment
    <3> QED
      BY <3>1, RowIs
  <2>2. CASE row = SalaryPayment
    <3>1. PICK primary : row = Row("INCOME", 5, At(510), NoDate, "NONE", None, None, None, primary)
      BY <2>2, Zenon DEF SalaryPayment
    <3> QED
      BY <3>1, RowIs
  <2> QED
    BY <2>1, <2>2 DEF Earned
<1> QED
  BY <1>1, <1>2, <1>3, <1>4

LEMMA FiguresInitInv == ASSUME Init PROVE FiguresInv
<1>1. Tables
  BY FS_EmptySet DEF Init, Tables, Rows, Contributed
<1> QED
  BY <1>1, PokerInitInv DEF Init, FiguresInv

LEMMA FiguresNextInv == ASSUME FiguresInv, [Next]_vars PROVE FiguresInv'
<1>1. ASSUME NEW row \in UnpaidBills \union OtherBills \union Spent \union Earned, AddRow(row)
      PROVE  FiguresInv'
  <2>1. TypedRow(row)
    BY EntriesTyped
  <2>2. rows' = rows \union {row} /\ UNCHANGED <<user, now, contributions, plans>> /\ UNCHANGED pokerVars
    BY <1>1 DEF AddRow, NotFull
  <2>3. Rows(rows')
    BY <2>1, <2>2, FS_AddElement DEF FiguresInv, Tables, Rows
  <2>4. \A r \in rows' : r = RowOf(r.id)
    BY <2>2, EntriesIdentified DEF FiguresInv, Tables
  <2>5. Tables'
    BY <2>2, <2>3, <2>4 DEF FiguresInv, Tables
  <2> QED
    BY <2>2, <2>5, PokerNextInv DEF FiguresInv
<1>2. ASSUME NEW c \in Contributions, AddContribution(c) PROVE FiguresInv'
  <2>1. TypedContribution(c)
    BY EntriesTyped
  <2>2. contributions' = contributions \union {c} /\ UNCHANGED <<user, now, rows, plans>> /\ UNCHANGED pokerVars
    BY <1>2 DEF AddContribution, NotFull
  <2>3. Contributed(contributions')
    BY <2>1, <2>2, FS_AddElement DEF FiguresInv, Tables, Contributed
  <2>4. Tables'
    BY <2>2, <2>3 DEF FiguresInv, Tables
  <2> QED
    BY <2>2, <2>4, PokerNextInv DEF FiguresInv
<1>3. ASSUME NEW plan \in Plans, AddPlan(plan) PROVE FiguresInv'
  <2>1. plans' = plans \union {plan} /\ UNCHANGED <<user, now, rows, contributions>> /\ UNCHANGED pokerVars
    BY <1>3 DEF AddPlan, NotFull
  <2>2. IsFiniteSet(plans') /\ plans' \subseteq Plans
    BY <2>1, FS_AddElement DEF FiguresInv, Tables
  <2>3. Tables'
    BY <2>1, <2>2 DEF FiguresInv, Tables
  <2> QED
    BY <2>1, <2>3, PokerNextInv DEF FiguresInv
<1>4. CASE Play
  <2>1. PokerNext /\ UNCHANGED tables
    BY <1>4 DEF Play
  <2>2. Tables'
    BY <2>1 DEF tables, FiguresInv, Tables
  <2> QED
    BY <2>1, <2>2, PokerNextInv DEF FiguresInv
<1>5. CASE UNCHANGED vars
  <2>1. UNCHANGED tables /\ UNCHANGED pokerVars
    BY <1>5 DEF vars
  <2>2. Tables'
    BY <2>1 DEF tables, FiguresInv, Tables
  <2> QED
    BY <2>1, <2>2, PokerNextInv DEF FiguresInv
<1> QED
  BY <1>1, <1>2, <1>3, <1>4, <1>5 DEF Next

\* The tables hold what the figures expect of them, and poker's are consistent:
\* every event is of a tournament that exists, and no id is used twice.
THEOREM TablesHold == Spec => []FiguresInv
<1>1. Init => FiguresInv
  BY FiguresInitInv
<1>2. FiguresInv /\ [Next]_vars => FiguresInv'
  BY FiguresNextInv
<1> QED
  BY <1>1, <1>2, PTL DEF Spec

\* The results of all tournaments, the results of each from the service and from
\* SQL, and the bankroll that is built on them agree, for any tournaments, events
\* and amounts (PokerService, PokerRepository).
THEOREM BankrollTold == Spec => []BankrollAgrees
<1>1. FiguresInv => BankrollAgrees
  BY ResultsAddUp, SuggestionsHold DEF FiguresInv, BankrollAgrees
<1> QED
  BY <1>1, TablesHold, PTL

-------------------------------------------------------------------------------
(* Totals of rows and of contributions.                                       *)

Priced(some) == IsFiniteSet(some) /\ \A row \in some : row.amount \in Int

LEMMA PricedPart == ASSUME NEW S, Priced(S), NEW T \in SUBSET S PROVE Priced(T)
  BY FS_Subset DEF Priced

LEMMA TotalOn ==
  ASSUME NEW S, IsFiniteSet(S), NEW T \in SUBSET S
  PROVE  Total(T) = SumFunctionOnSet([row \in S |-> row.amount], T)
<1> DEFINE f == [row \in T |-> row.amount]
           g == [row \in S |-> row.amount]
<1>1. Total(T) = SumFunctionOnSet(f, T)
  BY DEF Total, SumFunction
<1>2. IsFiniteSet(T) /\ \A x \in T : f[x] = g[x]
  BY FS_Subset
<1> HIDE DEF f, g
<1>3. SumFunctionOnSet(f, T) = SumFunctionOnSet(g, T)
  BY <1>2, SumOfSame
<1> QED
  BY <1>1, <1>3 DEF g

LEMMA TotalInt == ASSUME NEW S, Priced(S) PROVE Total(S) \in Int
<1> DEFINE f == [row \in S |-> row.amount]
<1>1. Total(S) = SumFunctionOnSet(f, S)
  BY DEF Total, SumFunction
<1>2. \A x \in S : f[x] \in Int
  BY DEF Priced
<1> HIDE DEF f
<1> QED
  BY <1>1, <1>2, SumOfInt DEF Priced

LEMMA TotalNat ==
  ASSUME NEW S, IsFiniteSet(S), \A row \in S : row.amount \in Nat
  PROVE  Total(S) \in Nat
<1> DEFINE f == [row \in S |-> row.amount]
<1>1. Total(S) = SumFunctionOnSet(f, S)
  BY DEF Total, SumFunction
<1>2. \A x \in S : f[x] \in Nat
  OBVIOUS
<1> HIDE DEF f
<1> QED
  BY <1>1, <1>2, SumOfNat

LEMMA TotalOfNone == Total({}) = 0
  BY SumOfNone DEF Total, SumFunction

LEMMA TotalOfSplit ==
  ASSUME NEW S, Priced(S), NEW T \in SUBSET S
  PROVE  Total(S) = Total(T) + Total(S \ T)
<1> DEFINE f == [row \in S |-> row.amount]
<1>1. \A x \in S : f[x] \in Int
  BY DEF Priced
<1>2. /\ Total(S) = SumFunctionOnSet(f, S)
      /\ Total(T) = SumFunctionOnSet(f, T)
      /\ Total(S \ T) = SumFunctionOnSet(f, S \ T)
  <2>1. S \in SUBSET S /\ S \ T \in SUBSET S
    OBVIOUS
  <2> QED
    BY <2>1, TotalOn DEF Priced
<1> HIDE DEF f
<1>3. SumFunctionOnSet(f, S) = SumFunctionOnSet(f, T) + SumFunctionOnSet(f, S \ T)
  BY <1>1, SumOfSplit DEF Priced
<1> QED
  BY <1>2, <1>3

\* The rows of a set are those of two parts of it.
LEMMA TotalOfTwo ==
  ASSUME NEW S, Priced(S), NEW T, NEW U, S = T \union U, T \intersect U = {}
  PROVE  Total(S) = Total(T) + Total(U)
<1>1. T \in SUBSET S /\ U = S \ T
  OBVIOUS
<1> QED
  BY <1>1, TotalOfSplit

\* The rows of a set by the source they name.
Naming(some, source) == {row \in some : row.source = source}

LEMMA TotalBySource ==
  ASSUME NEW S, Priced(S), \A row \in S : row.source \in {None, s1, s2}
  PROVE  Total(S) = Total(Naming(S, None)) + Total(Naming(S, s1)) + Total(Naming(S, s2))
<1> DEFINE some == Naming(S, s1) \union Naming(S, s2)
<1>1. S = Naming(S, None) \union some /\ Naming(S, None) \intersect some = {}
  BY FiguresAssumption DEF Naming
<1>2. Naming(S, s1) \intersect Naming(S, s2) = {} /\ some \in SUBSET S
  BY FiguresAssumption DEF Naming
<1>3. Priced(some)
  BY <1>2, PricedPart
<1>4. Total(some) = Total(Naming(S, s1)) + Total(Naming(S, s2))
  BY <1>2, <1>3, TotalOfTwo
<1> HIDE DEF some
<1>5. Total(S) = Total(Naming(S, None)) + Total(some)
  BY <1>1, TotalOfTwo
<1>6. Total(Naming(S, None)) \in Int /\ Total(Naming(S, s1)) \in Int /\ Total(Naming(S, s2)) \in Int
  <2>1. Naming(S, None) \in SUBSET S /\ Naming(S, s1) \in SUBSET S /\ Naming(S, s2) \in SUBSET S
    BY DEF Naming
  <2> QED
    BY <2>1, PricedPart, TotalInt
<1> QED
  BY <1>4, <1>5, <1>6

-------------------------------------------------------------------------------
(* The home summary: its parts, the ledger and what is carried over.          *)

\* The parts of a period are parts of the tables.
LEMMA PartsOfPeriod ==
  ASSUME NEW table, Rows(table), NEW made, Contributed(made), NEW source, NEW period
  PROVE  /\ Priced(table) /\ Priced(made)
         /\ Priced(AdditionalIncome(table, source, period))
         /\ Priced(Committed(table, source, period))
         /\ Priced(Unplanned(table, source, period))
         /\ Priced(CashContributions(made, source, period))
<1>1. Priced(table) /\ Priced(made)
  BY DEF Priced, Rows, TypedRow, Contributed, TypedContribution
<1>2. AdditionalIncome(table, source, period) \in SUBSET table
  BY DEF AdditionalIncome, Between, Incomes
<1>3. Committed(table, source, period) \in SUBSET table
  BY DEF Committed, Expenses
<1>4. Unplanned(table, source, period) \in SUBSET table
  BY DEF Unplanned, Between, Discretionary, Expenses
<1>5. CashContributions(made, source, period) \in SUBSET made
  BY DEF CashContributions, Between
<1> QED
  BY <1>1, <1>2, <1>3, <1>4, <1>5, PricedPart

LEMMA GoalsById == \A goal, other \in Goals : goal.id = other.id => goal = other
<1> DEFINE open == [id |-> "open", active |-> TRUE, completed |-> FALSE, debt |-> TRUE, minimumPayment |-> 1, monthlyTarget |-> 0]
           done == [id |-> "done", active |-> TRUE, completed |-> TRUE, debt |-> FALSE, minimumPayment |-> 0, monthlyTarget |-> 2]
           off == [id |-> "off", active |-> FALSE, completed |-> FALSE, debt |-> FALSE, minimumPayment |-> 0, monthlyTarget |-> 2]
<1>1. Goals = {open, done, off}
  BY DEF Goals
<1>2. open.id = "open" /\ done.id = "done" /\ off.id = "off"
  OBVIOUS
<1> HIDE DEF open, done, off
<1> QED
  BY <1>1, <1>2

\* What was put into goals is what was put into those that are shown, and into
\* those no longer active: a goal is found by its id.
LEMMA CashByGoals ==
  ASSUME NEW made, Contributed(made), NEW source, NEW period, NEW frequency
  PROVE  Total(CashContributions(made, None, period))
           = calculateGoals(Goals, made, period, frequency).paidSoFar
             + Total({c \in CashContributions(made, None, period) :
                        \E goal \in Goals : goal.id = c.goal /\ ~goal.active})
<1> DEFINE cash == CashContributions(made, None, period)
           shown == {goal \in Goals : goal.active /\ (~goal.completed \/ \E c \in cash : c.goal = goal.id)}
           counted == {c \in cash : \E goal \in shown : goal.id = c.goal}
           others == {c \in cash : \E goal \in Goals : goal.id = c.goal /\ ~goal.active}
<1>1. calculateGoals(Goals, made, period, frequency).paidSoFar = Total(counted)
  BY DEF calculateGoals
<1>2. \A c \in cash : \E goal \in Goals : goal.id = c.goal
  BY DEF CashContributions, Between, Contributed, TypedContribution
<1>3. Priced(cash)
  BY PricedPart DEF CashContributions, Between, Priced, Contributed, TypedContribution
<1> HIDE DEF cash
<1>4. \A c \in cash : c \in counted \/ c \in others
  <2>1. ASSUME NEW c \in cash, c \notin others PROVE c \in counted
    <3>1. PICK goal \in Goals : goal.id = c.goal
      BY <1>2
    <3>2. goal.active
      BY <2>1, <3>1 DEF Goals
    <3>3. goal \in shown
      BY <3>1, <3>2
    <3> QED
      BY <3>1, <3>3
  <2> QED
    BY <2>1
<1>5. \A c \in cash : ~(c \in counted /\ c \in others)
  BY GoalsById
<1>6. cash = counted \union others /\ counted \intersect others = {}
  BY <1>4, <1>5
<1> HIDE DEF counted, others
<1>7. Total(cash) = Total(counted) + Total(others)
  BY <1>3, <1>6, TotalOfTwo
<1> QED
  BY <1>1, <1>7 DEF cash, others, shown

\* What the summary calls left to spend, from the parts of the period.
LEMMA LeftToSpend ==
  ASSUME FiguresInv
  PROVE  /\ Summary.leftToSpendSafe =
              (user.income + Total(AdditionalIncome(rows, None, Period)) + user.rollover)
                - (Total(Committed(rows, None, Period)) + Total(Unplanned(rows, None, Period))
                   + calculateGoals(Goals, contributions, Period, user.frequency).paidSoFar)
         /\ Summary.incomeLedger = calculateIncomeLedger(rows, contributions, user, Sources, Period)
<1>1. user.nextPayDate # NoDate
  <2>1. user.nextPayDate \in Int
    BY DEF FiguresInv, Tables, Users, NextPay
  <2> QED
    BY <2>1, SpendingAssumption
<1> DEFINE goals == calculateGoals(Goals, contributions, Period, user.frequency)
           income == calculateIncome(rows, user, Period)
           bills == calculateCommitted(rows, Period)
           spent == calculateDiscretionary(rows, Period)
<1>2. Summary = [leftToSpendSafe |-> calculateTotals(income, bills, spent, goals).leftToSpendSafe,
                 incomeLedger |-> calculateIncomeLedger(rows, contributions, user, Sources, Period)]
  BY <1>1 DEF Summary, getSummary, Period
<1>3. income.totalInflow = user.income + Total(AdditionalIncome(rows, None, Period)) + user.rollover
  BY DEF calculateIncome
<1>4. bills.plannedTotal = Total(Committed(rows, None, Period))
  BY DEF calculateCommitted
<1>5. spent = Total(Unplanned(rows, None, Period))
  BY DEF calculateDiscretionary
<1> HIDE DEF goals, income, bills, spent
<1>6. calculateTotals(income, bills, spent, goals).leftToSpendSafe
        = income.totalInflow - (bills.plannedTotal + spent + goals.paidSoFar)
  BY DEF calculateTotals
<1> QED
  BY <1>2, <1>3, <1>4, <1>5, <1>6 DEF goals

\* The numbers the sums are made of.
LEMMA SummaryTyped ==
  ASSUME FiguresInv
  PROVE  /\ user.income \in Int /\ user.rollover \in Int
         /\ Total(AdditionalIncome(rows, None, Period)) \in Int
         /\ Total(Committed(rows, None, Period)) \in Int
         /\ Total(Unplanned(rows, None, Period)) \in Int
         /\ Total(CashContributions(contributions, None, Period)) \in Int
         /\ Total(OfInactiveGoals) \in Int
         /\ calculateGoals(Goals, contributions, Period, user.frequency).paidSoFar \in Int
<1>1. user.income \in Int /\ user.rollover \in Int
  BY DEF FiguresInv, Tables, Users
<1>2. Rows(rows) /\ Contributed(contributions)
  BY DEF FiguresInv, Tables
<1> DEFINE cash == CashContributions(contributions, None, Period)
           paid == calculateGoals(Goals, contributions, Period, user.frequency).paidSoFar
<1>3. /\ Total(AdditionalIncome(rows, None, Period)) \in Int
      /\ Total(Committed(rows, None, Period)) \in Int
      /\ Total(Unplanned(rows, None, Period)) \in Int
      /\ Priced(cash) /\ Total(cash) \in Int
  BY <1>2, PartsOfPeriod, TotalInt
<1> DEFINE counted == {c \in cash : \E goal \in {g \in Goals : g.active /\ (~g.completed \/ \E d \in cash : d.goal = g.id)} :
                                goal.id = c.goal}
<1>4. paid = Total(counted)
  BY DEF calculateGoals
<1>5. Priced(counted) /\ Priced(OfInactiveGoals)
  <2>1. counted \in SUBSET cash /\ OfInactiveGoals \in SUBSET cash
    BY DEF OfInactiveGoals
  <2> HIDE DEF counted, cash
  <2> QED
    BY <1>3, <2>1, PricedPart
<1> HIDE DEF counted
<1>6. paid \in Int /\ Total(OfInactiveGoals) \in Int
  BY <1>4, <1>5, TotalInt
<1> QED
  BY <1>1, <1>3, <1>6

LEMMA RolloverAgrees == ASSUME FiguresInv PROVE RolloverIsWhatWasLeft
<1> DEFINE bills == Committed(rows, None, Period)
           paid == {row \in bills : row.status = "PAID"}
           unpaid == {row \in bills : row.status # "PAID"}
           cash == CashContributions(contributions, None, Period)
<1>1. Rows(rows) /\ Contributed(contributions)
  BY DEF FiguresInv, Tables
<1>2. Priced(bills)
  BY <1>1, PartsOfPeriod
<1>3. bills = paid \union unpaid /\ paid \intersect unpaid = {}
  OBVIOUS
<1>4. Priced(paid) /\ Priced(unpaid)
  <2>1. paid \in SUBSET bills /\ unpaid \in SUBSET bills
    OBVIOUS
  <2> HIDE DEF bills, paid, unpaid
  <2> QED
    BY <1>2, <2>1, PricedPart
<1>5. calculatePreviousPeriodExpenses(rows, contributions, None, Period)
        = Total(paid) + Total(Unplanned(rows, None, Period)) + Total(cash)
  BY DEF calculatePreviousPeriodExpenses
<1>6. Total(cash) = calculateGoals(Goals, contributions, Period, user.frequency).paidSoFar
                      + Total(OfInactiveGoals)
  BY <1>1, CashByGoals DEF OfInactiveGoals
<1> HIDE DEF bills, paid, unpaid, cash
<1>7. Total(bills) = Total(paid) + Total(unpaid) /\ Total(paid) \in Int /\ Total(unpaid) \in Int
  BY <1>2, <1>3, <1>4, TotalOfTwo, TotalInt
<1>8. Summary.leftToSpendSafe =
        (user.income + Total(AdditionalIncome(rows, None, Period)) + user.rollover)
          - (Total(bills) + Total(Unplanned(rows, None, Period))
             + calculateGoals(Goals, contributions, Period, user.frequency).paidSoFar)
  BY LeftToSpend DEF bills
<1>9. user.income + user.rollover + Total(AdditionalIncome(rows, None, Period))
        - calculatePreviousPeriodExpenses(rows, contributions, None, Period)
      = Summary.leftToSpendSafe - Total(OfInactiveGoals) + Total(unpaid)
  BY <1>5, <1>6, <1>7, <1>8, SummaryTyped
<1> QED
  BY <1>9 DEF RolloverIsWhatWasLeft, calculateAdditionalIncome, bills, unpaid

LEMMA SumOfTwo ==
  ASSUME NEW f, NEW a, NEW b, a # b, f[a] \in Int, f[b] \in Int
  PROVE  SumFunctionOnSet(f, {a, b}) = f[a] + f[b]
<1>1. IsFiniteSet({a}) /\ IsFiniteSet({b}) /\ {a} \intersect {b} = {} /\ {a} \union {b} = {a, b}
  BY FS_Singleton
<1>2. \A x \in {a} \union {b} : f[x] \in Int
  OBVIOUS
<1>3. SumFunctionOnSet(f, {a} \union {b}) = SumFunctionOnSet(f, {a}) + SumFunctionOnSet(f, {b})
  BY <1>1, <1>2, SumOfUnion
<1> QED
  BY <1>1, <1>3, SumOfOne

LEMMA FiniteThree == ASSUME NEW a, NEW b, NEW c PROVE IsFiniteSet({a, b, c})
<1>1. IsFiniteSet({a}) /\ IsFiniteSet({b}) /\ IsFiniteSet({c})
  BY FS_Singleton
<1>2. IsFiniteSet({a} \union {b})
  BY <1>1, FS_Union
<1>3. IsFiniteSet(({a} \union {b}) \union {c})
  BY <1>1, <1>2, FS_Union
<1>4. ({a} \union {b}) \union {c} = {a, b, c}
  OBVIOUS
<1> QED
  BY <1>3, <1>4

LEMMA SumOfThree ==
  ASSUME NEW S, NEW a \in S, NEW b \in S, NEW c \in S, \A x \in S : x = a \/ x = b \/ x = c,
         a # b, a # c, b # c, NEW f, f[a] \in Int, f[b] \in Int, f[c] \in Int
  PROVE  SumFunctionOnSet(f, S) = f[a] + f[b] + f[c]
<1>1. {a, b} \intersect {c} = {} /\ {a, b} \union {c} = S
  OBVIOUS
<1>2. IsFiniteSet({a, b}) /\ IsFiniteSet({c})
  <2>1. {a, b} \in SUBSET {a, b, c}
    OBVIOUS
  <2> QED
    BY <2>1, FiniteThree, FS_Singleton, FS_Subset
<1>3. \A x \in {a, b} \union {c} : f[x] \in Int
  OBVIOUS
<1>4. SumFunctionOnSet(f, {a, b} \union {c}) = SumFunctionOnSet(f, {a, b}) + SumFunctionOnSet(f, {c})
  BY <1>1, <1>2, <1>3, SumOfUnion
<1> QED
  BY <1>1, <1>4, SumOfOne, SumOfTwo

\* An entry of the ledger.
LEMMA EntryIs ==
  ASSUME NEW source, NEW carried, NEW e, e = Entry(rows, contributions, source, carried, Period)
  PROVE  /\ e.id = source
         /\ e.received = carried + Total(AdditionalIncome(rows, source, Period))
         /\ e.spent = Total(Committed(rows, source, Period)) + Total(Unplanned(rows, source, Period))
                        + Total(CashContributions(contributions, source, Period))
         /\ e.left = e.received - e.spent
<1> DEFINE breakdown == breakdownFor(rows, contributions, source, Period)
<1>1. breakdown.spent = Total(Committed(rows, source, Period)) + Total(Unplanned(rows, source, Period))
                          + Total(CashContributions(contributions, source, Period))
  BY DEF breakdownFor
<1> HIDE DEF breakdown
<1>2. e = [id |-> source, received |-> carried + Total(AdditionalIncome(rows, source, Period)),
           spent |-> breakdown.spent,
           left |-> (carried + Total(AdditionalIncome(rows, source, Period))) - breakdown.spent]
  BY DEF Entry, breakdown
<1> QED
  BY <1>1, <1>2

\* What the pools of the ledger start with.
Pools == {None, s1, s2}
Carried == [k \in Pools |-> IF k = None THEN user.income + user.rollover ELSE 1]
EntryOf(k) == Entry(rows, contributions, k, Carried[k], Period)

LEMMA SourcesAre ==
  /\ \A k \in {s1, s2} : \E source \in Sources : source.id = k
  /\ \A source \in Sources : source.id \in {s1, s2} /\ source.rollover = 1 /\ Carried[source.id] = source.rollover
  /\ \A source, other \in Sources : source.id = other.id => source = other
  /\ SumFunction([source \in Sources |-> source.rollover]) = 2
<1> DEFINE a == [id |-> s1, active |-> TRUE, rollover |-> 1, amount |-> 3, frequency |-> "WEEKLY", nextPaymentDate |-> 513]
           b == [id |-> s2, active |-> FALSE, rollover |-> 1, amount |-> 3, frequency |-> "WEEKLY", nextPaymentDate |-> 513]
           f == [source \in Sources |-> source.rollover]
<1>1. Sources = {a, b}
  BY DEF Sources
<1>2. a.id = s1 /\ b.id = s2 /\ a.rollover = 1 /\ b.rollover = 1
  OBVIOUS
<1>3. SumFunction(f) = SumFunctionOnSet(f, Sources)
  BY DEF SumFunction
<1> HIDE DEF a, b
<1>4. f[a] = 1 /\ f[b] = 1 /\ a # b
  BY <1>1, <1>2, FiguresAssumption
<1>5. \A source \in Sources : Carried[source.id] = 1
  BY <1>1, <1>2, FiguresAssumption DEF Carried, Pools
<1> HIDE DEF f
<1>6. SumFunction(f) = 2
  <2>1. f[a] \in Int /\ f[b] \in Int
    BY <1>4
  <2>2. SumFunctionOnSet(f, {a, b}) = f[a] + f[b]
    BY <1>4, <2>1, SumOfTwo
  <2> QED
    BY <1>1, <1>3, <1>4, <2>2
<1> QED
  BY <1>1, <1>2, <1>5, <1>6, FiguresAssumption DEF f

\* The ledger has the entries of the pools, but for some that hold nothing.
LEMMA LedgerIs ==
  ASSUME FiguresInv, NEW ledger, ledger = calculateIncomeLedger(rows, contributions, user, Sources, Period)
  PROVE  /\ \A e \in ledger : e.id \in Pools /\ e = EntryOf(e.id)
         /\ \A k \in Pools : EntryOf(k) \in ledger \/ EntryOf(k).left = 0
<1>1. ledger = {SalaryEntry(rows, contributions, user, Period)}
                 \union SourceEntries(rows, contributions, Sources, Period)
  BY DEF calculateIncomeLedger, Sources
<1>2. SalaryEntry(rows, contributions, user, Period) = EntryOf(None)
  BY DEF SalaryEntry, EntryOf, Carried, Pools
<1>3. ASSUME NEW source \in Sources
      PROVE  Entry(rows, contributions, source.id, source.rollover, Period) = EntryOf(source.id)
  BY <1>3, SourcesAre DEF EntryOf
<1>4. ASSUME NEW e \in SourceEntries(rows, contributions, Sources, Period)
      PROVE  \E source \in Sources : e = EntryOf(source.id)
  BY <1>3, <1>4 DEF SourceEntries
<1>5. ASSUME NEW source \in Sources
      PROVE  \/ EntryOf(source.id) \in SourceEntries(rows, contributions, Sources, Period)
             \/ EntryOf(source.id).received = 0 /\ EntryOf(source.id).spent = 0
  BY <1>3, <1>5 DEF SourceEntries
<1>6. \A k \in Pools : EntryOf(k).id = k /\ EntryOf(k).left = EntryOf(k).received - EntryOf(k).spent
  BY EntryIs DEF EntryOf
<1>7. ASSUME NEW e \in ledger PROVE e.id \in Pools /\ e = EntryOf(e.id)
  <2>1. CASE e = EntryOf(None)
    <3>1. None \in Pools
      BY DEF Pools
    <3> QED
      BY <1>6, <2>1, <3>1
  <2>2. CASE e \in SourceEntries(rows, contributions, Sources, Period)
    <3>1. PICK source \in Sources : e = EntryOf(source.id)
      BY <1>4, <2>2
    <3>2. source.id \in Pools
      BY SourcesAre DEF Pools
    <3> QED
      BY <1>6, <3>1, <3>2
  <2> QED
    BY <1>1, <1>2, <1>7, <2>1, <2>2
<1>8. ASSUME NEW k \in Pools PROVE EntryOf(k) \in ledger \/ EntryOf(k).left = 0
  <2>1. CASE k = None
    BY <1>1, <1>2, <2>1
  <2>2. CASE k # None
    <3>1. PICK source \in Sources : source.id = k
      BY <2>2, SourcesAre DEF Pools
    <3>2. CASE EntryOf(k) \in SourceEntries(rows, contributions, Sources, Period)
      BY <1>1, <3>2
    <3>3. CASE EntryOf(k).received = 0 /\ EntryOf(k).spent = 0
      BY <1>6, <3>3
    <3> QED
      BY <1>5, <3>1, <3>2, <3>3
  <2> QED
    BY <2>1, <2>2
<1> QED
  BY <1>7, <1>8

\* The ledger adds up to what the pools hold together.
LEMMA LedgerSum ==
  ASSUME FiguresInv, NEW ledger, ledger = calculateIncomeLedger(rows, contributions, user, Sources, Period),
         \A k \in Pools : EntryOf(k).left \in Int
  PROVE  SumFunction([entry \in ledger |-> entry.left])
           = EntryOf(None).left + EntryOf(s1).left + EntryOf(s2).left
<1> DEFINE f == [entry \in ledger |-> entry.left]
           part == [k \in Pools |-> {entry \in ledger : entry.id = k}]
           sums == [k \in Pools |-> EntryOf(k).left]
<1>1. /\ \A e \in ledger : e.id \in Pools /\ e = EntryOf(e.id)
      /\ \A k \in Pools : EntryOf(k) \in ledger \/ EntryOf(k).left = 0
  BY LedgerIs
<1>2. IsFiniteSet(Pools)
  BY FiniteThree DEF Pools
<1>3. IsFiniteSet(ledger)
  <2> DEFINE all == {EntryOf(None), EntryOf(s1), EntryOf(s2)}
  <2>1. IsFiniteSet(all)
    BY FiniteThree
  <2>2. ledger \in SUBSET all
    BY <1>1 DEF Pools
  <2> HIDE DEF all
  <2> QED
    BY <2>1, <2>2, FS_Subset
<1>4. \A e \in ledger : f[e] \in Int
  BY <1>1
<1>5. ASSUME NEW k \in Pools PROVE sums[k] = SumFunctionOnSet(f, part[k])
  <2>1. CASE EntryOf(k) \in ledger
    <3>1. part[k] = {EntryOf(k)}
      <4>1. EntryOf(k).id = k
        BY EntryIs DEF EntryOf
      <4> QED
        BY <1>1, <2>1, <4>1
    <3>2. f[EntryOf(k)] = sums[k] /\ f[EntryOf(k)] \in Int
      BY <2>1
    <3> HIDE DEF f, part, sums
    <3> QED
      BY <3>1, <3>2, SumOfOne
  <2>2. CASE EntryOf(k) \notin ledger
    <3>1. part[k] = {} /\ sums[k] = 0
      BY <1>1, <2>2
    <3> HIDE DEF f, part, sums
    <3> QED
      BY <3>1, SumOfNone
  <2> QED
    BY <2>1, <2>2
<1>6. /\ \A k \in Pools : part[k] \in SUBSET ledger
      /\ \A e \in ledger : \E k \in Pools : e \in part[k]
      /\ \A k, l \in Pools : k # l => part[k] \intersect part[l] = {}
  BY <1>1
<1>7. sums[None] \in Int /\ sums[s1] \in Int /\ sums[s2] \in Int
  BY DEF Pools
<1>8. SumFunction(f) = SumFunctionOnSet(f, ledger)
  BY DEF SumFunction
<1>9. sums[None] = EntryOf(None).left /\ sums[s1] = EntryOf(s1).left /\ sums[s2] = EntryOf(s2).left
  BY DEF Pools
<1> HIDE DEF f, part, sums
<1>10. SumFunctionOnSet(sums, Pools) = SumFunctionOnSet(f, ledger)
  BY <1>2, <1>3, <1>4, <1>5, <1>6, SumOfParts
<1>11. SumFunctionOnSet(sums, Pools) = sums[None] + sums[s1] + sums[s2]
  <2>1. None # s1 /\ None # s2 /\ s1 # s2
    BY FiguresAssumption
  <2>2. None \in Pools /\ s1 \in Pools /\ s2 \in Pools /\ \A k \in Pools : k = None \/ k = s1 \/ k = s2
    BY DEF Pools
  <2> QED
    BY <1>7, <2>1, <2>2, SumOfThree
<1> QED
  BY <1>8, <1>9, <1>10, <1>11 DEF f

\* The parts of the period by source make up what came in and what went out.
LEMMA PeriodBySource ==
  ASSUME FiguresInv
  PROVE  /\ Total({row \in Incomes(rows) : row.date \in Period.start .. Period.end /\ ~row.primary})
              = Total(AdditionalIncome(rows, None, Period)) + Total(AdditionalIncome(rows, s1, Period))
                + Total(AdditionalIncome(rows, s2, Period))
         /\ Total({c \in contributions : c.date \in Period.start .. Period.end /\ c.type \in CashTypes})
              = Total(CashContributions(contributions, None, Period))
                + Total(CashContributions(contributions, s1, Period))
                + Total(CashContributions(contributions, s2, Period))
<1> DEFINE income == {row \in Incomes(rows) : row.date \in Period.start .. Period.end /\ ~row.primary}
           cash == {c \in contributions : c.date \in Period.start .. Period.end /\ c.type \in CashTypes}
<1>1. Rows(rows) /\ Contributed(contributions)
  BY DEF FiguresInv, Tables
<1>2. Priced(rows) /\ Priced(contributions)
  BY <1>1, PartsOfPeriod
<1>3. income \in SUBSET rows /\ cash \in SUBSET contributions
  BY DEF Incomes
<1>4. /\ \A row \in income : row.source \in {None, s1, s2}
      /\ \A c \in cash : c.source \in {None, s1, s2}
  BY <1>1 DEF Incomes, Rows, TypedRow, Contributed, TypedContribution
<1>5. ASSUME NEW k PROVE Naming(income, k) = AdditionalIncome(rows, k, Period)
  BY <1>1 DEF Naming, AdditionalIncome, Between, Has, Incomes, Rows, TypedRow
<1>6. ASSUME NEW k PROVE Naming(cash, k) = CashContributions(contributions, k, Period)
  <2>1. \A c \in contributions : c.date \in Int
    BY <1>1 DEF Contributed, TypedContribution, At
  <2> QED
    BY <2>1 DEF Naming, CashContributions, Between, Has
<1> HIDE DEF income, cash
<1>7. Priced(income) /\ Priced(cash)
  BY <1>2, <1>3, PricedPart
<1>8. Total(income) = Total(Naming(income, None)) + Total(Naming(income, s1)) + Total(Naming(income, s2))
  BY <1>4, <1>7, TotalBySource
<1>9. Total(cash) = Total(Naming(cash, None)) + Total(Naming(cash, s1)) + Total(Naming(cash, s2))
  BY <1>4, <1>7, TotalBySource
<1> QED
  BY <1>5, <1>6, <1>8, <1>9 DEF income, cash

\* So do the bills and the purchases, which are never the same row.
GoneOut ==
    UNION {Committed(rows, source, Period) \union Unplanned(rows, source, Period) :
              source \in {row.source : row \in rows}}

LEMMA GoneOutBySource ==
  ASSUME FiguresInv
  PROVE  Total(GoneOut) =
              Total(Committed(rows, None, Period)) + Total(Committed(rows, s1, Period))
              + Total(Committed(rows, s2, Period))
              + Total(Unplanned(rows, None, Period)) + Total(Unplanned(rows, s1, Period))
              + Total(Unplanned(rows, s2, Period))
<1>1. Rows(rows) /\ Contributed(contributions)
  BY DEF FiguresInv, Tables
<1>2. \A row \in GoneOut : row \in rows
  BY DEF GoneOut, Committed, Unplanned, Between, Discretionary, Expenses
<1>3. Priced(GoneOut) /\ \A row \in GoneOut : row.source \in {None, s1, s2}
  BY <1>1, <1>2, PartsOfPeriod, PricedPart DEF Rows, TypedRow
<1>4. ASSUME NEW k
      PROVE  /\ Naming(GoneOut, k) = Committed(rows, k, Period) \union Unplanned(rows, k, Period)
             /\ Committed(rows, k, Period) \intersect Unplanned(rows, k, Period) = {}
  <2>1. \A row \in Committed(rows, k, Period) : row \in rows /\ row.source = k /\ (row.recurring \/ row.due # NoDate)
    BY DEF Committed, Expenses, Has
  <2>2. \A row \in Unplanned(rows, k, Period) : row \in rows /\ row.source = k /\ ~row.recurring /\ row.due = NoDate
    BY DEF Unplanned, Between, Discretionary, Expenses, Has
  <2>3. ASSUME NEW row \in GoneOut
        PROVE  row \in Committed(rows, row.source, Period) \union Unplanned(rows, row.source, Period)
    <3>1. PICK source \in {r.source : r \in rows} :
              row \in Committed(rows, source, Period) \union Unplanned(rows, source, Period)
      BY <2>3 DEF GoneOut
    <3>2. row.source = source
      BY <3>1 DEF Committed, Unplanned, Between, Discretionary, Expenses, Has
    <3> QED
      BY <3>1, <3>2
  <2>4. ASSUME NEW row \in Committed(rows, k, Period) \union Unplanned(rows, k, Period) PROVE row \in GoneOut
    BY <2>1, <2>2, <2>4 DEF GoneOut
  <2> QED
    BY <2>1, <2>2, <2>3, <2>4 DEF Naming
<1>5. ASSUME NEW k
      PROVE  Total(Naming(GoneOut, k)) = Total(Committed(rows, k, Period)) + Total(Unplanned(rows, k, Period))
  <2>1. Priced(Naming(GoneOut, k))
    BY <1>3, PricedPart DEF Naming
  <2> QED
    BY <1>4, <2>1, TotalOfTwo
<1>6. ASSUME NEW k PROVE Total(Committed(rows, k, Period)) \in Int /\ Total(Unplanned(rows, k, Period)) \in Int
  BY <1>1, PartsOfPeriod, TotalInt
<1>7. Total(GoneOut) = Total(Naming(GoneOut, None)) + Total(Naming(GoneOut, s1)) + Total(Naming(GoneOut, s2))
  BY <1>3, TotalBySource
<1> QED
  BY <1>5, <1>6, <1>7

LEMMA LedgerAgrees == ASSUME FiguresInv PROVE LedgerLosesNothing
<1> DEFINE ai(k) == Total(AdditionalIncome(rows, k, Period))
           co(k) == Total(Committed(rows, k, Period))
           un(k) == Total(Unplanned(rows, k, Period))
           ca(k) == Total(CashContributions(contributions, k, Period))
           goals == calculateGoals(Goals, contributions, Period, user.frequency).paidSoFar
<1>1. Rows(rows) /\ Contributed(contributions)
  BY DEF FiguresInv, Tables
<1>2. ASSUME NEW k PROVE ai(k) \in Int /\ co(k) \in Int /\ un(k) \in Int /\ ca(k) \in Int
  BY <1>1, PartsOfPeriod, TotalInt
<1>3. /\ user.income \in Int /\ user.rollover \in Int /\ goals \in Int /\ Total(OfInactiveGoals) \in Int
  BY SummaryTyped
<1>4. ca(None) = goals + Total(OfInactiveGoals)
  BY <1>1, CashByGoals DEF OfInactiveGoals
<1>5. /\ Summary.leftToSpendSafe = (user.income + ai(None) + user.rollover) - (co(None) + un(None) + goals)
      /\ Summary.incomeLedger = calculateIncomeLedger(rows, contributions, user, Sources, Period)
  BY LeftToSpend
<1>6. ASSUME NEW k PROVE EntryOf(k).left = (Carried[k] + ai(k)) - (co(k) + un(k) + ca(k))
  BY EntryIs DEF EntryOf
<1>7. SalaryEntry(rows, contributions, user, Period) = EntryOf(None)
  BY DEF SalaryEntry, EntryOf, Carried, Pools
<1>8. Carried[None] = user.income + user.rollover /\ Carried[s1] = 1 /\ Carried[s2] = 1
  BY FiguresAssumption DEF Carried, Pools
<1>9. /\ Total({row \in Incomes(rows) : row.date \in Period.start .. Period.end /\ ~row.primary})
           = ai(None) + ai(s1) + ai(s2)
      /\ Total({c \in contributions : c.date \in Period.start .. Period.end /\ c.type \in CashTypes})
           = ca(None) + ca(s1) + ca(s2)
  BY PeriodBySource
<1>10. Total(GoneOut) = co(None) + co(s1) + co(s2) + un(None) + un(s1) + un(s2)
  BY GoneOutBySource
<1>11. SumFunction([source \in Sources |-> source.rollover]) = 2
  BY SourcesAre
<1> HIDE DEF ai, co, un, ca, goals
<1>12. EntryOf(None).left \in Int /\ EntryOf(s1).left \in Int /\ EntryOf(s2).left \in Int
  BY <1>2, <1>3, <1>6, <1>8
<1>13. SumFunction([entry \in Summary.incomeLedger |-> entry.left])
         = EntryOf(None).left + EntryOf(s1).left + EntryOf(s2).left
  <2>1. \A k \in Pools : EntryOf(k).left \in Int
    BY <1>12 DEF Pools
  <2> QED
    BY <1>5, <2>1, LedgerSum
<1>14. SumFunction([entry \in Summary.incomeLedger |-> entry.left])
         = user.income + user.rollover + 2 + (ai(None) + ai(s1) + ai(s2))
           - (co(None) + co(s1) + co(s2) + un(None) + un(s1) + un(s2)) - (ca(None) + ca(s1) + ca(s2))
  BY <1>2, <1>3, <1>6, <1>8, <1>13
<1> QED
  BY <1>9, <1>10, <1>11, <1>14 DEF LedgerLosesNothing, GoneOut

\* What the period would carry over is what the card shows as left to spend, but
\* for the unpaid bills and the goals no longer active, whatever rows, bills and
\* contributions there are (calculatePreviousPeriodExpenses, calculateTotals).
THEOREM RolloverTold == Spec => []RolloverIsWhatWasLeft
<1>1. FiguresInv => RolloverIsWhatWasLeft
  BY RolloverAgrees
<1> QED
  BY <1>1, TablesHold, PTL

\* No row of the period is in two entries of the ledger and none is in no entry
\* (calculateIncomeLedger).
THEOREM LedgerTold == Spec => []LedgerLosesNothing
<1>1. FiguresInv => LedgerLosesNothing
  BY LedgerAgrees
<1> QED
  BY <1>1, TablesHold, PTL

-------------------------------------------------------------------------------
(* The calendar: the months follow one another.                               *)

LEMMA SmallestNumber == ASSUME NEW S \in SUBSET Nat, S # {} PROVE \E n \in S : \A m \in S : n <= m
<1> DEFINE Less == {pair \in Nat \X Nat : pair[1] < pair[2]}
<1>1. OpToRel(<, Nat) = Less
  BY Zenon DEF OpToRel
<1>2. IsWellFoundedOn(Less, Nat)
  BY <1>1, NatLessThanWellFounded
<1>3. PICK n \in S : \A m \in S : <<m, n>> \notin Less
  BY <1>2, WFMin
<1>4. ASSUME NEW m \in S, ~(n <= m) PROVE FALSE
  <2>1. m \in Nat /\ n \in Nat /\ m < n
    BY <1>4
  <2>2. <<m, n>> \in Less
    BY <2>1
  <2> QED
    BY <1>3, <2>2
<1> QED
  BY <1>4

LEMMA DaysInType == ASSUME NEW m \in Nat PROVE DaysIn(m) \in 28 .. 31
<1>1. m % 12 \in 0 .. 11
  OBVIOUS
<1>2. Lengths[(m % 12) + 1] \in 28 .. 31
  <2> DEFINE k == (m % 12) + 1
  <2>1. k \in 1 .. 12
    BY <1>1
  <2> HIDE DEF k
  <2>2. \/ k = 1 \/ k = 2 \/ k = 3 \/ k = 4 \/ k = 5 \/ k = 6
        \/ k = 7 \/ k = 8 \/ k = 9 \/ k = 10 \/ k = 11 \/ k = 12
    BY <2>1
  <2>3. Lengths[k] \in 28 .. 31
    BY <2>2 DEF Lengths
  <2> QED
    BY <2>3 DEF k
<1> QED
  BY <1>2 DEF DaysIn

\* The recursion has a solution, the sums of the lengths of the months before.
LEMMA FirstDayUnfolds ==
  FirstDay = [m \in 0 .. Months |-> IF m = 0 THEN 0 ELSE FirstDay[m - 1] + DaysIn(m - 1)]
<1> DEFINE Solves(f) == f = [m \in 0 .. Months |-> IF m = 0 THEN 0 ELSE f[m - 1] + DaysIn(m - 1)]
           lengths == [m \in Nat |-> DaysIn(m)]
           g == [m \in 0 .. Months |-> SumFunctionOnSet(lengths, 0 .. m - 1)]
<1>1. FirstDay = CHOOSE f : Solves(f)
  BY DEF FirstDay
<1>2. ASSUME NEW m \in 0 .. Months
      PROVE  g[m] = IF m = 0 THEN 0 ELSE g[m - 1] + DaysIn(m - 1)
  <2>1. m \in Nat
    BY PayCalendarAssumption
  <2>2. CASE m = 0
    <3>1. 0 .. m - 1 = {}
      BY <2>2
    <3> QED
      BY <2>2, <3>1, SumOfNone
  <2>3. CASE m # 0
    <3>1. m - 1 \in 0 .. m - 1 /\ (0 .. m - 1) \ {m - 1} = 0 .. (m - 1) - 1 /\ m - 1 \in 0 .. Months
      BY <2>1, <2>3, PayCalendarAssumption
    <3>2. IsFiniteSet(0 .. m - 1)
      BY <2>1, FS_Interval
    <3>3. \A k \in 0 .. m - 1 : lengths[k] \in Int
      BY DaysInType
    <3>4. lengths[m - 1] = DaysIn(m - 1) /\ DaysIn(m - 1) \in Int
      BY <2>1, <3>1, DaysInType
    <3>5. SumFunctionOnSet(lengths, 0 .. m - 1)
            = lengths[m - 1] + SumFunctionOnSet(lengths, (0 .. m - 1) \ {m - 1})
      <4> HIDE DEF lengths
      <4> QED
        BY <3>1, <3>2, <3>3, SumOfAny
    <3>6. SumFunctionOnSet(lengths, 0 .. (m - 1) - 1) \in Int
      <4>1. IsFiniteSet(0 .. (m - 1) - 1) /\ \A k \in 0 .. (m - 1) - 1 : lengths[k] \in Int
        <5>1. m - 1 \in Int /\ (m - 1) - 1 \in Int /\ \A k \in 0 .. (m - 1) - 1 : k \in Nat
          BY <2>1
        <5>2. \A k \in Nat : lengths[k] \in Int
          BY DaysInType
        <5> QED
          BY <5>1, <5>2, FS_Interval
      <4> HIDE DEF lengths
      <4> QED
        BY <4>1, SumOfInt
    <3>7. g[m] = SumFunctionOnSet(lengths, 0 .. m - 1) /\ g[m - 1] = SumFunctionOnSet(lengths, 0 .. (m - 1) - 1)
      BY <3>1
    <3> HIDE DEF g, lengths
    <3>8. g[m] = lengths[m - 1] + g[m - 1]
      BY <3>1, <3>5, <3>7
    <3>9. g[m - 1] \in Int
      BY <3>6, <3>7
    <3>10. g[m] = g[m - 1] + DaysIn(m - 1)
      BY <3>4, <3>8, <3>9
    <3> QED
      BY <2>3, <3>10
  <2> QED
    BY <2>2, <2>3
<1>3. Solves(g)
  <2>1. g = [m \in 0 .. Months |-> g[m]]
    OBVIOUS
  <2> HIDE DEF g
  <2> QED
    BY <1>2, <2>1
<1> HIDE DEF Solves
<1>4. Solves(FirstDay)
  BY <1>1, <1>3
<1> QED
  BY <1>4 DEF Solves

LEMMA FirstDayNext ==
  ASSUME NEW m \in 1 .. Months PROVE FirstDay[m] = FirstDay[m - 1] + DaysIn(m - 1)
<1>1. m \in 0 .. Months /\ m # 0
  BY PayCalendarAssumption
<1> QED
  BY <1>1, FirstDayUnfolds

LEMMA FirstDayZero == FirstDay[0] = 0
<1>1. 0 \in 0 .. Months
  BY PayCalendarAssumption
<1> QED
  BY <1>1, FirstDayUnfolds

LEMMA FirstDayType == ASSUME NEW m \in 0 .. Months PROVE FirstDay[m] \in Nat
<1> DEFINE Wrong == {k \in 0 .. Months : FirstDay[k] \notin Nat}
<1>1. ASSUME Wrong # {} PROVE FALSE
  <2>1. PICK k \in Wrong : \A n \in Wrong : k <= n
    <3>1. Wrong \in SUBSET Nat
      BY PayCalendarAssumption
    <3> HIDE DEF Wrong
    <3> QED
      BY <1>1, <3>1, SmallestNumber
  <2>2. k # 0
    BY <2>1, FirstDayZero
  <2>3. k \in 1 .. Months /\ k - 1 \in 0 .. Months /\ k - 1 \in Nat
    BY <2>1, <2>2, PayCalendarAssumption
  <2>4. FirstDay[k - 1] \in Nat
    BY <2>1, <2>3
  <2>5. FirstDay[k] = FirstDay[k - 1] + DaysIn(k - 1)
    BY <2>3, FirstDayNext
  <2>6. DaysIn(k - 1) \in Nat
    BY <2>3, DaysInType
  <2> QED
    BY <2>1, <2>4, <2>5, <2>6
<1> QED
  BY <1>1

\* A later month starts after all days of an earlier one.
LEMMA MonthsInOrder ==
  ASSUME NEW a \in 0 .. Months, NEW b \in 0 .. Months, a < b
  PROVE  FirstDay[a] + DaysIn(a) <= FirstDay[b]
<1> DEFINE Wrong == {k \in 0 .. Months : a < k /\ ~(FirstDay[a] + DaysIn(a) <= FirstDay[k])}
<1>1. ASSUME Wrong # {} PROVE FALSE
  <2>1. PICK k \in Wrong : \A n \in Wrong : k <= n
    <3>1. Wrong \in SUBSET Nat
      BY PayCalendarAssumption
    <3> HIDE DEF Wrong
    <3> QED
      BY <1>1, <3>1, SmallestNumber
  <2>2. k \in 1 .. Months /\ k - 1 \in 0 .. Months /\ k - 1 \in Nat /\ a \in Nat /\ a < k
    BY <2>1, PayCalendarAssumption
  <2>3. FirstDay[k] = FirstDay[k - 1] + DaysIn(k - 1) /\ DaysIn(k - 1) \in Nat /\ DaysIn(a) \in Nat
    BY <2>2, FirstDayNext, DaysInType
  <2>4. FirstDay[k] \in Nat /\ FirstDay[k - 1] \in Nat /\ FirstDay[a] \in Nat
    BY <2>1, <2>2, FirstDayType
  <2>5. CASE a = k - 1
    BY <2>1, <2>3, <2>4, <2>5
  <2>6. CASE a # k - 1
    <3>1. k - 1 \notin Wrong /\ a < k - 1
      BY <2>1, <2>2, <2>6
    <3>2. FirstDay[a] + DaysIn(a) <= FirstDay[k - 1]
      BY <2>2, <3>1
    <3> QED
      BY <2>1, <2>3, <2>4, <3>2
  <2> QED
    BY <2>5, <2>6
<1> QED
  BY <1>1

\* A day is in the month it is found in, and in no other.
LEMMA MonthIs ==
  ASSUME NEW m \in 0 .. Months, NEW day \in 0 .. LastDay, FirstDay[m] <= day, day < FirstDay[m] + DaysIn(m)
  PROVE  MonthOf[day] = m
<1> DEFINE In(k) == FirstDay[k] <= day /\ day < FirstDay[k] + DaysIn(k)
<1>1. MonthOf[day] = CHOOSE k \in 0 .. Months : In(k)
  BY DEF MonthOf
<1>2. ASSUME NEW k \in 0 .. Months, In(k), k # m PROVE FALSE
  <2>1. k \in Nat /\ m \in Nat
    BY PayCalendarAssumption
  <2>2. FirstDay[k] \in Nat /\ FirstDay[m] \in Nat /\ DaysIn(k) \in Nat /\ DaysIn(m) \in Nat /\ day \in Int
    BY <2>1, FirstDayType, DaysInType
  <2>3. CASE k < m
    <3>1. FirstDay[k] + DaysIn(k) <= FirstDay[m]
      BY <2>3, MonthsInOrder
    <3> QED
      BY <1>2, <2>2, <3>1
  <2>4. CASE m < k
    <3>1. FirstDay[m] + DaysIn(m) <= FirstDay[k]
      BY <2>4, MonthsInOrder
    <3> QED
      BY <1>2, <2>2, <3>1
  <2> QED
    BY <1>2, <2>1, <2>3, <2>4
<1>3. In(m)
  OBVIOUS
<1> HIDE DEF In
<1> QED
  BY <1>1, <1>2, <1>3

-------------------------------------------------------------------------------
(* The lists of the analytics.                                                *)

\* The filters search no text, the ranges are instants and filter nothing else.
LEMMA FiltersAre ==
  /\ \A filter \in Filters : filter.text = None
  /\ \A range \in Ranges :
        /\ range.start \in Int /\ range.end \in Int /\ range.start + 23 <= range.end
        /\ range.category = None /\ range.type = None /\ range.text = None /\ range.primary = FALSE
<1>1. \A n \in Int : At(n) = 24 * n /\ At(n) \in Int
  BY DEF At
<1>2. ASSUME NEW start, NEW end
      PROVE  /\ Dates(start, end).start = start /\ Dates(start, end).end = end
             /\ Dates(start, end).category = None /\ Dates(start, end).type = None
             /\ Dates(start, end).text = None
  BY DEF Dates, AnyFilter
<1>3. ASSUME NEW range \in Ranges
      PROVE  \E start, end \in Int : range = Dates(start, end) /\ start + 23 <= end
  <2>1. \/ range = Dates(At(505), At(511) + 23) \/ range = Dates(At(456), At(511) + 23)
        \/ range = Dates(At(400), At(511) + 23) \/ range = Dates(At(486) - 10, At(511) + 13)
    BY DEF Ranges
  <2> QED
    BY <1>1, <2>1
<1>4. ASSUME NEW filter \in Filters PROVE filter.text = None
  <2>1. CASE filter \in Ranges
    <3>1. PICK start \in Int, end \in Int : filter = Dates(start, end)
      BY <1>3, <2>1
    <3> QED
      BY <1>2, <3>1
  <2>2. CASE filter = AnyFilter \/ filter = Dates(NoDate, At(511)) \/ filter = Dates(At(508), NoDate)
    <3>1. AnyFilter.text = None
      BY DEF AnyFilter
    <3> QED
      BY <1>2, <2>2, <3>1
  <2>3. CASE \/ filter = [Dates(At(470), At(510)) EXCEPT !.type = "EXPENSE"]
             \/ filter = [Dates(At(470), At(510)) EXCEPT !.category = food]
    BY <2>3 DEF AnyFilter, Dates
  <2>4. CASE filter = IncomeRange(At(486), At(511))
    BY <2>4 DEF AnyFilter, Dates, IncomeRange
  <2> QED
    BY <2>1, <2>2, <2>3, <2>4 DEF Filters
<1>5. ASSUME NEW range \in Ranges
      PROVE  /\ range.start \in Int /\ range.end \in Int /\ range.start + 23 <= range.end
             /\ range.category = None /\ range.type = None /\ range.text = None /\ range.primary = FALSE
  <2>1. PICK start \in Int, end \in Int : range = Dates(start, end) /\ start + 23 <= end
    BY <1>3
  <2>2. range.primary = FALSE
    BY <2>1 DEF Dates, AnyFilter
  <2> QED
    BY <1>2, <2>1, <2>2
<1> QED
  BY <1>4, <1>5

\* The conditions of count and of findMany, for any filter but a text.
LEMMA CountIs ==
  ASSUME NEW table, Rows(table), NEW filter, filter.text = None, NEW offset
  PROVE  count(table, filter, offset) = Cardinality(findMany(table, filter, offset))
<1> DEFINE period == resolvePeriodBoundaries(filter, offset)
           Counts(row) ==
               /\ \/ row.status \in {"NONE", "PAID"} /\ InPeriod(row.date, period)
                  \/ /\ row.status \in {"UPCOMING", "OVERDUE"}
                     /\ \/ row.due # NoDate /\ InPeriod(row.due, period)
                        \/ row.due = NoDate /\ InPeriod(row.date, period)
               /\ Matches(row, filter)
           Lists(row) ==
               /\ filter.start # NoDate \/ filter.end # NoDate => InPeriod(DateThatCounts(row), period)
               /\ Matches(row, filter)
<1>1. count(table, filter, offset) = Cardinality({row \in table : Counts(row)})
  BY DEF count
<1>2. findMany(table, filter, offset) = {row \in table : Lists(row)}
  BY DEF findMany
<1>3. ASSUME NEW row \in table PROVE Counts(row) <=> Lists(row)
  <2>1. row.status \in {"NONE", "UPCOMING", "OVERDUE", "PAID"}
    BY DEF Rows, TypedRow
  <2>2. filter.start = NoDate /\ filter.end = NoDate => \A instant : InPeriod(instant, period)
    BY DEF InPeriod, resolvePeriodBoundaries
  <2>3. Counts(row) <=> InPeriod(DateThatCounts(row), period) /\ Matches(row, filter)
    <3> HIDE DEF period
    <3> QED
      BY <2>1 DEF DateThatCounts
  <2> QED
    BY <2>2, <2>3
<1> HIDE DEF Counts, Lists
<1>4. {row \in table : Counts(row)} = {row \in table : Lists(row)}
  BY <1>3
<1> QED
  BY <1>1, <1>2, <1>4

LEMMA OverdueHolds == ASSUME FiguresInv PROVE OverdueAgrees
<1> DEFINE range == BillRange(AnyFilter, user, now)
           bills == {row \in findMany(rows, Dates(range.start, range.end), 0) : row.due # NoDate \/ row.recurring}
           analytics == getBillsAnalytics(rows, AnyFilter, user, now)
<1>1. range # Rejected
  <2>1. user.nextPayDate # NoDate
    <3>1. user.nextPayDate \in Int
      BY DEF FiguresInv, Tables, Users, NextPay
    <3> QED
      BY <3>1, SpendingAssumption
  <2>2. AnyFilter.start = NoDate
    BY DEF AnyFilter
  <2>3. \E start, end : range = [start |-> start, end |-> end]
    BY <2>1, <2>2 DEF BillRange
  <2>4. DOMAIN range = {"start", "end"} /\ DOMAIN Rejected = {"error"}
    BY <2>3 DEF Rejected
  <2>5. "start" # "error"
    OBVIOUS
  <2> QED
    BY <2>4, <2>5
<1>2. analytics.bills = bills /\ analytics.overdueBillsList = Overdue(bills, now)
  BY <1>1 DEF getBillsAnalytics
<1>3. bills \in SUBSET rows
  BY DEF findMany
<1> HIDE DEF bills, analytics
<1>4. ASSUME NEW row \in bills
      PROVE  row \in Overdue(bills, now) <=>
                /\ calculateTransactionStatus(row, now) = "OVERDUE"
                /\ row.status = "OVERDUE" => row.due # NoDate /\ row.due < now
  <2>1. row.status \in {"NONE", "UPCOMING", "OVERDUE", "PAID"}
    BY <1>3 DEF FiguresInv, Tables, Rows, TypedRow
  <2>2. CASE row.status = "PAID"
    BY <2>2 DEF calculateTransactionStatus, Overdue
  <2>3. CASE row.status # "PAID" /\ row.due # NoDate /\ row.due < now
    BY <2>3 DEF calculateTransactionStatus, Overdue
  <2>4. CASE row.status # "PAID" /\ ~(row.due # NoDate /\ row.due < now)
    BY <2>1, <2>4 DEF calculateTransactionStatus, Overdue
  <2> QED
    BY <2>2, <2>3, <2>4
<1> QED
  BY <1>2, <1>4 DEF OverdueAgrees, analytics

\* For any range of whole days, of at least one.
LEMMA AbutsFor ==
  ASSUME NEW table, Rows(table), NEW range, range.start \in Int, range.end \in Int,
         range.start % 24 = 0, range.start + 23 <= range.end,
         range.category = None, range.type = None, range.text = None, range.primary = FALSE
  PROVE  LET period == findMany(table, range, 0)
             previous == PreviousRows(table, range)
         IN  /\ period \intersect previous = {}
             /\ {row \in table : DateThatCounts(row) \in range.start - 24 .. range.end /\ ~row.primary}
                   \subseteq period \union previous
<1> DEFINE before == PreviousRange(range)
           earlier == Dates(before.start, before.end)
<1>1. \A row \in table : DateThatCounts(row) \in Int
  BY DEF Rows, TypedRow, DateThatCounts
<1>2. /\ before.start = range.start - 1 - (range.end - range.start) /\ before.end = range.start - 1
      /\ before.start \in Int /\ before.end \in Int
  BY DEF PreviousRange
<1> HIDE DEF before
<1>3. /\ earlier.start = before.start /\ earlier.end = before.end /\ earlier.category = None
      /\ earlier.type = None /\ earlier.text = None /\ earlier.primary = FALSE
  BY DEF Dates, AnyFilter
<1> HIDE DEF earlier
<1>4. ASSUME NEW x \in Int PROVE startOfDay(x) \in Int /\ endOfDay(x) \in Int /\ startOfDay(x) <= x /\ x <= endOfDay(x)
  BY DEF startOfDay, endOfDay, Day
<1>5. startOfDay(range.start) = range.start /\ endOfDay(before.end) = range.start - 1
  BY <1>2 DEF startOfDay, endOfDay, Day
<1>6. ASSUME NEW row \in table
      PROVE  /\ row \in findMany(table, range, 0) <=>
                   /\ range.start <= DateThatCounts(row) /\ DateThatCounts(row) <= endOfDay(range.end)
                   /\ ~row.primary
             /\ row \in PreviousRows(table, range) <=>
                   /\ startOfDay(before.start) <= DateThatCounts(row) /\ DateThatCounts(row) <= range.start - 1
                   /\ ~row.primary
  <2>1. row.primary \in BOOLEAN
    BY DEF Rows, TypedRow
  <2>2. range.start # NoDate /\ range.end # NoDate /\ before.start # NoDate /\ before.end # NoDate
    BY <1>2, SpendingAssumption
  <2>3. /\ resolvePeriodBoundaries(range, 0).from = range.start
        /\ resolvePeriodBoundaries(range, 0).to = endOfDay(range.end)
        /\ resolvePeriodBoundaries(earlier, 0).from = startOfDay(before.start)
        /\ resolvePeriodBoundaries(earlier, 0).to = range.start - 1
    BY <1>2, <1>3, <1>4, <1>5, <2>2 DEF resolvePeriodBoundaries
  <2>4. endOfDay(range.end) # NoDate /\ startOfDay(before.start) # NoDate /\ range.start - 1 # NoDate
    BY <1>2, <1>4, SpendingAssumption
  <2>5. PreviousRows(table, range) = findMany(table, earlier, 0)
    BY <2>2 DEF PreviousRows, earlier, before
  <2>6. (Matches(row, range) <=> ~row.primary) /\ (Matches(row, earlier) <=> ~row.primary)
    BY <1>3, <2>1 DEF Matches
  <2>7. row \in findMany(table, range, 0) <=>
            InPeriod(DateThatCounts(row), resolvePeriodBoundaries(range, 0)) /\ ~row.primary
    BY <2>2, <2>6 DEF findMany
  <2>8. row \in findMany(table, earlier, 0) <=>
            InPeriod(DateThatCounts(row), resolvePeriodBoundaries(earlier, 0)) /\ ~row.primary
    BY <1>3, <2>2, <2>6 DEF findMany
  <2> QED
    BY <1>1, <1>2, <1>4, <2>2, <2>3, <2>4, <2>5, <2>7, <2>8 DEF InPeriod
<1>7. findMany(table, range, 0) \in SUBSET table /\ PreviousRows(table, range) \in SUBSET table
  BY DEF findMany, PreviousRows
<1>8. startOfDay(before.start) <= range.start - 24
  BY <1>2, <1>4
<1>9. endOfDay(range.end) \in Int /\ range.end <= endOfDay(range.end)
  BY <1>4
<1>10. findMany(table, range, 0) \intersect PreviousRows(table, range) = {}
  BY <1>1, <1>6, <1>7
<1>11. ASSUME NEW row \in table, DateThatCounts(row) \in range.start - 24 .. range.end, ~row.primary
       PROVE  row \in findMany(table, range, 0) \union PreviousRows(table, range)
  <2>1. range.start - 24 <= DateThatCounts(row) /\ DateThatCounts(row) <= range.end /\ DateThatCounts(row) \in Int
    BY <1>11
  <2>2. CASE range.start <= DateThatCounts(row)
    BY <1>6, <1>9, <1>11, <2>1, <2>2
  <2>3. CASE DateThatCounts(row) <= range.start - 1
    BY <1>2, <1>4, <1>6, <1>8, <1>11, <2>1, <2>3
  <2> QED
    BY <2>1, <2>2, <2>3
<1> QED
  BY <1>10, <1>11

\* The pages are counted and listed, bills called overdue and periods compared by
\* conditions that agree, for any rows (findMany and count, getBillsAnalytics and
\* calculateTransactionStatus, getAnalytics).
THEOREM ListsTold == Spec => []ListsAgree
<1>1. ASSUME FiguresInv PROVE CountsWhatItLists
  <2>1. Rows(rows)
    BY <1>1 DEF FiguresInv, Tables
  <2> QED
    BY <2>1, FiltersAre, CountIs DEF CountsWhatItLists
<1>2. ASSUME FiguresInv PROVE PreviousAbuts
  <2>1. Rows(rows)
    BY <1>2 DEF FiguresInv, Tables
  <2>2. ASSUME NEW range \in Ranges, range.start % 24 = 0
        PROVE  LET period == findMany(rows, range, 0)
                   previous == PreviousRows(rows, range)
               IN  /\ period \intersect previous = {}
                   /\ {row \in rows : DateThatCounts(row) \in range.start - 24 .. range.end /\ ~row.primary}
                         \subseteq period \union previous
    BY <2>1, <2>2, FiltersAre, AbutsFor
  <2> QED
    BY <2>2 DEF PreviousAbuts
<1>3. FiguresInv => ListsAgree
  BY <1>1, <1>2, OverdueHolds DEF ListsAgree
<1> QED
  BY <1>3, TablesHold, PTL

-------------------------------------------------------------------------------
(* The spending of a range, by the points of a trend and by its parts.        *)

LEMMA FiniteKeys ==
  ASSUME NEW S, IsFiniteSet(S), NEW f, DOMAIN f = S
  PROVE  IsFiniteSet({f[x] : x \in S})
<1> DEFINE g == [x \in S |-> f[x]]
           T == {f[x] : x \in S}
<1>1. g \in Surjection(S, T)
  BY DEF Surjection
<1> HIDE DEF g, T
<1>2. IsFiniteSet(T)
  BY <1>1, FS_Surjection
<1> QED
  BY <1>2 DEF T

\* Totals of the rows with each key add up to the total.
LEMMA PartsAddUp ==
  ASSUME NEW S, Priced(S), NEW K, IsFiniteSet(K), NEW key, \A row \in S : key[row] \in K,
         NEW f, DOMAIN f = K, \A k \in K : f[k] = Total({row \in S : key[row] = k})
  PROVE  SumFunction(f) = Total(S)
<1> DEFINE amounts == [row \in S |-> row.amount]
           part == [k \in K |-> {row \in S : key[row] = k}]
<1>1. \A row \in S : amounts[row] \in Int
  BY DEF Priced
<1>2. /\ \A k \in K : part[k] \in SUBSET S
      /\ \A row \in S : \E k \in K : row \in part[k]
      /\ \A k, l \in K : k # l => part[k] \intersect part[l] = {}
  OBVIOUS
<1>3. ASSUME NEW k \in K PROVE f[k] = SumFunctionOnSet(amounts, part[k])
  <2>1. f[k] = Total(part[k]) /\ part[k] \in SUBSET S
    OBVIOUS
  <2> HIDE DEF part
  <2> QED
    BY <2>1, TotalOn DEF Priced
<1>4. Total(S) = SumFunctionOnSet(amounts, S)
  BY DEF Total, SumFunction
<1>5. SumFunction(f) = SumFunctionOnSet(f, K)
  BY DEF SumFunction
<1> HIDE DEF amounts, part
<1>6. SumFunctionOnSet(f, K) = SumFunctionOnSet(amounts, S)
  BY <1>1, <1>2, <1>3, SumOfParts DEF Priced
<1> QED
  BY <1>4, <1>5, <1>6

LEMMA SmallerTotal ==
  ASSUME NEW S, IsFiniteSet(S), \A row \in S : row.amount \in Nat, NEW T \in SUBSET S
  PROVE  Total(T) <= Total(S)
<1>1. Priced(S)
  BY DEF Priced
<1>2. Total(S) = Total(T) + Total(S \ T)
  BY <1>1, TotalOfSplit
<1>3. IsFiniteSet(T) /\ IsFiniteSet(S \ T) /\ \A row \in S \ T : row.amount \in Nat
  <2>1. S \ T \in SUBSET S
    OBVIOUS
  <2> QED
    BY <2>1, FS_Subset
<1>4. Total(S \ T) \in Nat /\ Total(T) \in Nat
  BY <1>3, TotalNat
<1> QED
  BY <1>2, <1>4

\* The rows of a range fall on its days.
LEMMA ListedOnDays ==
  ASSUME NEW table, Rows(table), NEW range \in Ranges, NEW row \in findMany(table, range, 0),
         DateThatCounts(row) = row.date
  PROVE  userLocalDay(row.date, 0) \in userLocalDay(range.start, 0) .. userLocalDay(range.end, 0)
<1>1. row.date \in Int
  BY DEF findMany, Rows, TypedRow
<1>2. range.start \in Int /\ range.end \in Int
  BY FiltersAre
<1>3. range.start # NoDate /\ range.end # NoDate
  BY <1>2, SpendingAssumption
<1>4. InPeriod(row.date, resolvePeriodBoundaries(range, 0))
  BY <1>3 DEF findMany
<1>5. /\ resolvePeriodBoundaries(range, 0).from = startOfDay(range.start)
      /\ resolvePeriodBoundaries(range, 0).to = endOfDay(range.end)
      /\ startOfDay(range.start) \in Int /\ endOfDay(range.end) \in Int
  BY <1>2, <1>3 DEF resolvePeriodBoundaries, startOfDay, endOfDay, Day
<1>6. startOfDay(range.start) <= row.date /\ row.date <= endOfDay(range.end)
  BY <1>4, <1>5, SpendingAssumption DEF InPeriod
<1> QED
  BY <1>1, <1>2, <1>6 DEF userLocalDay, startOfDay, endOfDay, Day

\* The points of a trend add up to all rows that fall on its days.
LEMMA BucketsAddUp ==
  ASSUME NEW S, Priced(S), NEW type, NEW start \in Int, NEW end \in Int,
         \A row \in S : userLocalDay(row.date, 0) \in userLocalDay(start, 0) .. userLocalDay(end, 0),
         NEW f, DOMAIN f = enumeratePeriodKeys(start, end, type, 0),
         \A k \in enumeratePeriodKeys(start, end, type, 0) : f[k] = Total(Bucket(S, k, type, 0))
  PROVE  SumFunction(f) = Total(S)
<1> DEFINE days == userLocalDay(start, 0) .. userLocalDay(end, 0)
           keys == enumeratePeriodKeys(start, end, type, 0)
           keyOf == [day \in days |-> periodKeyFromDayKey(day, type)]
           key == [row \in S |-> periodKeyFromDayKey(userLocalDay(row.date, 0), type)]
<1>1. IsFiniteSet(days)
  <2>1. userLocalDay(start, 0) \in Int /\ userLocalDay(end, 0) \in Int
    BY DEF userLocalDay, Day
  <2> QED
    BY <2>1, FS_Interval
<1>2. keys = {keyOf[day] : day \in days} /\ DOMAIN keyOf = days
  BY DEF enumeratePeriodKeys
<1>3. \A row \in S : key[row] \in keys
  BY DEF enumeratePeriodKeys
<1>4. \A k \in keys : Bucket(S, k, type, 0) = {row \in S : key[row] = k}
  BY DEF Bucket
<1> HIDE DEF days, keys, keyOf, key
<1>5. IsFiniteSet(keys)
  BY <1>1, <1>2, FiniteKeys
<1>6. DOMAIN f = keys /\ \A k \in keys : f[k] = Total({row \in S : key[row] = k})
  BY <1>4 DEF keys
<1> QED
  BY <1>3, <1>5, <1>6, PartsAddUp

\* What getAnalytics shows of a range.
LEMMA AnalyticsOf ==
  ASSUME NEW range \in Ranges, NEW listed, listed = findMany(rows, range, 0),
         NEW analytics, analytics = getAnalytics(rows, range, user, now)
  PROVE  /\ analytics.totalIncome = Total(Incomes(listed))
         /\ analytics.totalExpenses = Total(Expenses(listed))
         /\ analytics.monthlyTrends = MergedTrends(listed, range.start, range.end, user.offset)
         /\ analytics.spendingVelocity = velocityStatus(listed, now)
         /\ analytics.burnRateStatus = burnRateStatus(listed, user, now)
<1>1. range.start # NoDate /\ range.end # NoDate
  BY FiltersAre, SpendingAssumption
<1> QED
  BY <1>1 DEF getAnalytics, calculateAnalytics

LEMMA PointsOf ==
  ASSUME NEW listed, NEW start, NEW end, NEW offset, NEW trends, trends = MergedTrends(listed, start, end, offset)
  PROVE  LET type == TrendPeriod(start, end)
             keys == enumeratePeriodKeys(start, end, type, offset)
         IN  /\ DOMAIN trends = keys
             /\ \A k \in keys :
                   /\ trends[k].income = Total(Incomes(Bucket(listed, k, type, offset)))
                   /\ trends[k].expenses = Total(Expenses(Bucket(listed, k, type, offset)))
                   /\ trends[k].discretionaryExpenses = Total(Discretionary(Bucket(listed, k, type, offset)))
<1> DEFINE type == TrendPeriod(start, end)
           keys == enumeratePeriodKeys(start, end, type, offset)
           points == calculateTrends(listed, start, end, offset)
           extra == calculateDiscretionaryTrends(listed, start, end, offset)
<1>1. DOMAIN points = keys /\ DOMAIN extra = keys
  BY DEF calculateTrends, calculateDiscretionaryTrends
<1>2. \A k \in keys : /\ points[k].income = Total(Incomes(Bucket(listed, k, type, offset)))
                      /\ points[k].expenses = Total(Expenses(Bucket(listed, k, type, offset)))
                      /\ extra[k] = Total(Discretionary(Bucket(listed, k, type, offset)))
  BY DEF calculateTrends, calculateDiscretionaryTrends
<1>3. trends = [k \in DOMAIN points |->
                  [expenses |-> points[k].expenses, income |-> points[k].income,
                   discretionaryExpenses |-> IF k \in DOMAIN extra THEN extra[k] ELSE 0]]
  BY DEF MergedTrends
<1> HIDE DEF type, keys, points, extra
<1>4. DOMAIN trends = keys
  BY <1>1, <1>3
<1>5. \A k \in keys : /\ trends[k].income = points[k].income
                      /\ trends[k].expenses = points[k].expenses
                      /\ trends[k].discretionaryExpenses = extra[k]
  BY <1>1, <1>3
<1> QED
  BY <1>2, <1>4, <1>5 DEF type, keys

LEMMA TrendsHold == ASSUME FiguresInv PROVE TrendsAddUp
<1>1. Rows(rows)
  BY DEF FiguresInv, Tables
<1>2. ASSUME NEW range \in Ranges, NEW listed, listed = findMany(rows, range, 0),
             NEW analytics, analytics = getAnalytics(rows, range, user, now)
      PROVE  LET trends == analytics.monthlyTrends
             IN  /\ \A k \in DOMAIN trends : trends[k].discretionaryExpenses <= trends[k].expenses
                 /\ Aligned(listed) /\ range.start % 24 = 0 =>
                       /\ SumOver(trends, LAMBDA point : point.expenses) = analytics.totalExpenses
                       /\ SumOver(trends, LAMBDA point : point.income) = analytics.totalIncome
                       /\ SumOver(trends, LAMBDA point : point.discretionaryExpenses) = Total(Discretionary(listed))
  <2> DEFINE trends == analytics.monthlyTrends
             type == TrendPeriod(range.start, range.end)
             keys == enumeratePeriodKeys(range.start, range.end, type, user.offset)
  <2>1. /\ analytics.totalIncome = Total(Incomes(listed))
        /\ analytics.totalExpenses = Total(Expenses(listed))
        /\ trends = MergedTrends(listed, range.start, range.end, user.offset)
    BY <1>2, AnalyticsOf
  <2> HIDE DEF trends
  <2>2. /\ DOMAIN trends = keys
        /\ \A k \in keys :
              /\ trends[k].income = Total(Incomes(Bucket(listed, k, type, user.offset)))
              /\ trends[k].expenses = Total(Expenses(Bucket(listed, k, type, user.offset)))
              /\ trends[k].discretionaryExpenses = Total(Discretionary(Bucket(listed, k, type, user.offset)))
    BY <2>1, PointsOf
  <2> HIDE DEF type
  <2>3. listed \in SUBSET rows
    BY <1>2 DEF findMany
  <2>4. ASSUME NEW k \in keys PROVE trends[k].discretionaryExpenses <= trends[k].expenses
    <3> DEFINE bucket == Bucket(listed, k, type, user.offset)
    <3>1. Expenses(bucket) \in SUBSET rows /\ Discretionary(bucket) \in SUBSET Expenses(bucket)
      BY <2>3 DEF Bucket, Expenses, Discretionary
    <3>2. IsFiniteSet(Expenses(bucket)) /\ \A row \in Expenses(bucket) : row.amount \in Nat
      BY <1>1, <3>1, FS_Subset DEF Rows, TypedRow
    <3> HIDE DEF bucket
    <3>3. Total(Discretionary(bucket)) <= Total(Expenses(bucket))
      BY <3>1, <3>2, SmallerTotal
    <3> QED
      BY <2>2, <3>3 DEF bucket
  <2>5. ASSUME Aligned(listed)
        PROVE  /\ SumFunction([k \in DOMAIN trends |-> trends[k].expenses]) = Total(Expenses(listed))
               /\ SumFunction([k \in DOMAIN trends |-> trends[k].income]) = Total(Incomes(listed))
               /\ SumFunction([k \in DOMAIN trends |-> trends[k].discretionaryExpenses]) = Total(Discretionary(listed))
    <3>1. user.offset = 0 /\ \A row \in listed : DateThatCounts(row) = row.date
      BY <2>5 DEF Aligned
    <3>2. \A row \in listed : userLocalDay(row.date, 0) \in userLocalDay(range.start, 0) .. userLocalDay(range.end, 0)
      BY <1>1, <1>2, <3>1, ListedOnDays
    <3>3. range.start \in Int /\ range.end \in Int
      BY FiltersAre
    <3>4. keys = enumeratePeriodKeys(range.start, range.end, type, 0)
      BY <3>1
    <3>5. ASSUME NEW S \in SUBSET listed, NEW f, DOMAIN f = keys,
                 \A k \in keys : f[k] = Total(Bucket(S, k, type, 0))
          PROVE  SumFunction(f) = Total(S)
      <4>1. Priced(S)
        <5>1. S \in SUBSET rows
          BY <2>3, <3>5
        <5> QED
          BY <1>1, <5>1, PricedPart DEF Priced, Rows, TypedRow
      <4> QED
        BY <3>2, <3>3, <3>4, <3>5, <4>1, BucketsAddUp
    <3>6. Expenses(listed) \in SUBSET listed /\ Incomes(listed) \in SUBSET listed /\ Discretionary(listed) \in SUBSET listed
      BY DEF Expenses, Incomes, Discretionary
    <3>7. ASSUME NEW k
          PROVE  /\ Expenses(Bucket(listed, k, type, 0)) = Bucket(Expenses(listed), k, type, 0)
                 /\ Incomes(Bucket(listed, k, type, 0)) = Bucket(Incomes(listed), k, type, 0)
                 /\ Discretionary(Bucket(listed, k, type, 0)) = Bucket(Discretionary(listed), k, type, 0)
      BY DEF Expenses, Incomes, Discretionary, Bucket
    <3> DEFINE e == [k \in DOMAIN trends |-> trends[k].expenses]
               i == [k \in DOMAIN trends |-> trends[k].income]
               d == [k \in DOMAIN trends |-> trends[k].discretionaryExpenses]
    <3>8. /\ DOMAIN e = keys /\ \A k \in keys : e[k] = Total(Bucket(Expenses(listed), k, type, 0))
          /\ DOMAIN i = keys /\ \A k \in keys : i[k] = Total(Bucket(Incomes(listed), k, type, 0))
          /\ DOMAIN d = keys /\ \A k \in keys : d[k] = Total(Bucket(Discretionary(listed), k, type, 0))
      <4> HIDE DEF keys
      <4> QED
        BY <2>2, <3>1, <3>7
    <3> HIDE DEF e, i, d, keys
    <3> QED
      BY <3>5, <3>6, <3>8 DEF e, i, d
  <2> QED
    BY <2>1, <2>2, <2>4, <2>5 DEF trends, SumOver
<1> QED
  BY <1>2 DEF TrendsAddUp

\* Rows with an amount and a date.
Dated(some) == Priced(some) /\ \A row \in some : row.date \in Int

TimesOfDay == {"MORNING", "AFTERNOON", "EVENING", "NIGHT"}

\* Whatever the rows, each way to split them is one.
LEMMA BreakdownsAddUp ==
  ASSUME NEW S, Dated(S)
  PROVE  /\ SumFunction(calculateTimeOfDayBreakdown(S)) = Total(S)
         /\ SumFunction(calculateDayOfWeekBreakdown(S)) = Total(S)
         /\ SumFunction(calculateHourlyBreakdown(S)) = Total(S)
         /\ SumFunction(calculateWeekdayVsWeekendBreakdown(S)) = Total(S)
<1>1. Priced(S) /\ \A row \in S : row.date \in Int
  BY DEF Dated
<1>2. \A instant \in Int : Hour(instant) \in 0 .. 23 /\ Weekday(Day(instant)) \in 0 .. 6
  BY DEF Hour, Weekday, Day
<1>3. SumFunction(calculateTimeOfDayBreakdown(S)) = Total(S)
  <2> DEFINE key == [row \in S |-> getTimePeriod(Hour(row.date))]
             f == calculateTimeOfDayBreakdown(S)
  <2>1. IsFiniteSet(TimesOfDay)
    <3>1. TimesOfDay = {"MORNING", "AFTERNOON", "EVENING"} \union {"NIGHT"}
      BY DEF TimesOfDay
    <3> QED
      BY <3>1, FiniteThree, FS_Singleton, FS_Union
  <2>2. ASSUME NEW hour PROVE getTimePeriod(hour) \in TimesOfDay
    BY DEF getTimePeriod, TimesOfDay
  <2>3. \A row \in S : key[row] \in TimesOfDay
    BY <2>2
  <2>4. DOMAIN f = TimesOfDay /\ \A k \in TimesOfDay : f[k] = Total({row \in S : key[row] = k})
    <3>1. \A k : {row \in S : key[row] = k} = {row \in S : getTimePeriod(Hour(row.date)) = k}
      OBVIOUS
    <3> HIDE DEF key
    <3> QED
      BY <3>1 DEF calculateTimeOfDayBreakdown, Breakdown, TimesOfDay
  <2> HIDE DEF key, f
  <2> QED
    BY <1>1, <2>1, <2>3, <2>4, PartsAddUp DEF f
<1>4. SumFunction(calculateDayOfWeekBreakdown(S)) = Total(S)
  <2> DEFINE key == [row \in S |-> Weekday(Day(row.date))]
             f == calculateDayOfWeekBreakdown(S)
             keys == 0 .. 6
  <2>1. IsFiniteSet(keys)
    <3>1. 0 \in Int /\ 6 \in Int
      OBVIOUS
    <3> QED
      BY <3>1, FS_Interval, Zenon
  <2>2. \A row \in S : key[row] \in keys
    BY <1>1, <1>2
  <2>3. DOMAIN f = keys /\ \A k \in keys : f[k] = Total({row \in S : key[row] = k})
    <3>1. \A k : {row \in S : key[row] = k} = {row \in S : Weekday(Day(row.date)) = k}
      OBVIOUS
    <3> HIDE DEF key
    <3> QED
      BY <3>1 DEF calculateDayOfWeekBreakdown, Breakdown
  <2> HIDE DEF key, f, keys
  <2> QED
    BY <1>1, <2>1, <2>2, <2>3, PartsAddUp DEF f
<1>5. SumFunction(calculateHourlyBreakdown(S)) = Total(S)
  <2> DEFINE key == [row \in S |-> Hour(row.date)]
             f == calculateHourlyBreakdown(S)
             keys == 0 .. 23
  <2>1. IsFiniteSet(keys)
    <3>1. 0 \in Int /\ 23 \in Int
      OBVIOUS
    <3> QED
      BY <3>1, FS_Interval, Zenon
  <2>2. \A row \in S : key[row] \in keys
    BY <1>1, <1>2
  <2>3. DOMAIN f = keys /\ \A k \in keys : f[k] = Total({row \in S : key[row] = k})
    <3>1. \A k : {row \in S : key[row] = k} = {row \in S : Hour(row.date) = k}
      OBVIOUS
    <3> HIDE DEF key
    <3> QED
      BY <3>1 DEF calculateHourlyBreakdown, Breakdown
  <2> HIDE DEF key, f, keys
  <2> QED
    BY <1>1, <2>1, <2>2, <2>3, PartsAddUp DEF f
<1>6. SumFunction(calculateWeekdayVsWeekendBreakdown(S)) = Total(S)
  <2> DEFINE key == [row \in S |-> isWeekend(Weekday(Day(row.date)))]
             f == calculateWeekdayVsWeekendBreakdown(S)
  <2>1. IsFiniteSet(BOOLEAN)
    <3>1. \A b : IsFiniteSet({b})
      BY FS_Singleton
    <3>2. IsFiniteSet({TRUE}) /\ IsFiniteSet({FALSE})
      BY <3>1, Zenon
    <3>3. IsFiniteSet({TRUE} \union {FALSE})
      BY <3>2, FS_Union, Zenon
    <3>4. BOOLEAN = {TRUE} \union {FALSE}
      OBVIOUS
    <3> QED
      BY <3>3, <3>4, Zenon
  <2>2. \A row \in S : key[row] \in BOOLEAN
    BY DEF isWeekend
  <2>3. DOMAIN f = BOOLEAN /\ \A k \in BOOLEAN : f[k] = Total({row \in S : key[row] = k})
    <3>1. \A k : {row \in S : key[row] = k} = {row \in S : isWeekend(Weekday(Day(row.date))) = k}
      OBVIOUS
    <3> HIDE DEF key
    <3> QED
      BY <3>1 DEF calculateWeekdayVsWeekendBreakdown, Breakdown
  <2> HIDE DEF key, f
  <2> QED
    BY <1>1, <2>1, <2>2, <2>3, PartsAddUp DEF f
<1> QED
  BY <1>3, <1>4, <1>5, <1>6

\* The parts of the day make up the total, the categories that of the rows that
\* have one.
LEMMA PartsOfDay ==
  ASSUME NEW S, Dated(S), NEW parts, parts = spendingDistribution(S)
  PROVE  parts.morning + parts.afternoon + parts.evening + parts.night = Total(S)
<1> DEFINE m == {row \in S : Hour(row.date) \in 6 .. 11}
           a == {row \in S : Hour(row.date) \in 12 .. 17}
           e == {row \in S : Hour(row.date) \in 18 .. 23}
           n == {row \in S : Hour(row.date) \in 0 .. 5}
<1>1. parts.morning = Total(m) /\ parts.afternoon = Total(a) /\ parts.evening = Total(e) /\ parts.night = Total(n)
  BY DEF spendingDistribution
<1>2. \A row \in S : Hour(row.date) \in 0 .. 23
  BY DEF Dated, Hour
<1>3. /\ S = m \union (a \union (e \union n)) /\ m \intersect (a \union (e \union n)) = {}
      /\ a \intersect (e \union n) = {} /\ e \intersect n = {}
  BY <1>2
<1>4. a \union (e \union n) \in SUBSET S /\ e \union n \in SUBSET S /\ m \in SUBSET S /\ a \in SUBSET S
      /\ e \in SUBSET S /\ n \in SUBSET S
  OBVIOUS
<1> HIDE DEF m, a, e, n
<1>5. Priced(S) /\ Priced(a \union (e \union n)) /\ Priced(e \union n) /\ Priced(m) /\ Priced(a) /\ Priced(e) /\ Priced(n)
  BY <1>4, PricedPart DEF Dated
<1>6. /\ Total(S) = Total(m) + Total(a \union (e \union n))
      /\ Total(a \union (e \union n)) = Total(a) + Total(e \union n)
      /\ Total(e \union n) = Total(e) + Total(n)
  BY <1>3, <1>5, TotalOfTwo
<1>7. Total(m) \in Int /\ Total(a) \in Int /\ Total(e) \in Int /\ Total(n) \in Int
  BY <1>5, TotalInt
<1> QED
  BY <1>1, <1>6, <1>7

LEMMA CategoriesAddUp ==
  ASSUME NEW S, Priced(S)
  PROVE  SumFunction(calculateCategoryBreakdown(S)) = Total({row \in S : row.category # None})
<1> DEFINE some == {row \in S : row.category # None}
           all == [row \in S |-> row.category]
           keys == {row.category : row \in S} \ {None}
           key == [row \in some |-> row.category]
           f == calculateCategoryBreakdown(S)
<1>1. IsFiniteSet(keys)
  <2>1. {row.category : row \in S} = {all[row] : row \in S} /\ DOMAIN all = S
    OBVIOUS
  <2>2. keys \in SUBSET {all[row] : row \in S}
    OBVIOUS
  <2> HIDE DEF all, keys
  <2>3. IsFiniteSet({all[row] : row \in S})
    BY <2>1, FiniteKeys DEF Priced
  <2> QED
    BY <2>2, <2>3, FS_Subset
<1>2. some \in SUBSET S /\ \A row \in some : key[row] \in keys
  OBVIOUS
<1>3. ASSUME NEW k \in keys PROVE {row \in S : row.category = k} = {row \in some : key[row] = k}
  OBVIOUS
<1>4. DOMAIN f = keys /\ \A k \in keys : f[k] = Total({row \in S : row.category = k})
  BY DEF calculateCategoryBreakdown
<1> HIDE DEF some, keys, key, f, all
<1>5. Priced(some)
  BY <1>2, PricedPart
<1>6. \A k \in keys : f[k] = Total({row \in some : key[row] = k})
  BY <1>3, <1>4
<1> QED
  BY <1>1, <1>2, <1>4, <1>5, <1>6, PartsAddUp DEF f, some

\* The rows the patterns and the breakdown are made of.
LEMMA PatternsOf ==
  ASSUME NEW start, NEW end, NEW patterns, patterns = getDayTimePatterns(rows, start, end),
         NEW S, S = Discretionary(findMany(rows, Dates(start, end), 0))
  PROVE  /\ patterns.timeOfDayBreakdown = calculateTimeOfDayBreakdown(S)
         /\ patterns.dayOfWeekBreakdown = calculateDayOfWeekBreakdown(S)
         /\ patterns.hourlyBreakdown = calculateHourlyBreakdown(S)
         /\ patterns.weekdayVsWeekend = calculateWeekdayVsWeekendBreakdown(S)
         /\ patterns.summary.totalAmount = Total(S)
<1>1. calculateDayTimePatternSummary(S).totalAmount = Total(S)
  BY DEF calculateDayTimePatternSummary
<1>2. patterns.summary = calculateDayTimePatternSummary(S)
  BY DEF getDayTimePatterns
<1> QED
  BY <1>1, <1>2 DEF getDayTimePatterns

LEMMA BreakdownOf ==
  ASSUME NEW start, NEW end, NEW offset, NEW breakdown,
         breakdown = getDiscretionaryBreakdown(rows, start, end, offset)
  PROVE  \E target \in SUBSET rows :
            /\ breakdown.totalDiscretionaryAmount = Total(target)
            /\ breakdown.transactions = target
            /\ breakdown.categoryBreakdown = calculateCategoryBreakdown(target)
            /\ breakdown.summary.spendingDistribution = spendingDistribution(target)
<1> DEFINE type == determinePeriodType(start, end)
           all == Discretionary(findMany(rows, Dates(start, end), 0))
           target == filterTransactionsForPeriod(all, end, type, offset)
           categories == calculateCategoryBreakdown(target)
<1>1. target \in SUBSET rows
  <2>1. all \in SUBSET rows
    BY DEF Discretionary, Expenses, findMany
  <2> HIDE DEF all, type
  <2>2. target \in SUBSET all
    BY DEF filterTransactionsForPeriod, Between
  <2> QED
    BY <2>1, <2>2
<1>2. calculateDiscretionarySummary(target, categories).spendingDistribution = spendingDistribution(target)
  BY DEF calculateDiscretionarySummary
<1>3. /\ breakdown.totalDiscretionaryAmount = Total(target) /\ breakdown.transactions = target
      /\ breakdown.categoryBreakdown = categories
      /\ breakdown.summary = calculateDiscretionarySummary(target, categories)
  BY DEF getDiscretionaryBreakdown
<1> QED
  BY <1>1, <1>2, <1>3

LEMMA SplitsHold == ASSUME FiguresInv PROVE SplitsAddUp
<1>1. Rows(rows)
  BY DEF FiguresInv, Tables
<1>2. ASSUME NEW S \in SUBSET rows PROVE Dated(S)
  BY <1>1, FS_Subset DEF Rows, TypedRow, Dated, Priced
<1>3. ASSUME NEW range \in Ranges, NEW patterns, patterns = getDayTimePatterns(rows, range.start, range.end)
      PROVE  \A split \in {patterns.timeOfDayBreakdown, patterns.dayOfWeekBreakdown, patterns.hourlyBreakdown,
                           patterns.weekdayVsWeekend} :
                SumFunction(split) = patterns.summary.totalAmount
  <2> DEFINE S == Discretionary(findMany(rows, Dates(range.start, range.end), 0))
  <2>1. S \in SUBSET rows
    BY DEF Discretionary, Expenses, findMany
  <2>2. /\ patterns.timeOfDayBreakdown = calculateTimeOfDayBreakdown(S)
        /\ patterns.dayOfWeekBreakdown = calculateDayOfWeekBreakdown(S)
        /\ patterns.hourlyBreakdown = calculateHourlyBreakdown(S)
        /\ patterns.weekdayVsWeekend = calculateWeekdayVsWeekendBreakdown(S)
        /\ patterns.summary.totalAmount = Total(S)
    BY <1>3, PatternsOf
  <2> HIDE DEF S
  <2>3. Dated(S)
    BY <1>2, <2>1
  <2> QED
    BY <2>2, <2>3, BreakdownsAddUp
<1>4. ASSUME NEW range \in Ranges, NEW breakdown,
             breakdown = getDiscretionaryBreakdown(rows, range.start, range.end, user.offset)
      PROVE  LET parts == breakdown.summary.spendingDistribution
             IN  /\ parts.morning + parts.afternoon + parts.evening + parts.night = breakdown.totalDiscretionaryAmount
                 /\ SumFunction(breakdown.categoryBreakdown)
                        = Total({row \in breakdown.transactions : row.category # None})
  <2>1. PICK target \in SUBSET rows :
            /\ breakdown.totalDiscretionaryAmount = Total(target)
            /\ breakdown.transactions = target
            /\ breakdown.categoryBreakdown = calculateCategoryBreakdown(target)
            /\ breakdown.summary.spendingDistribution = spendingDistribution(target)
    BY <1>4, BreakdownOf
  <2>2. Dated(target) /\ Priced(target)
    BY <1>2 DEF Dated
  <2>3. SumFunction(calculateCategoryBreakdown(target)) = Total({row \in target : row.category # None})
    BY <2>2, CategoriesAddUp
  <2> DEFINE parts == spendingDistribution(target)
  <2>4. parts.morning + parts.afternoon + parts.evening + parts.night = Total(target)
    <3> HIDE DEF parts
    <3> QED
      BY <2>2, PartsOfDay DEF parts
  <2> QED
    BY <2>1, <2>3, <2>4
<1> QED
  BY <1>3, <1>4 DEF SplitsAddUp

-------------------------------------------------------------------------------
(* The rates.                                                                 *)

\* The months around the next pay date, day 516: April, May and June.
LEMMA MonthsAre ==
  /\ FirstDay[4] = 120 /\ FirstDay[5] = 151 /\ FirstDay[6] = 181 /\ FirstDay[7] = 212 /\ FirstDay[8] = 243
  /\ FirstDay[9] = 273 /\ FirstDay[10] = 304 /\ FirstDay[11] = 334 /\ FirstDay[12] = 365 /\ FirstDay[13] = 396
  /\ FirstDay[14] = 425 /\ FirstDay[15] = 456 /\ FirstDay[16] = 486 /\ FirstDay[17] = 517 /\ FirstDay[18] = 547
  /\ DaysIn(4) = 31 /\ DaysIn(5) = 30 /\ DaysIn(6) = 31 /\ DaysIn(7) = 31 /\ DaysIn(8) = 30
  /\ DaysIn(9) = 31 /\ DaysIn(10) = 30 /\ DaysIn(11) = 31 /\ DaysIn(12) = 31 /\ DaysIn(13) = 29
  /\ DaysIn(14) = 31 /\ DaysIn(15) = 30 /\ DaysIn(16) = 31 /\ DaysIn(17) = 30 /\ DaysIn(18) = 31
  /\ \A m \in 0 .. 18 : m \in 0 .. Months
<1>1. /\ DaysIn(0) = 31 /\ DaysIn(1) = 28 /\ DaysIn(2) = 31 /\ DaysIn(3) = 30 /\ DaysIn(4) = 31 /\ DaysIn(5) = 30
      /\ DaysIn(6) = 31 /\ DaysIn(7) = 31 /\ DaysIn(8) = 30 /\ DaysIn(9) = 31 /\ DaysIn(10) = 30
      /\ DaysIn(11) = 31
  BY DEF DaysIn, Lengths
<1>2. /\ DaysIn(12) = 31 /\ DaysIn(13) = 29 /\ DaysIn(14) = 31 /\ DaysIn(15) = 30 /\ DaysIn(16) = 31
      /\ DaysIn(17) = 30 /\ DaysIn(18) = 31
  BY DEF DaysIn, Lengths
<1>3. \A m \in 1 .. 18 : m \in 1 .. Months
  BY FiguresAssumption, PayCalendarAssumption
<1>4. \A m \in 1 .. 18 : FirstDay[m] = FirstDay[m - 1] + DaysIn(m - 1)
  BY <1>3, FirstDayNext
<1>5. FirstDay[0] = 0
  BY FirstDayZero
<1>6. FirstDay[1] = 31 /\ FirstDay[2] = 59 /\ FirstDay[3] = 90 /\ FirstDay[4] = 120
  BY <1>1, <1>4, <1>5
<1>7. FirstDay[5] = 151 /\ FirstDay[6] = 181 /\ FirstDay[7] = 212 /\ FirstDay[8] = 243
  BY <1>1, <1>4, <1>6
<1>8. FirstDay[9] = 273 /\ FirstDay[10] = 304 /\ FirstDay[11] = 334 /\ FirstDay[12] = 365
  BY <1>1, <1>4, <1>7
<1>9. FirstDay[13] = 396 /\ FirstDay[14] = 425 /\ FirstDay[15] = 456
  BY <1>2, <1>4, <1>8
<1>10. FirstDay[16] = 486 /\ FirstDay[17] = 517 /\ FirstDay[18] = 547
  BY <1>2, <1>4, <1>9
<1>11. \A m \in 0 .. 18 : m \in 0 .. Months
  BY FiguresAssumption, PayCalendarAssumption
<1> QED
  BY <1>1, <1>2, <1>6, <1>7, <1>8, <1>9, <1>10, <1>11

LEMMA DaysOfMonth ==
  ASSUME NEW m \in 0 .. Months, NEW day \in Int, FirstDay[m] <= day, day < FirstDay[m] + DaysIn(m)
  PROVE  MonthOf[day] = m /\ day \in 0 .. LastDay
<1>1. Months \in Nat /\ Months \in 0 .. Months /\ m \in Nat
  BY PayCalendarAssumption
<1>2. /\ FirstDay[m] \in Nat /\ FirstDay[Months] \in Nat
      /\ DaysIn(m) \in 28 .. 31 /\ DaysIn(Months) \in 28 .. 31
  BY <1>1, FirstDayType, DaysInType
<1>3. day < FirstDay[Months] + DaysIn(Months)
  <2>1. CASE m = Months
    BY <2>1
  <2>2. CASE m # Months
    <3>1. FirstDay[m] + DaysIn(m) <= FirstDay[Months]
      BY <1>1, <2>2, MonthsInOrder
    <3> QED
      BY <1>2, <3>1
  <2> QED
    BY <2>1, <2>2
<1>4. day \in 0 .. LastDay
  BY <1>2, <1>3 DEF LastDay
<1>5. MonthOf[day] = m
  BY <1>4, MonthIs
<1> QED
  BY <1>4, <1>5

LEMMA DaysOfMay ==
  ASSUME NEW day \in 486 .. 516
  PROVE  MonthOf[day] = 16 /\ day \in 0 .. LastDay
<1>1. 16 \in 0 .. Months /\ FirstDay[16] <= day /\ day < FirstDay[16] + DaysIn(16) /\ day \in Int
  BY MonthsAre
<1> QED
  BY <1>1, DaysOfMonth

\* What is spent too fast runs out on some day.
LEMMA BurnRateAgrees ==
  ASSUME FiguresInv
  PROVE  (burnRateStatus(rows, user, now) \in {"HIGH", "CRITICAL"} /\ YearlyCapacity(user) > 0)
            <=> daysUntilBudgetExceeded(rows, user, now) # None
<1> DEFINE capacity == YearlyCapacity(user)
           spent == weeklySpending(rows, now)
<1>1. capacity \in Int /\ user.income # 0
  <2>1. user.income = 5 /\ user.fixedExpenses = 1
    BY DEF FiguresInv, Tables, Users
  <2> QED
    BY <2>1 DEF YearlyCapacity
<1>2. spent \in Int
  <2>1. Between(Discretionary(rows), now - 7 * 24, now) \in SUBSET rows
    BY DEF Between, Discretionary, Expenses
  <2>2. Priced(rows)
    BY PartsOfPeriod DEF FiguresInv, Tables
  <2> QED
    BY <2>1, <2>2, PricedPart, TotalInt DEF weeklySpending
<1>3. /\ Exceeds(7, rows, user, now) <=> 4500 * spent > 49 * capacity
      /\ Exceeds(10, rows, user, now) <=> 4500 * spent > 70 * capacity
      /\ Exceeds(15, rows, user, now) <=> 4500 * spent > 105 * capacity
  BY <1>1, <1>2 DEF Exceeds
<1>4. ASSUME capacity > 0
      PROVE  burnRateStatus(rows, user, now) \in {"HIGH", "CRITICAL"} <=> Exceeds(10, rows, user, now)
  <2>1. ~(capacity <= 0 \/ user.income = 0)
    BY <1>1, <1>4
  <2> HIDE DEF capacity, spent
  <2>2. Exceeds(10, rows, user, now) => Exceeds(7, rows, user, now)
    BY <1>1, <1>2, <1>3, <1>4
  <2>3. Exceeds(15, rows, user, now) => Exceeds(10, rows, user, now)
    BY <1>1, <1>2, <1>3, <1>4
  <2>4. CASE ~Exceeds(10, rows, user, now)
    <3>1. burnRateStatus(rows, user, now) \in {"LOW", "NORMAL"}
      BY <2>1, <2>3, <2>4 DEF burnRateStatus, capacity
    <3> QED
      BY <2>4, <3>1
  <2>5. CASE Exceeds(10, rows, user, now)
    <3>1. burnRateStatus(rows, user, now) \in {"HIGH", "CRITICAL"}
      BY <2>1, <2>2, <2>5 DEF burnRateStatus, capacity
    <3> QED
      BY <2>5, <3>1
  <2> QED
    BY <2>4, <2>5
<1>5. ASSUME capacity > 0, Exceeds(10, rows, user, now)
      PROVE  (capacity * 375 * 7) \div (4500 * spent - 70 * capacity) # None
  <2> HIDE DEF capacity, spent
  <2>1. 4500 * spent - 70 * capacity \in Int /\ 4500 * spent - 70 * capacity > 0
    BY <1>1, <1>2, <1>3, <1>5
  <2>2. capacity * 375 * 7 \in Int
    BY <1>1
  <2>3. \A a, b \in Int : b > 0 => a \div b \in Int
    OBVIOUS
  <2>4. (capacity * 375 * 7) \div (4500 * spent - 70 * capacity) \in Int
    BY <2>1, <2>2, <2>3
  <2> QED
    BY <2>4, SpendingAssumption
<1>6. daysUntilBudgetExceeded(rows, user, now) # None <=> capacity > 0 /\ Exceeds(10, rows, user, now)
  BY <1>5 DEF daysUntilBudgetExceeded
<1> QED
  BY <1>4, <1>6

\* Between two moments of the range, no expense is missing from the list.
LEMMA ListedBetween ==
  ASSUME FiguresInv, NEW range \in Ranges, Aligned(Expenses(rows)), now <= range.end,
         NEW from \in Int, range.start <= from, NEW to \in Int, to <= now
  PROVE  LET listed == findMany(rows, range, 0)
         IN  /\ Between(Expenses(listed), from, to) = Between(Expenses(rows), from, to)
             /\ Between(Discretionary(listed), from, to) = Between(Discretionary(rows), from, to)
<1> DEFINE listed == findMany(rows, range, 0)
<1>1. now \in Int
  BY DEF FiguresInv, Tables, Now, At
<1>2. range.start \in Int /\ range.end \in Int
  BY FiltersAre
<1>3. listed \in SUBSET rows
  BY DEF findMany
<1>4. ASSUME NEW row \in Expenses(rows), from <= row.date, row.date <= to PROVE row \in listed
  <2>1. row \in rows /\ row.date \in Int /\ ~row.primary
    BY <1>4 DEF FiguresInv, Tables, Rows, TypedRow, Expenses
  <2>2. DateThatCounts(row) = row.date
    BY <1>4 DEF Aligned
  <2>3. /\ resolvePeriodBoundaries(range, 0).from = startOfDay(range.start)
        /\ resolvePeriodBoundaries(range, 0).to = endOfDay(range.end)
        /\ startOfDay(range.start) <= range.start /\ range.end <= endOfDay(range.end)
        /\ startOfDay(range.start) \in Int /\ endOfDay(range.end) \in Int
    BY <1>2, SpendingAssumption DEF resolvePeriodBoundaries, startOfDay, endOfDay, Day
  <2>4. startOfDay(range.start) <= row.date /\ row.date <= endOfDay(range.end)
    BY <1>1, <1>2, <1>4, <2>1, <2>3
  <2>5. InPeriod(row.date, resolvePeriodBoundaries(range, 0))
    BY <2>3, <2>4 DEF InPeriod
  <2>6. Matches(row, range)
    BY <2>1, FiltersAre DEF Matches
  <2> QED
    BY <2>1, <2>2, <2>5, <2>6, FiltersAre DEF findMany
<1> HIDE DEF listed
<1>5. Between(Expenses(listed), from, to) = Between(Expenses(rows), from, to)
  BY <1>3, <1>4 DEF Between, Expenses
<1>6. Between(Discretionary(listed), from, to) = Between(Discretionary(rows), from, to)
  BY <1>3, <1>4 DEF Between, Discretionary, Expenses
<1> QED
  BY <1>5, <1>6 DEF listed

\* The rates of the rows of a range, from those of all rows.
LEMMA RatesOfRange ==
  ASSUME FiguresInv, NEW range \in Ranges, Aligned(Expenses(rows)), now <= range.end
  PROVE  LET listed == findMany(rows, range, 0)
             month == MonthOf[Day(now)]
         IN  /\ range.start <= now - 7 * 24 => burnRateStatus(listed, user, now) = burnRateStatus(rows, user, now)
             /\ range.start <= 24 * FirstDay[month - 1] => velocityStatus(listed, now) = velocityStatus(rows, now)
             /\ range.start >= 24 * FirstDay[month] => velocityStatus(listed, now) = "ON_TRACK"
<1> DEFINE listed == findMany(rows, range, 0)
           month == MonthOf[Day(now)]
           until == 24 * (FirstDay[month - 1] + DaysIn(month - 1) - 1)
<1>1. now = 12272 /\ Day(now) = 511
  BY DEF FiguresInv, Tables, Now, At, Day
<1>2. month = 16
  BY <1>1, DaysOfMay
<1>3. FirstDay[month] = 486 /\ FirstDay[month - 1] = 456 /\ DaysIn(month - 1) = 30 /\ until = 24 * 485
  BY <1>2, MonthsAre
<1>4. range.start \in Int /\ range.end \in Int
  BY FiltersAre
<1> HIDE DEF listed
<1>5. ASSUME range.start <= now - 7 * 24
      PROVE  burnRateStatus(listed, user, now) = burnRateStatus(rows, user, now)
  <2>1. now - 7 * 24 \in Int /\ now \in Int /\ now <= now
    BY <1>1
  <2>2. Between(Discretionary(listed), now - 7 * 24, now) = Between(Discretionary(rows), now - 7 * 24, now)
    BY <1>5, <2>1, ListedBetween DEF listed
  <2>3. weeklySpending(listed, now) = weeklySpending(rows, now)
    BY <2>2 DEF weeklySpending
  <2> QED
    BY <2>3 DEF burnRateStatus, Exceeds
<1>6. ASSUME range.start <= 24 * FirstDay[month - 1]
      PROVE  velocityStatus(listed, now) = velocityStatus(rows, now)
  <2>1. range.start <= 24 * 486 /\ range.start <= 24 * 456 /\ now <= now /\ 24 * 485 <= now /\ now \in Int
    BY <1>1, <1>3, <1>4, <1>6
  <2>2. Between(Expenses(listed), 24 * 486, now) = Between(Expenses(rows), 24 * 486, now)
    BY <2>1, ListedBetween DEF listed
  <2>3. Between(Expenses(listed), 24 * 456, 24 * 485) = Between(Expenses(rows), 24 * 456, 24 * 485)
    BY <2>1, ListedBetween DEF listed
  <2>4. SpentThisMonth(listed, now) = SpentThisMonth(rows, now)
    BY <1>3, <2>2 DEF SpentThisMonth
  <2>5. SpentLastMonth(listed, now) = SpentLastMonth(rows, now)
    BY <1>3, <2>3 DEF SpentLastMonth
  <2> QED
    BY <2>4, <2>5 DEF velocityStatus, Outruns
<1>7. ASSUME range.start >= 24 * FirstDay[month] PROVE velocityStatus(listed, now) = "ON_TRACK"
  <2>1. range.start >= 24 * 486
    BY <1>3, <1>7
  <2>2. ASSUME NEW row \in Expenses(listed) PROVE ~(24 * 456 <= row.date /\ row.date <= 24 * 485)
    <3>1. row \in listed /\ row \in rows /\ row.date \in Int /\ row \in Expenses(rows)
      BY <2>2 DEF listed, findMany, Expenses, FiguresInv, Tables, Rows, TypedRow
    <3>2. DateThatCounts(row) = row.date
      BY <3>1 DEF Aligned
    <3>3. InPeriod(row.date, resolvePeriodBoundaries(range, 0))
      BY <1>4, <3>1, <3>2, SpendingAssumption DEF listed, findMany
    <3>4. resolvePeriodBoundaries(range, 0).from = startOfDay(range.start) /\ startOfDay(range.start) \in Int
          /\ 24 * 486 <= startOfDay(range.start)
      BY <1>4, <2>1, SpendingAssumption DEF resolvePeriodBoundaries, startOfDay, Day
    <3>5. startOfDay(range.start) <= row.date
      BY <3>3, <3>4, SpendingAssumption DEF InPeriod
    <3> QED
      BY <3>1, <3>4, <3>5
  <2>3. Between(Expenses(listed), 24 * 456, 24 * 485) = {}
    BY <2>2 DEF Between
  <2>4. SpentLastMonth(listed, now) = 0
    BY <1>3, <2>3, TotalOfNone DEF SpentLastMonth
  <2> QED
    BY <2>4 DEF velocityStatus
<1> QED
  BY <1>5, <1>6, <1>7 DEF listed

LEMMA RatesHold == ASSUME FiguresInv PROVE RatesAgree
<1>1. ASSUME NEW range \in {r \in Ranges : r.end >= now /\ Aligned(Expenses(rows))},
             NEW analytics, analytics = getAnalytics(rows, range, user, now)
      PROVE  /\ range.start <= now - 7 * 24 => analytics.burnRateStatus = burnRateStatus(rows, user, now)
             /\ range.start <= 24 * FirstDay[MonthOf[Day(now)] - 1] =>
                   analytics.spendingVelocity = velocityStatus(rows, now)
             /\ range.start >= 24 * FirstDay[MonthOf[Day(now)]] => analytics.spendingVelocity = "ON_TRACK"
  <2>1. range \in Ranges /\ Aligned(Expenses(rows)) /\ now <= range.end
    <3>1. now \in Int /\ range.end \in Int
      BY FiltersAre DEF FiguresInv, Tables, Now, At
    <3> QED
      BY <3>1
  <2>2. /\ analytics.spendingVelocity = velocityStatus(findMany(rows, range, 0), now)
        /\ analytics.burnRateStatus = burnRateStatus(findMany(rows, range, 0), user, now)
    BY <1>1, <2>1, AnalyticsOf
  <2> QED
    BY <2>1, <2>2, RatesOfRange
<1> QED
  BY <1>1, BurnRateAgrees DEF RatesAgree

\* The points of every trend and the parts of every split add up to what was
\* spent, and the rates are those of the user (getAnalytics, calculateTrends,
\* getDayTimePatterns, getDiscretionaryBreakdown, calculateDailyBurnRate).
THEOREM SpendingTold == Spec => []SpendingAgrees
<1>1. FiguresInv => SpendingAgrees
  BY TrendsHold, SplitsHold, RatesHold DEF SpendingAgrees
<1> QED
  BY <1>1, TablesHold, PTL

-------------------------------------------------------------------------------
(* The occurrences of bills.                                                  *)

\* The period of the day ends on the day before the pay date.
LEMMA PeriodOfUser ==
  ASSUME FiguresInv
  PROVE  /\ user.nextPayDate = 516 /\ user.nextPayDate # NoDate
         /\ CurrentPeriod(user).start \in {509, 502, 485} /\ CurrentPeriod(user).end = 515
<1>1. user.nextPayDate = 516 /\ user.frequency \in Frequencies
  BY DEF FiguresInv, Tables, Users, NextPay
<1>2. user.nextPayDate # NoDate
  BY <1>1, SpendingAssumption
<1>3. CurrentPeriod(user) = [start |-> calculatePreviousPayDate(516, user.frequency), end |-> 515]
  BY <1>1 DEF CurrentPeriod, calculatePayPeriodBoundaries
<1>4. CASE user.frequency = "WEEKLY"
  <2>1. calculatePreviousPayDate(516, user.frequency) = 509
    BY <1>4 DEF calculatePreviousPayDate
  <2> QED
    BY <1>1, <1>2, <1>3, <2>1
<1>5. CASE user.frequency = "FORTNIGHTLY"
  <2>1. calculatePreviousPayDate(516, user.frequency) = 502
    BY <1>5 DEF calculatePreviousPayDate
  <2> QED
    BY <1>1, <1>2, <1>3, <2>1
<1>6. CASE user.frequency = "MONTHLY"
  <2>1. MonthOf[516] = 16
    BY DaysOfMay
  <2>2. DayOfMonth(516) = 31
    BY <2>1, MonthsAre DEF DayOfMonth
  <2>3. AddMonths(516, -1) = 485
    BY <2>1, <2>2, MonthsAre DEF AddMonths
  <2>4. calculatePreviousPayDate(516, user.frequency) = 485
    BY <1>6, <2>3 DEF calculatePreviousPayDate
  <2> QED
    BY <1>1, <1>2, <1>3, <2>4
<1> QED
  BY <1>1, <1>4, <1>5, <1>6 DEF Frequencies

-------------------------------------------------------------------------------
(* Goals.                                                                     *)

\* The savings goals of the model.
LEMMA SavingsAre ==
  ASSUME NEW goal \in SavingsGoals
  PROVE  /\ goal.active /\ (goal.completed <=> goal.current >= goal.target)
         /\ goal.current \in 0 .. 5 /\ goal.target = 4 /\ goal.targetDate \in {NoDate} \union GoalDates
<1>1. PICK current \in 0 .. 5, date \in {NoDate} \union GoalDates :
          goal = SavingsGoal(current, date)
  BY DEF SavingsGoals
<1>2. goal.active
  BY <1>1, Zenon DEF SavingsGoal
<1>3. goal.completed <=> current >= 4
  BY <1>1, Zenon DEF SavingsGoal
<1>4. goal.current = current /\ goal.target = 4 /\ goal.targetDate = date
  BY <1>1, Zenon DEF SavingsGoal
<1> QED
  BY <1>2, <1>3, <1>4

\* A goal that has its amount is completed, so the flags and the amounts tell the same.
LEMMA SummariesAre == SummariesAgree
<1> SUFFICES ASSUME NEW goals \in SUBSET {goal \in SavingsGoals : goal.targetDate = NoDate}
             PROVE  getGoalsSummary(goals) = getOverallAnalytics(goals)
  BY DEF SummariesAgree
<1>1. \A goal \in goals : goal.active /\ (goal.completed <=> goal.current >= goal.target)
  BY SavingsAre
<1>2. {goal \in goals : goal.active} = goals
  BY <1>1
<1>3. {goal \in goals : ~goal.completed} = {goal \in goals : ~(goal.current >= goal.target)}
  BY <1>1
<1>4. {goal \in goals : goal.completed} = {goal \in goals : goal.current >= goal.target}
  BY <1>1
<1> QED
  BY <1>2, <1>3, <1>4, Zenon DEF getGoalsSummary, getOverallAnalytics, Tally

LEMMA MinIs == ASSUME NEW S \in SUBSET Nat, S # {} PROVE Min(S) \in S /\ \A x \in S : Min(S) <= x
<1>1. \E x \in S : \A y \in S : x <= y
  BY SmallestNumber
<1> QED
  BY <1>1 DEF Min

LEMMA MaxIs ==
  ASSUME NEW S \in SUBSET Nat, S # {}, NEW top \in Nat, \A x \in S : x <= top
  PROVE  Max(S) \in S /\ \A x \in S : x <= Max(S)
<1> DEFINE T == {top - x : x \in S}
<1>1. T \in SUBSET Nat /\ T # {}
  <2>1. \A x \in S : top - x \in Nat
    OBVIOUS
  <2>2. PICK x \in S : TRUE
    OBVIOUS
  <2>3. top - x \in T
    OBVIOUS
  <2> QED
    BY <2>1, <2>3
<1>2. PICK n \in T : \A m \in T : n <= m
  <2> HIDE DEF T
  <2> QED
    BY <1>1, SmallestNumber
<1>3. PICK x \in S : n = top - x
  BY <1>2
<1>4. \A y \in S : x >= y
  <2> TAKE y \in S
  <2>1. top - y \in T
    OBVIOUS
  <2>2. n <= top - y
    BY <1>2, <2>1
  <2> QED
    BY <1>3, <2>2
<1> QED
  BY <1>3, <1>4 DEF Max

\* The days that the goals are about, and their months.
LEMMA GoalDays ==
  /\ MonthOf[455] = 14 /\ MonthOf[470] = 15 /\ MonthOf[485] = 15 /\ MonthOf[510] = 16 /\ MonthOf[511] = 16
  /\ MonthOf[530] = 17 /\ MonthOf[542] = 17 /\ MonthOf[574] = 18
  /\ Day(At(455)) = 455 /\ Day(At(470)) = 470 /\ Day(At(485)) = 485 /\ Day(At(510)) = 510
  /\ Day(At(530)) = 530 /\ Day(At(542)) = 542 /\ Day(At(542) + 9) = 542 /\ Day(At(574)) = 574
<1>1. 14 \in 0 .. Months /\ 15 \in 0 .. Months /\ 16 \in 0 .. Months /\ 17 \in 0 .. Months /\ 18 \in 0 .. Months
  BY MonthsAre
<1>2. MonthOf[455] = 14 /\ MonthOf[470] = 15 /\ MonthOf[485] = 15 /\ MonthOf[510] = 16
  BY <1>1, MonthsAre, DaysOfMonth
<1>3. MonthOf[511] = 16 /\ MonthOf[530] = 17 /\ MonthOf[542] = 17 /\ MonthOf[574] = 18
  BY <1>1, MonthsAre, DaysOfMonth
<1>4. Day(At(455)) = 455 /\ Day(At(470)) = 470 /\ Day(At(485)) = 485 /\ Day(At(510)) = 510
  BY DEF Day, At
<1>5. Day(At(530)) = 530 /\ Day(At(542)) = 542 /\ Day(At(542) + 9) = 542 /\ Day(At(574)) = 574
  BY DEF Day, At
<1> QED
  BY <1>2, <1>3, <1>4, <1>5

\* The whole months to each date, to the hour.
LEMMA MonthsToGo ==
  ASSUME now = Now
  PROVE  /\ differenceInMonths(At(470), now) = -1 /\ differenceInMonths(At(530), now) = 0
         /\ differenceInMonths(At(542), now) = 0 /\ differenceInMonths(At(542) + 9, now) = 1
         /\ differenceInMonths(At(574), now) = 2
<1>1. now = 24 * 511 + 8 /\ Day(now) = 511
  BY DEF Now, At, Day
<1>2. /\ DayOfMonth(470) = 15 /\ DayOfMonth(530) = 14 /\ DayOfMonth(542) = 26 /\ DayOfMonth(574) = 28
  BY GoalDays, MonthsAre DEF DayOfMonth
<1>3. /\ SetMonth(470, 1) = 500 /\ SetMonth(530, -1) = 499 /\ SetMonth(542, -1) = 511 /\ SetMonth(574, -2) = 513
  BY <1>2, GoalDays, MonthsAre DEF SetMonth
<1>4. Hour(At(470)) = 0 /\ Hour(At(530)) = 0 /\ Hour(At(542)) = 0 /\ Hour(At(542) + 9) = 9 /\ Hour(At(574)) = 0
  BY DEF Hour, At
<1>5. DaysIn(17) = 30 /\ MonthOf[511] = 16
  BY MonthsAre, GoalDays
<1>6. differenceInMonths(At(470), now) = -1
  BY <1>1, <1>2, <1>3, <1>4, <1>5, GoalDays DEF differenceInMonths, At
<1>7. differenceInMonths(At(530), now) = 0
  BY <1>1, <1>2, <1>3, <1>4, <1>5, GoalDays DEF differenceInMonths, At
<1>8. differenceInMonths(At(542), now) = 0
  BY <1>1, <1>2, <1>3, <1>4, <1>5, GoalDays DEF differenceInMonths, At
<1>9. differenceInMonths(At(542) + 9, now) = 1
  BY <1>1, <1>2, <1>3, <1>4, <1>5, GoalDays DEF differenceInMonths, At
<1>10. differenceInMonths(At(574), now) = 2
  BY <1>1, <1>2, <1>3, <1>4, <1>5, GoalDays DEF differenceInMonths, At
<1> QED
  BY <1>6, <1>7, <1>8, <1>9, <1>10

\* A quotient that is rounded up is at most m exactly when the exact one is.
LEMMA RoundedUp ==
  ASSUME NEW n \in Int, NEW d \in Nat, d > 0, NEW m \in Int
  PROVE  -((-n) \div d) <= m <=> n <= m * d
<1> DEFINE q == (-n) \div d
<1>1. q \in Int /\ d * q <= -n /\ -n < d * q + d
  OBVIOUS
<1> HIDE DEF q
<1>2. ASSUME -q <= m PROVE n <= m * d
  <2>1. PICK k \in Nat : m = k - q
    <3>1. m + q \in Nat /\ m = (m + q) - q
      BY <1>1, <1>2
    <3> QED
      BY <3>1
  <2>2. m * d = k * d - d * q /\ k * d \in Nat
    BY <1>1, <2>1
  <2> QED
    BY <1>1, <2>2
<1>3. ASSUME ~(-q <= m) PROVE ~(n <= m * d)
  <2>1. PICK k \in Nat : m = -q - 1 - k
    <3>1. -q - 1 - m \in Nat /\ m = -q - 1 - (-q - 1 - m)
      BY <1>1, <1>3
    <3> QED
      BY <3>1
  <2>2. m * d = -(d * q) - d - k * d /\ k * d \in Nat
    BY <1>1, <2>1
  <2> QED
    BY <1>1, <2>2
<1> QED
  BY <1>2, <1>3 DEF q

\* What was contributed to a goal.
LEMMA MadeIs ==
  ASSUME FiguresInv, NEW goal
  PROVE  /\ IsFiniteSet(Of(goal, contributions)) /\ Priced(Of(goal, contributions))
         /\ \A c \in Of(goal, contributions) : c.amount \in {1, 2} /\ c.date \in {At(455), At(485), At(510)}
<1>1. Contributed(contributions) /\ Of(goal, contributions) \in SUBSET contributions
  BY DEF FiguresInv, Tables, Of
<1>2. \A c \in contributions : c.amount \in {1, 2} /\ c.date \in {At(455), At(485), At(510)}
  BY <1>1 DEF Contributed, TypedContribution
<1>3. IsFiniteSet(Of(goal, contributions))
  BY <1>1, FS_Subset DEF Contributed
<1> QED
  BY <1>1, <1>2, <1>3 DEF Priced

\* The amount a month: all that was contributed, and at least one month.
LEMMA AverageIs ==
  ASSUME FiguresInv, NEW goal, Of(goal, contributions) # {}
  PROVE  LET average == calculateAverageMonthlyContribution(Of(goal, contributions))
         IN  /\ average = <<average[1], average[2]>> /\ average[1] = Total(Of(goal, contributions))
             /\ average[1] \in Nat /\ average[1] > 0 /\ average[2] \in Nat /\ average[2] > 0
<1> DEFINE made == Of(goal, contributions)
           dates == {c.date : c \in made}
           months == differenceInMonths(Max(dates), Min(dates)) + 1
           average == calculateAverageMonthlyContribution(made)
<1>1. IsFiniteSet(made) /\ Priced(made) /\ \A c \in made : c.amount \in {1, 2} /\ c.date \in {At(455), At(485), At(510)}
  BY MadeIs
<1>2. average = <<Total(made), Max({1, months})>>
  BY DEF calculateAverageMonthlyContribution
<1>3. dates \in SUBSET {At(455), At(485), At(510)} /\ dates # {}
  BY <1>1
<1>4. Max(dates) \in {At(455), At(485), At(510)} /\ Min(dates) \in {At(455), At(485), At(510)}
  <2> HIDE DEF dates
  <2>1. dates \in SUBSET Nat /\ \A date \in dates : date <= At(510)
    BY <1>3 DEF At
  <2>2. Max(dates) \in dates
    <3>1. At(510) \in Nat
      BY DEF At
    <3> QED
      BY <1>3, <2>1, <3>1, MaxIs
  <2>3. Min(dates) \in dates
    BY <1>3, <2>1, MinIs
  <2> QED
    BY <1>3, <2>2, <2>3
<1> HIDE DEF dates
<1>5. months \in Int
  <2>1. ASSUME NEW later \in {At(455), At(485), At(510)}, NEW earlier \in {At(455), At(485), At(510)}
        PROVE  differenceInMonths(later, earlier) \in Int
    <3>1. MonthOf[Day(later)] \in Int /\ MonthOf[Day(earlier)] \in Int
      BY GoalDays
    <3> DEFINE sign == IF later >= earlier THEN 1 ELSE -1
               apart == sign * (MonthOf[Day(later)] - MonthOf[Day(earlier)])
    <3>2. sign \in {1, -1} /\ apart \in Int
      BY <3>1
    <3>3. differenceInMonths(later, earlier) = sign * apart \/ differenceInMonths(later, earlier) = sign * (apart - 1)
      BY DEF differenceInMonths
    <3> HIDE DEF sign, apart
    <3> QED
      BY <3>2, <3>3
  <2> QED
    BY <1>4, <2>1
<1> HIDE DEF months
<1>6. Max({1, months}) \in Nat /\ Max({1, months}) > 0
  <2>1. Max({1, months}) = IF 1 >= months THEN 1 ELSE months
    BY <1>5, MaxOfTwo
  <2> QED
    BY <1>5, <2>1
<1>7. Total(made) \in Nat /\ Total(made) > 0
  <2> HIDE DEF made
  <2>1. PICK c \in made : TRUE
    <3>1. made # {}
      BY DEF made
    <3> QED
      BY <3>1
  <2>2. \A row \in made : row.amount \in Nat
    BY <1>1
  <2>3. Total({c}) <= Total(made) /\ Total(made) \in Nat
    <3>1. {c} \in SUBSET made
      BY <2>1
    <3> QED
      BY <1>1, <2>2, <3>1, SmallerTotal, TotalNat
  <2>4. Total({c}) = c.amount
    <3> DEFINE f == [row \in {c} |-> row.amount]
    <3>1. Total({c}) = SumFunctionOnSet(f, {c})
      BY DEF Total, SumFunction
    <3>2. f[c] = c.amount /\ f[c] \in Int
      BY <1>1, <2>1
    <3> HIDE DEF f
    <3> QED
      BY <3>1, <3>2, SumOfOne
  <2> QED
    BY <1>1, <2>1, <2>3, <2>4
<1> QED
  BY <1>2, <1>6, <1>7

\* An amount a month is enough exactly when the months it takes are not too many.
LEMMA OnTrack ==
  ASSUME NEW current \in 0 .. 5, NEW sum \in Nat, sum > 0, NEW k \in Nat, k > 0, NEW months \in {1, 2},
         NEW remaining, remaining = IF 0 >= 4 - current THEN 0 ELSE 4 - current
  PROVE  (remaining = 0 \/ sum * months >= remaining * k) <=> -((-(4 - current) * k) \div sum) <= months
<1> DEFINE n == (4 - current) * k
<1>1. n \in Int /\ -(4 - current) * k = -n
  <2>1. current = 0 \/ current = 1 \/ current = 2 \/ current = 3 \/ current = 4 \/ current = 5
    OBVIOUS
  <2> QED
    BY <2>1
<1>2. -((-n) \div sum) <= months <=> n <= months * sum
  <2> HIDE DEF n
  <2> QED
    BY <1>1, RoundedUp
<1>3. months * sum \in Nat /\ months * sum = sum * months
  OBVIOUS
<1>4. CASE current < 4
  BY <1>1, <1>2, <1>3, <1>4
<1>5. CASE current \in {4, 5}
  <2>1. n <= 0
    BY <1>5
  <2> QED
    BY <1>1, <1>2, <1>3, <1>5, <2>1
<1> QED
  BY <1>4, <1>5

\* What was contributed is the same by kind, and in the last month to now.
LEMMA ContributedAgrees ==
  ASSUME FiguresInv, NEW goal
  PROVE  LET made == Of(goal, contributions)
             progress == calculateMonthlyProgress(made)
         IN  /\ SumFunction(calculateContributionSources(made)) = Total(made)
             /\ made # {} => progress[Max(DOMAIN progress)].cumulativeAmount = Total(made)
<1> DEFINE made == Of(goal, contributions)
           types == {c.type : c \in made}
           type == [c \in made |-> c.type]
           sources == calculateContributionSources(made)
           progress == calculateMonthlyProgress(made)
           months == {MonthOf[Day(c.date)] : c \in made}
<1>1. IsFiniteSet(made) /\ Priced(made) /\ \A c \in made : c.date \in {At(455), At(485), At(510)}
  BY MadeIs
<1>2. SumFunction(sources) = Total(made)
  <2>1. IsFiniteSet(types)
    <3>1. types = {type[c] : c \in made} /\ DOMAIN type = made
      OBVIOUS
    <3> HIDE DEF types, type, made
    <3> QED
      BY <1>1, <3>1, FiniteKeys
  <2>2. \A c \in made : type[c] \in types
    OBVIOUS
  <2>3. DOMAIN sources = types
    BY DEF calculateContributionSources
  <2>4. \A t \in types : sources[t] = Total({c \in made : type[c] = t})
    <3> TAKE t \in types
    <3>1. sources[t] = Total({c \in made : c.type = t})
      BY DEF calculateContributionSources
    <3>2. {c \in made : c.type = t} = {c \in made : type[c] = t}
      OBVIOUS
    <3> QED
      BY <3>1, <3>2
  <2> HIDE DEF types, type, sources, made
  <2> QED
    BY <1>1, <2>1, <2>2, <2>3, <2>4, PartsAddUp
<1>3. ASSUME made # {} PROVE progress[Max(DOMAIN progress)].cumulativeAmount = Total(made)
  <2>1. \A c \in made : MonthOf[Day(c.date)] \in {14, 15, 16}
    BY <1>1, GoalDays
  <2>2. months \in SUBSET {14, 15, 16} /\ months # {} /\ \A c \in made : MonthOf[Day(c.date)] \in months
    BY <1>3, <2>1
  <2>3. Max(months) \in months /\ \A month \in months : month <= Max(months)
    <3> HIDE DEF months
    <3>1. months \in SUBSET Nat /\ \A month \in months : month <= 16
      BY <2>2
    <3> QED
      BY <2>2, <3>1, MaxIs
  <2>4. {c \in made : MonthOf[Day(c.date)] <= Max(months)} = made
    BY <2>2, <2>3
  <2>5. DOMAIN progress = months
    BY DEF calculateMonthlyProgress
  <2>6. progress[Max(months)].cumulativeAmount = Total({c \in made : MonthOf[Day(c.date)] <= Max(months)})
    BY <2>3 DEF calculateMonthlyProgress
  <2> QED
    BY <2>4, <2>5, <2>6
<1> QED
  BY <1>2, <1>3

\* Of a goal with a date: the amount a month of the list and of the analytics, and
\* the two ways to tell whether it is on track.
LEMMA DatedGoalAgrees ==
  ASSUME FiguresInv, NEW goal \in SavingsGoals, goal.targetDate # NoDate
  PROVE  LET analytics == getGoalAnalytics(goal, contributions, now)
             listed == transformGoalToResponse(goal, contributions, now)
             left == differenceInMonths(goal.targetDate, now)
         IN  /\ listed.requiredMonthlyContribution =
                    IF left >= 1 THEN analytics.requiredMonthlyContribution ELSE NoFraction
             /\ Of(goal, contributions) # {} =>
                   (analytics.isOnTrack <=> analytics.projectedCompletion <= Max({1, left}))
<1> DEFINE made == Of(goal, contributions)
           analytics == getGoalAnalytics(goal, contributions, now)
           listed == transformGoalToResponse(goal, contributions, now)
           left == differenceInMonths(goal.targetDate, now)
           months == Max({1, left})
           average == calculateAverageMonthlyContribution(made)
           remaining == IF 0 >= 4 - goal.current THEN 0 ELSE 4 - goal.current
<1>1. goal.current \in 0 .. 5 /\ goal.target = 4 /\ goal.targetDate \in GoalDates
  BY SavingsAre
<1>2. left \in {-1, 0, 1, 2}
  <2>1. now = Now
    BY DEF FiguresInv, Tables
  <2> QED
    BY <1>1, <2>1, MonthsToGo DEF GoalDates
<1> HIDE DEF left
<1>3. Max({0, goal.target - goal.current}) = remaining
  BY <1>1, MaxOfTwo
<1>4. months \in {1, 2} /\ (left >= 1 => months = left)
  BY <1>2, MaxOfTwo
<1>5. remaining = IF 0 >= 4 - goal.current THEN 0 ELSE 4 - goal.current
  OBVIOUS
<1> HIDE DEF remaining, months
<1>6. analytics.requiredMonthlyContribution = <<remaining, months>>
  BY <1>3 DEF getGoalAnalytics, months, left
<1>7. listed.requiredMonthlyContribution = IF left >= 1 THEN <<remaining, months>> ELSE NoFraction
  <2>1. listed.requiredMonthlyContribution = IF left > 0 THEN <<remaining, left>> ELSE NoFraction
    BY <1>3 DEF transformGoalToResponse, left
  <2> QED
    BY <1>2, <1>4, <2>1
<1>8. ASSUME made # {} PROVE analytics.isOnTrack <=> analytics.projectedCompletion <= months
  <2>1. /\ average = <<average[1], average[2]>>
        /\ average[1] \in Nat /\ average[1] > 0 /\ average[2] \in Nat /\ average[2] > 0
    BY <1>8, AverageIs
  <2>2. analytics.projectedCompletion = calculateProjectedCompletion(goal.current, goal.target, average)
    BY DEF getGoalAnalytics
  <2>3. analytics.isOnTrack <=> remaining = 0 \/ FractionAtLeast(average, <<remaining, months>>)
    <3>1. analytics.isOnTrack <=>
             <<remaining, months>>[1] = 0 \/ FractionAtLeast(average, <<remaining, months>>)
      BY <1>3, Zenon DEF getGoalAnalytics, months, left
    <3> QED
      BY <3>1
  <2> HIDE DEF average, analytics
  <2>4. FractionAtLeast(average, <<remaining, months>>) <=> average[1] * months >= remaining * average[2]
    BY DEF FractionAtLeast
  <2>5. analytics.projectedCompletion = -((-(4 - goal.current) * average[2]) \div average[1])
    BY <1>1, <2>1, <2>2 DEF calculateProjectedCompletion
  <2>6. (remaining = 0 \/ average[1] * months >= remaining * average[2])
            <=> -((-(4 - goal.current) * average[2]) \div average[1]) <= months
    <3> DEFINE current == goal.current
               sum == average[1]
               k == average[2]
    <3>1. /\ current \in 0 .. 5 /\ sum \in Nat /\ sum > 0 /\ k \in Nat /\ k > 0
          /\ remaining = IF 0 >= 4 - current THEN 0 ELSE 4 - current
      BY <1>1, <1>5, <2>1
    <3> HIDE DEF current, sum, k
    <3>2. (remaining = 0 \/ sum * months >= remaining * k) <=> -((-(4 - current) * k) \div sum) <= months
      BY <1>4, <3>1, OnTrack
    <3> QED
      BY <3>2 DEF current, sum, k
  <2> QED
    BY <2>3, <2>4, <2>5, <2>6
<1> QED
  BY <1>6, <1>7, <1>8 DEF months, left

\* A milestone that one contribution has reached is reached by all of them.
LEMMA MilestonesAgree ==
  ASSUME FiguresInv, NEW goal \in SavingsGoals, goal.current = Total(Of(goal, contributions)),
         NEW p \in {25, 50, 75, 90, 100}
  PROVE  LET milestones == calculateMilestones(goal, Of(goal, contributions))
         IN  milestones[p].achievedAt = NoDate \/ milestones[p].projectedDate = None
<1> DEFINE made == Of(goal, contributions)
           big == {c \in made : 100 * c.amount >= p * goal.target}
           large == {c.date : c \in big}
           projected == calculateProjectedCompletion(100 * goal.current, p * goal.target,
                            <<100 * Total(made), calculateAverageMonthlyContribution(made)[2]>>)
           milestones == calculateMilestones(goal, made)
<1>1. /\ milestones[p].achievedAt = IF large = {} THEN NoDate ELSE Min(large)
      /\ milestones[p].projectedDate = IF 100 * goal.current < p * goal.target THEN projected ELSE None
  BY DEF calculateMilestones
<1>2. CASE big = {}
  BY <1>1, <1>2
<1>3. CASE big # {}
  <2> HIDE DEF big, projected, milestones, made, large
  <2>1. PICK c \in made : 100 * c.amount >= p * goal.target
    BY <1>3 DEF big
  <2>2. goal.current \in 0 .. 5 /\ goal.target = 4
    BY SavingsAre
  <2>3. IsFiniteSet(made) /\ Priced(made) /\ \A row \in made : row.amount \in {1, 2}
    BY MadeIs DEF made
  <2>4. \A row \in made : row.amount \in Nat
    BY <2>3
  <2>5. {c} \in SUBSET made
    OBVIOUS
  <2>6. Total({c}) <= Total(made) /\ Total(made) = goal.current
    BY <2>3, <2>4, <2>5, SmallerTotal DEF made
  <2>7. Total({c}) = c.amount
    <3> DEFINE f == [row \in {c} |-> row.amount]
    <3>1. Total({c}) = SumFunctionOnSet(f, {c})
      BY DEF Total, SumFunction
    <3>2. f[c] = c.amount /\ f[c] \in Int
      BY <2>3
    <3> HIDE DEF f
    <3> QED
      BY <3>1, <3>2, SumOfOne
  <2>8. ~(100 * goal.current < p * goal.target)
    BY <2>1, <2>2, <2>3, <2>6, <2>7
  <2> QED
    BY <1>1, <2>8 DEF milestones, made
<1> QED
  BY <1>2, <1>3

LEMMA GoalsAre == ASSUME FiguresInv PROVE GoalsAgree
<1>1. ASSUME NEW goal \in SavingsGoals PROVE GoalAgrees(goal)
  <2> DEFINE made == Of(goal, contributions)
             analytics == getGoalAnalytics(goal, contributions, now)
             listed == transformGoalToResponse(goal, contributions, now)
             progress == analytics.monthlyProgress
             months == differenceInMonths(goal.targetDate, now)
  <2>1. /\ progress = calculateMonthlyProgress(made)
        /\ analytics.contributionSources = calculateContributionSources(made)
        /\ analytics.milestones = calculateMilestones(goal, made)
    BY DEF getGoalAnalytics
  <2>2. /\ SumFunction(analytics.contributionSources) = Total(made)
        /\ made # {} => progress[Max(DOMAIN progress)].cumulativeAmount = Total(made)
    BY <2>1, ContributedAgrees
  <2>3. goal.targetDate # NoDate =>
          /\ listed.requiredMonthlyContribution =
                IF months >= 1 THEN analytics.requiredMonthlyContribution ELSE NoFraction
          /\ made # {} => (analytics.isOnTrack <=> analytics.projectedCompletion <= Max({1, months}))
    BY DatedGoalAgrees
  <2>4. goal.current = Total(made) =>
          \A p \in DOMAIN analytics.milestones :
              \/ analytics.milestones[p].achievedAt = NoDate
              \/ analytics.milestones[p].projectedDate = None
    <3>1. DOMAIN analytics.milestones = {25, 50, 75, 90, 100}
      BY <2>1 DEF calculateMilestones
    <3> QED
      BY <2>1, <3>1, MilestonesAgree
  <2> HIDE DEF analytics, listed
  <2> QED
    BY <2>2, <2>3, <2>4, Zenon DEF GoalAgrees, analytics, listed
<1> QED
  BY <1>1, SummariesAre DEF GoalsAgree

\* What is told of a goal in four places agrees, for goals that are due in months, in
\* days, and in the past (getGoalAnalytics, transformGoalToResponse).
THEOREM GoalsTold == Spec => []GoalsAgree
<1>1. FiguresInv => GoalsAgree
  BY GoalsAre
<1> QED
  BY <1>1, TablesHold, PTL

-------------------------------------------------------------------------------
(* The income of the pay periods.                                             *)

\* The lines of the income by source are all of it, and those that are ad-hoc are
\* the ad-hoc income and what is of a source no longer there.
LEMMA LinesAddUp ==
  ASSUME NEW listed, Rows(listed), NEW found, s1 \in found, found \in SUBSET {s1, s2}
  PROVE  LET bySource == incomeBySource(listed, found)
             kinds == incomeBreakdown(listed)
         IN  /\ SumFunction(bySource) = Total(listed)
             /\ kinds.recurring + kinds.adhoc = Total(listed)
             /\ (IF "adhoc" \in DOMAIN bySource THEN bySource["adhoc"] ELSE 0)
                    = kinds.adhoc + Total({row \in listed : row.source # None /\ row.source \notin found})
<1> DEFINE bySource == incomeBySource(listed, found)
           kinds == incomeBreakdown(listed)
           lines == {LineOf(row, found) : row \in listed}
           line == [row \in listed |-> LineOf(row, found)]
           adhoc == {row \in listed : row.source = None /\ ~row.primary}
           gone == {row \in listed : row.source # None /\ row.source \notin found}
           other == {row \in listed : LineOf(row, found) = "adhoc"}
<1>1. Priced(listed) /\ IsFiniteSet(listed)
  BY DEF Rows, TypedRow, Priced
<1>2. \A row \in listed : row.primary => row.source = None
  BY DEF Rows, TypedRow
<1>3. IsFiniteSet(lines)
  <2>1. lines = {line[row] : row \in listed} /\ DOMAIN line = listed
    OBVIOUS
  <2> HIDE DEF lines, line
  <2> QED
    BY <1>1, <2>1, FiniteKeys
<1>4. DOMAIN bySource = lines /\ \A l \in lines : bySource[l] = Total({row \in listed : LineOf(row, found) = l})
  BY DEF incomeBySource
<1>5. SumFunction(bySource) = Total(listed)
  <2>1. \A row \in listed : line[row] \in lines
    OBVIOUS
  <2>2. \A l \in lines : bySource[l] = Total({row \in listed : line[row] = l})
    <3> TAKE l \in lines
    <3>1. {row \in listed : LineOf(row, found) = l} = {row \in listed : line[row] = l}
      OBVIOUS
    <3> HIDE DEF lines, line, bySource
    <3> QED
      BY <1>4, <3>1
  <2> HIDE DEF lines, line, bySource
  <2> QED
    BY <1>1, <1>3, <1>4, <2>1, <2>2, PartsAddUp
<1>6. kinds.recurring + kinds.adhoc = Total(listed)
  <2>1. kinds.recurring = Total({row \in listed : row.source # None \/ row.primary}) /\ kinds.adhoc = Total(adhoc)
    BY DEF incomeBreakdown
  <2>2. {row \in listed : row.source # None \/ row.primary} = listed \ adhoc /\ adhoc \in SUBSET listed
    OBVIOUS
  <2>3. kinds.recurring = Total(listed \ adhoc) /\ kinds.adhoc = Total(adhoc)
    BY <2>1, <2>2, Zenon
  <2> HIDE DEF adhoc, kinds
  <2>4. Total(listed) = Total(adhoc) + Total(listed \ adhoc)
    BY <1>1, <2>2, TotalOfSplit
  <2>5. Total(adhoc) \in Int /\ Total(listed \ adhoc) \in Int
    <3>1. listed \ adhoc \in SUBSET listed
      OBVIOUS
    <3> QED
      BY <1>1, <2>2, <3>1, PricedPart, TotalInt
  <2> QED
    BY <2>3, <2>4, <2>5
<1>7. other = adhoc \union gone /\ adhoc \intersect gone = {}
  <2>1. None \notin found /\ "adhoc" \notin found
    BY FiguresAssumption
  <2>2. \A row \in listed : LineOf(row, found) = "adhoc" <=> ~row.primary /\ row.source \notin found
    BY <2>1 DEF LineOf
  <2> QED
    BY <1>2, <2>1, <2>2
<1>8. (IF "adhoc" \in DOMAIN bySource THEN bySource["adhoc"] ELSE 0) = Total(other)
  <2>1. CASE "adhoc" \in lines
    <3> HIDE DEF lines, bySource
    <3> QED
      BY <1>4, <2>1
  <2>2. CASE "adhoc" \notin lines
    <3>1. other = {}
      BY <2>2
    <3> HIDE DEF lines, bySource, other
    <3> QED
      BY <1>4, <2>2, <3>1, TotalOfNone
  <2> QED
    BY <2>1, <2>2
<1>9. Total(other) = kinds.adhoc + Total(gone)
  <2>1. other \in SUBSET listed /\ kinds.adhoc = Total(adhoc)
    BY DEF incomeBreakdown
  <2> HIDE DEF other, adhoc, gone, kinds
  <2>2. Priced(other)
    BY <1>1, <2>1, PricedPart
  <2> QED
    BY <1>7, <2>1, <2>2, TotalOfTwo
<1> QED
  BY <1>5, <1>6, <1>8, <1>9

\* The pay dates going back are given by any function that goes back like them.
LEMMA PayDatesBackAre ==
  ASSUME NEW who, NEW last \in Nat, maxPeriods(who.frequency) + 1 = last,
         NEW w \in [1 .. last -> Int],
         \A i \in 1 .. last :
            w[i] = IF i = 1 THEN who.nextPayDate ELSE calculatePreviousPayDate(w[i - 1], who.frequency)
  PROVE  PayDatesBack(who) = w
<1> DEFINE Solves(c) == c = [i \in 1 .. last |->
                IF i = 1 THEN who.nextPayDate ELSE calculatePreviousPayDate(c[i - 1], who.frequency)]
           c == PayDatesBack(who)
<1>1. c = CHOOSE f : Solves(f)
  BY DEF PayDatesBack
<1>2. \E f : Solves(f)
  <2> DEFINE v == [i \in 1 .. last |-> w[i]]
  <2>1. \A i \in 1 .. last :
           v[i] = IF i = 1 THEN who.nextPayDate ELSE calculatePreviousPayDate(v[i - 1], who.frequency)
    <3> TAKE i \in 1 .. last
    <3>1. i # 1 => i - 1 \in 1 .. last
      OBVIOUS
    <3> QED
      BY <3>1
  <2>2. v = [i \in 1 .. last |-> v[i]]
    OBVIOUS
  <2> HIDE DEF v
  <2>3. Solves(v)
    BY <2>1, <2>2
  <2> QED
    BY <2>3
<1>3. Solves(c)
  <2> HIDE DEF Solves, c
  <2> QED
    BY <1>1, <1>2
<1> HIDE DEF c
<1>4. DOMAIN c = 1 .. last /\ c = [i \in 1 .. last |-> c[i]]
  BY <1>3
<1>5. \A i \in 1 .. last : c[i] = IF i = 1 THEN who.nextPayDate ELSE calculatePreviousPayDate(c[i - 1], who.frequency)
  BY <1>3
<1>6. \A i \in 1 .. last : c[i] = w[i]
  <2> DEFINE Wrong == {i \in 1 .. last : c[i] # w[i]}
  <2>1. ASSUME Wrong # {} PROVE FALSE
    <3>1. PICK i \in Wrong : \A j \in Wrong : i <= j
      <4>1. Wrong \in SUBSET Nat
        OBVIOUS
      <4> HIDE DEF Wrong
      <4> QED
        BY <2>1, <4>1, SmallestNumber
    <3>2. i \in 1 .. last /\ c[i] # w[i]
      BY <3>1
    <3>3. CASE i = 1
      BY <1>5, <3>2, <3>3
    <3>4. CASE i # 1
      <4>1. i - 1 \in 1 .. last /\ i - 1 \notin Wrong
        BY <3>1, <3>2, <3>4
      <4>2. c[i - 1] = w[i - 1]
        BY <4>1
      <4> QED
        BY <1>5, <3>2, <3>4, <4>2
    <3> QED
      BY <3>3, <3>4
  <2> QED
    BY <2>1
<1>7. c = w
  BY <1>4, <1>6
<1> QED
  BY <1>7 DEF c

\* The dates of a user paid by the month.
LastDays == <<516, 485, 454, 424, 393, 362, 332, 301, 271, 240, 209, 179, 148>>

LEMMA LastDaysAre ==
  /\ DOMAIN LastDays = 1 .. 13
  /\ \A i \in 1 .. 13 :
        LastDays[i] = IF i = 1 THEN 516 ELSE calculatePreviousPayDate(LastDays[i - 1], "MONTHLY")
<1>1. \A day \in Int : calculatePreviousPayDate(day, "MONTHLY") = AddMonths(day, -1)
  BY DEF calculatePreviousPayDate
<1>2. ASSUME NEW m \in 5 .. 16, NEW day \in Int, FirstDay[m] <= day, day < FirstDay[m] + DaysIn(m)
      PROVE  AddMonths(day, -1) =
                FirstDay[m - 1] + (IF day - FirstDay[m] + 1 > DaysIn(m - 1) THEN DaysIn(m - 1)
                                   ELSE day - FirstDay[m] + 1) - 1
  <2>1. m \in 0 .. Months
    BY MonthsAre
  <2>2. MonthOf[day] = m
    BY <1>2, <2>1, DaysOfMonth
  <2>3. MonthOf[day] + -1 = m - 1
    BY <2>2
  <2> QED
    BY <2>2, <2>3 DEF AddMonths, DayOfMonth
<1>3. AddMonths(516, -1) = 485 /\ AddMonths(485, -1) = 454 /\ AddMonths(454, -1) = 424
  BY <1>2, MonthsAre
<1>4. AddMonths(424, -1) = 393 /\ AddMonths(393, -1) = 362 /\ AddMonths(362, -1) = 332
  BY <1>2, MonthsAre
<1>5. AddMonths(332, -1) = 301 /\ AddMonths(301, -1) = 271 /\ AddMonths(271, -1) = 240
  BY <1>2, MonthsAre
<1>6. AddMonths(240, -1) = 209 /\ AddMonths(209, -1) = 179 /\ AddMonths(179, -1) = 148
  BY <1>2, MonthsAre
<1>7. DOMAIN LastDays = 1 .. 13
  BY DEF LastDays
<1>8. /\ LastDays[1] = 516 /\ LastDays[2] = 485 /\ LastDays[3] = 454 /\ LastDays[4] = 424 /\ LastDays[5] = 393
      /\ LastDays[6] = 362 /\ LastDays[7] = 332 /\ LastDays[8] = 301 /\ LastDays[9] = 271 /\ LastDays[10] = 240
      /\ LastDays[11] = 209 /\ LastDays[12] = 179 /\ LastDays[13] = 148
  BY DEF LastDays
<1>9. ASSUME NEW i \in 1 .. 13
      PROVE  LastDays[i] = IF i = 1 THEN 516 ELSE calculatePreviousPayDate(LastDays[i - 1], "MONTHLY")
  <2>1. i \in 1 .. 5 \/ i \in 6 .. 10 \/ i \in 11 .. 13
    OBVIOUS
  <2>2. CASE i \in 1 .. 5
    <3>1. i = 1 \/ i = 2 \/ i = 3 \/ i = 4 \/ i = 5
      BY <2>2
    <3> QED
      BY <1>1, <1>3, <1>4, <1>8, <3>1
  <2>3. CASE i \in 6 .. 10
    <3>1. i = 6 \/ i = 7 \/ i = 8 \/ i = 9 \/ i = 10
      BY <2>3
    <3> QED
      BY <1>1, <1>4, <1>5, <1>6, <1>8, <3>1
  <2>4. CASE i \in 11 .. 13
    <3>1. i = 11 \/ i = 12 \/ i = 13
      BY <2>4
    <3> QED
      BY <1>1, <1>6, <1>8, <3>1
  <2> QED
    BY <2>1, <2>2, <2>3, <2>4
<1> QED
  BY <1>7, <1>9

\* The periods of the pay dates that the account has seen.
LEMMA PeriodsOfDates ==
  ASSUME FiguresInv, NEW w, PayDatesBack(user) = w,
         NEW n \in 1 .. maxPeriods(user.frequency),
         \A i \in 1 .. maxPeriods(user.frequency) :
            w[i] \in Int /\ (w[i] >= 471 <=> i <= n) /\ calculatePreviousPayDate(w[i], user.frequency) = w[i + 1]
  PROVE  PayPeriodsBack(user) = [i \in 1 .. n |-> [start |-> w[i + 1], end |-> w[i] - 1]]
<1> DEFINE N == maxPeriods(user.frequency)
           late == {i \in 1 .. N :
                Instants(calculatePayPeriodBoundaries(w[i], user.frequency), user.offset).end >= user.createdAt}
<1>1. N \in Nat
  BY DEF maxPeriods
<1>2. user.offset \in {0, 10} /\ user.createdAt = 24 * 470
  BY DEF FiguresInv, Tables, Users, At
<1>3. \A i \in 1 .. N : calculatePayPeriodBoundaries(w[i], user.frequency) = [start |-> w[i + 1], end |-> w[i] - 1]
  BY DEF calculatePayPeriodBoundaries
<1>4. ASSUME NEW i \in 1 .. N
      PROVE  Instants(calculatePayPeriodBoundaries(w[i], user.frequency), user.offset).end >= user.createdAt <=> i <= n
  <2>1. Instants(calculatePayPeriodBoundaries(w[i], user.frequency), user.offset).end
            = 24 * (w[i] - 1) + 23 - user.offset
    <3>1. calculatePayPeriodBoundaries(w[i], user.frequency) = [start |-> w[i + 1], end |-> w[i] - 1]
      BY <1>3
    <3> QED
      BY <3>1 DEF Instants
  <2>2. w[i] \in Int /\ (w[i] >= 471 <=> i <= n)
    OBVIOUS
  <2> QED
    BY <1>2, <2>1, <2>2
<1>5. late = 1 .. n
  <2> HIDE DEF N
  <2>1. n \in 1 .. N
    BY DEF N
  <2> QED
    BY <1>1, <1>4, <2>1
<1>6. PayPeriodsBack(user) = [i \in late |-> calculatePayPeriodBoundaries(w[i], user.frequency)]
  BY DEF PayPeriodsBack
<1>7. \A i \in 1 .. n : i \in 1 .. N
  BY <1>1
<1> HIDE DEF late, N
<1> QED
  BY <1>3, <1>5, <1>6, <1>7

\* They are periods of consecutive dates, the last of them the current period's.
GoingBack(n, w) ==
    /\ \A i \in 1 .. n + 1 : w[i] \in Int
    /\ \A i, j \in 1 .. n + 1 : i < j => w[j] < w[i]
    /\ w[1] = 516
    /\ PayPeriodsBack(user) = [i \in 1 .. n |-> [start |-> w[i + 1], end |-> w[i] - 1]]

LEMMA PeriodsBackAre ==
  ASSUME FiguresInv
  PROVE  \E n \in Nat \ {0} : \E w : GoingBack(n, w)
<1>1. user.nextPayDate = 516 /\ user.frequency \in Frequencies
  BY DEF FiguresInv, Tables, Users, NextPay
<1>2. ASSUME NEW step \in {7, 14}, NEW N \in Nat, maxPeriods(user.frequency) = N,
             \A day \in Int : calculatePreviousPayDate(day, user.frequency) = day - step,
             NEW n \in 1 .. N, \A i \in 1 .. N : 516 - step * (i - 1) >= 471 <=> i <= n
      PROVE  \E m \in Nat \ {0} : \E v : GoingBack(m, v)
  <2> DEFINE last == N + 1
             w == [i \in 1 .. last |-> 516 - step * (i - 1)]
  <2>1. \A i \in 1 .. last : w[i] = 516 - step * (i - 1) /\ w[i] \in Int
    OBVIOUS
  <2>2. w[1] = 516
    BY <2>1
  <2>3. w \in [1 .. last -> Int]
    OBVIOUS
  <2> HIDE DEF w
  <2>4. \A i \in 1 .. last : i # 1 => i - 1 \in 1 .. last /\ w[i] = w[i - 1] - step
    BY <2>1
  <2>5. \A i \in 1 .. last :
           w[i] = IF i = 1 THEN user.nextPayDate ELSE calculatePreviousPayDate(w[i - 1], user.frequency)
    BY <1>1, <1>2, <2>1, <2>2, <2>4
  <2>6. last \in Nat /\ maxPeriods(user.frequency) + 1 = last
    BY <1>2
  <2>7. \A i \in 1 .. N : i \in 1 .. last /\ i + 1 \in 1 .. last /\ i + 1 # 1 /\ (i + 1) - 1 = i
    OBVIOUS
  <2>8. \A i \in 1 .. n + 1 : i \in 1 .. last
    OBVIOUS
  <2> HIDE DEF last
  <2>9. PayDatesBack(user) = w
    BY <2>3, <2>5, <2>6, PayDatesBackAre
  <2>10. \A i \in 1 .. N :
            w[i] \in Int /\ (w[i] >= 471 <=> i <= n) /\ calculatePreviousPayDate(w[i], user.frequency) = w[i + 1]
    <3> TAKE i \in 1 .. N
    <3>1. w[i] = 516 - step * (i - 1) /\ w[i] \in Int /\ w[i + 1] = w[i] - step
      <4>1. w[i + 1] = w[(i + 1) - 1] - step
        BY <2>4, <2>7
      <4> QED
        BY <2>1, <2>7, <4>1
    <3>2. w[i] >= 471 <=> i <= n
      BY <1>2, <3>1
    <3>3. calculatePreviousPayDate(w[i], user.frequency) = w[i] - step
      BY <1>2, <3>1
    <3> QED
      BY <3>1, <3>2, <3>3
  <2>11. PayPeriodsBack(user) = [i \in 1 .. n |-> [start |-> w[i + 1], end |-> w[i] - 1]]
    <3>1. n \in 1 .. maxPeriods(user.frequency) /\ \A i \in 1 .. maxPeriods(user.frequency) : i \in 1 .. N
      BY <1>2
    <3> QED
      BY <2>9, <2>10, <3>1, PeriodsOfDates
  <2>12. \A i, j \in 1 .. n + 1 : i < j => w[j] < w[i]
    <3> TAKE i, j \in 1 .. n + 1
    <3>1. w[i] = 516 - step * (i - 1) /\ w[j] = 516 - step * (j - 1)
      BY <2>1, <2>8
    <3> QED
      BY <3>1
  <2>13. n \in Nat \ {0} /\ \A i \in 1 .. n + 1 : w[i] \in Int
    BY <2>1, <2>8
  <2>14. GoingBack(n, w)
    BY <2>2, <2>11, <2>12, <2>13 DEF GoingBack
  <2> QED
    BY <2>13, <2>14
<1>3. CASE user.frequency = "WEEKLY"
  <2>1. \A day \in Int : calculatePreviousPayDate(day, user.frequency) = day - 7
    BY <1>3 DEF calculatePreviousPayDate
  <2>2. maxPeriods(user.frequency) = 52
    BY <1>3 DEF maxPeriods
  <2>3. 7 \in 1 .. 52 /\ \A i \in 1 .. 52 : 516 - 7 * (i - 1) >= 471 <=> i <= 7
    OBVIOUS
  <2> QED
    BY <1>2, <2>1, <2>2, <2>3
<1>4. CASE user.frequency = "FORTNIGHTLY"
  <2>1. \A day \in Int : calculatePreviousPayDate(day, user.frequency) = day - 14
    BY <1>4 DEF calculatePreviousPayDate
  <2>2. maxPeriods(user.frequency) = 26
    BY <1>4 DEF maxPeriods
  <2>3. 4 \in 1 .. 26 /\ \A i \in 1 .. 26 : 516 - 14 * (i - 1) >= 471 <=> i <= 4
    OBVIOUS
  <2> QED
    BY <1>2, <2>1, <2>2, <2>3
<1>5. CASE user.frequency = "MONTHLY"
  <2>1. maxPeriods(user.frequency) = 12
    BY <1>5 DEF maxPeriods
  <2>2. /\ LastDays[1] = 516 /\ LastDays[2] = 485 /\ LastDays[3] = 454
        /\ \A i \in 3 .. 13 : LastDays[i] \in Int /\ LastDays[i] < 471
    <3>1. \A i \in 3 .. 13 : i = 3 \/ i = 4 \/ i = 5 \/ i = 6 \/ i = 7 \/ i = 8 \/ i = 9 \/ i = 10 \/ i = 11 \/ i = 12 \/ i = 13
      OBVIOUS
    <3> QED
      BY <3>1 DEF LastDays
  <2>3. LastDays \in [1 .. 13 -> Int]
    <3>1. LastDays = [i \in 1 .. 13 |-> LastDays[i]]
      BY DEF LastDays
    <3>2. \A i \in 1 .. 13 : LastDays[i] \in Int
      BY <2>2
    <3> QED
      BY <3>1, <3>2
  <2>4. PayDatesBack(user) = LastDays
    <3>1. 13 \in Nat /\ maxPeriods(user.frequency) + 1 = 13
      BY <2>1
    <3>2. \A i \in 1 .. 13 : LastDays[i] =
             IF i = 1 THEN user.nextPayDate ELSE calculatePreviousPayDate(LastDays[i - 1], user.frequency)
      BY <1>1, <1>5, LastDaysAre
    <3> QED
      BY <2>3, <3>1, <3>2, PayDatesBackAre
  <2>5. \A i \in 1 .. 12 :
           /\ LastDays[i] \in Int /\ (LastDays[i] >= 471 <=> i <= 2)
           /\ calculatePreviousPayDate(LastDays[i], user.frequency) = LastDays[i + 1]
    <3> TAKE i \in 1 .. 12
    <3>1. i + 1 \in 1 .. 13 /\ i + 1 # 1 /\ (i + 1) - 1 = i
      OBVIOUS
    <3>2. calculatePreviousPayDate(LastDays[i], user.frequency) = LastDays[i + 1]
      BY <1>5, <3>1, LastDaysAre
    <3>3. i = 1 \/ i = 2 \/ i \in 3 .. 13
      OBVIOUS
    <3> QED
      BY <2>2, <3>2, <3>3
  <2>6. PayPeriodsBack(user) = [i \in 1 .. 2 |-> [start |-> LastDays[i + 1], end |-> LastDays[i] - 1]]
    <3>1. 2 \in 1 .. maxPeriods(user.frequency)
      BY <2>1
    <3> QED
      BY <2>1, <2>4, <2>5, <3>1, PeriodsOfDates
  <2>7. \A i \in 1 .. 2 + 1 : LastDays[i] \in Int
    BY <2>2
  <2>8. \A i, j \in 1 .. 2 + 1 : i < j => LastDays[j] < LastDays[i]
    <3>1. \A i \in 1 .. 2 + 1 : i = 1 \/ i = 2 \/ i = 3
      OBVIOUS
    <3> QED
      BY <2>2, <3>1
  <2>9. GoingBack(2, LastDays)
    BY <2>2, <2>6, <2>7, <2>8 DEF GoingBack
  <2>10. 2 \in Nat \ {0}
    OBVIOUS
  <2> QED
    BY <2>9, <2>10
<1> QED
  BY <1>1, <1>3, <1>4, <1>5 DEF Frequencies

\* The income asked for is all the income of its days.
LEMMA IncomeBetween ==
  ASSUME FiguresInv, NEW from \in Int, NEW to \in Int, NEW a \in Int, NEW b \in Int, from <= a, b <= to
  PROVE  Between(IncomeOf(rows, from, to), a, b) = Between(Incomes(rows), a, b)
<1> DEFINE filter == IncomeRange(from, to)
           period == resolvePeriodBoundaries(filter, 0)
<1>1. /\ filter.start = from /\ filter.end = to /\ filter.type = "INCOME"
      /\ filter.category = None /\ filter.text = None
  BY DEF IncomeRange, Dates, AnyFilter
<1>2. filter.primary
  BY DEF IncomeRange, Dates, AnyFilter
<1>3. from # NoDate /\ to # NoDate /\ None # "INCOME"
  BY SpendingAssumption
<1> HIDE DEF filter
<1>4. /\ period.from = startOfDay(from) /\ period.to = endOfDay(to)
      /\ startOfDay(from) <= from /\ to <= endOfDay(to)
      /\ startOfDay(from) \in Int /\ endOfDay(to) \in Int
  BY <1>1, <1>3 DEF resolvePeriodBoundaries, startOfDay, endOfDay, Day
<1>5. period.from # NoDate /\ period.to # NoDate
  BY <1>4, SpendingAssumption
<1> HIDE DEF period
<1>6. IncomeOf(rows, from, to) = {row \in rows : InPeriod(DateThatCounts(row), period) /\ row.type = "INCOME"}
  <2>1. \A row \in rows : Matches(row, filter) <=> row.type = "INCOME"
    BY <1>1, <1>2, <1>3 DEF Matches
  <2> QED
    BY <1>1, <1>3, <2>1 DEF IncomeOf, findMany, filter, period
<1>7. \A row \in rows : row.type = "INCOME" => row.date \in Int /\ DateThatCounts(row) = row.date
  BY DEF FiguresInv, Tables, Rows, TypedRow, DateThatCounts
<1>8. \A row \in rows :
         (InPeriod(DateThatCounts(row), period) /\ row.type = "INCOME") /\ a <= row.date /\ row.date <= b
            <=> row.type = "INCOME" /\ a <= row.date /\ row.date <= b
  BY <1>4, <1>5, <1>7 DEF InPeriod
<1> QED
  BY <1>6, <1>8 DEF Between, Incomes

\* The periods of the year share no income and lose none.
LEMMA PeriodsAddUp ==
  ASSUME FiguresInv
  PROVE  LET year == calculateHighestEarningPeriod(rows, user)
             first == Instants(PayPeriodsBack(user)[year.periodsConsidered], user.offset)
         IN  year.totalIncomeAcrossPeriods = Total(Between(Incomes(rows), first.start, Period.end))
<1>0. PICK n \in Nat \ {0} : \E w : GoingBack(n, w)
  BY PeriodsBackAre
<1>1. PICK w : GoingBack(n, w)
  BY <1>0
<1> DEFINE o == user.offset
           periods == PayPeriodsBack(user)
           From(i) == 24 * w[i + 1] - o
           To(i) == 24 * (w[i] - 1) + 23 - o
           all == Between(Incomes(rows), From(n), To(1))
           totals == periodTotals(rows, user)
<1>2. o \in Int
  BY DEF FiguresInv, Tables, Users
<1>3. /\ \A i \in 1 .. n + 1 : w[i] \in Int
      /\ \A i, j \in 1 .. n + 1 : i < j => w[j] < w[i]
      /\ w[1] = 516
      /\ periods = [i \in 1 .. n |-> [start |-> w[i + 1], end |-> w[i] - 1]]
  BY <1>1 DEF GoingBack
<1>4. /\ DOMAIN periods = 1 .. n /\ Cardinality(DOMAIN periods) = n /\ IsFiniteSet(1 .. n)
      /\ 1 \in 1 .. n /\ n \in 1 .. n
  <2>1. IsFiniteSet(1 .. n) /\ Cardinality(1 .. n) = n
    BY FS_Interval
  <2> QED
    BY <1>3, <2>1
<1>5. \A i \in 1 .. n : Instants(periods[i], o).start = From(i) /\ Instants(periods[i], o).end = To(i)
  BY <1>3 DEF Instants
<1>6. Period.end = To(1)
  <2>1. CurrentPeriod(user).end = 515
    BY PeriodOfUser
  <2> QED
    BY <1>3, <2>1 DEF Period, Instants
<1>7. \A i \in 1 .. n : /\ i \in 1 .. n + 1 /\ i + 1 \in 1 .. n + 1
                        /\ From(i) \in Int /\ To(i) \in Int /\ From(n) <= From(i) /\ To(i) <= To(1)
  <2> TAKE i \in 1 .. n
  <2>1. i \in 1 .. n + 1 /\ i + 1 \in 1 .. n + 1 /\ n + 1 \in 1 .. n + 1 /\ 1 \in 1 .. n + 1
    OBVIOUS
  <2>2. w[i] \in Int /\ w[i + 1] \in Int /\ w[n + 1] \in Int /\ w[1] \in Int
    BY <1>3, <2>1
  <2>3. w[n + 1] <= w[i + 1]
    <3>1. i + 1 = n + 1 \/ i + 1 < n + 1
      OBVIOUS
    <3> QED
      BY <1>3, <2>1, <2>2, <3>1
  <2>4. w[i] <= w[1]
    <3>1. i = 1 \/ 1 < i
      OBVIOUS
    <3> QED
      BY <1>3, <2>1, <2>2, <3>1
  <2> QED
    BY <1>2, <2>1, <2>2, <2>3, <2>4
<1>8. Rows(rows) /\ all \in SUBSET rows /\ Priced(all) /\ \A row \in all : row.date \in Int
  <2>1. Rows(rows) /\ all \in SUBSET rows
    BY DEF FiguresInv, Tables, Between, Incomes
  <2>2. Priced(rows)
    BY <2>1 DEF Rows, TypedRow, Priced
  <2>3. \A row \in rows : row.date \in Int
    BY <2>1 DEF Rows, TypedRow
  <2> HIDE DEF all
  <2> QED
    BY <2>1, <2>2, <2>3, PricedPart
<1>9. DOMAIN totals = 1 .. n
  BY <1>4 DEF periodTotals
<1>10. \A i \in 1 .. n : totals[i] = Total(Between(IncomeOf(rows, From(n), To(1)), From(i), To(i)))
  <2> TAKE i \in 1 .. n
  <2>1. Instants(periods[Cardinality(DOMAIN periods)], o).start = From(n) /\ Instants(periods[1], o).end = To(1)
    BY <1>4, <1>5
  <2>2. totals[i] = Total(InThePeriod(IncomeOf(rows, From(n), To(1)), periods[i], o))
    BY <1>4, <2>1 DEF periodTotals
  <2> QED
    BY <1>5, <2>2 DEF InThePeriod
<1> DEFINE Falls(row, i) == From(i) <= row.date /\ row.date <= To(i)
           key == [row \in all |-> CHOOSE i \in 1 .. n : Falls(row, i)]
<1>11. ASSUME NEW row \in all PROVE \E i \in 1 .. n : Falls(row, i)
  <2> DEFINE S == {i \in 1 .. n : From(i) <= row.date}
  <2>1. row.date \in Int /\ From(n) <= row.date /\ row.date <= To(1)
    BY <1>8 DEF Between
  <2>2. S \in SUBSET Nat /\ n \in S
    BY <1>4, <2>1
  <2>3. PICK i \in S : \A j \in S : i <= j
    <3> HIDE DEF S
    <3> QED
      BY <2>2, SmallestNumber
  <2>4. i \in 1 .. n /\ From(i) <= row.date
    BY <2>3
  <2>5. row.date <= To(i)
    <3>1. CASE i = 1
      BY <2>1, <3>1
    <3>2. CASE i # 1
      <4>1. i - 1 \in 1 .. n /\ i - 1 \notin S /\ (i - 1) + 1 = i
        BY <2>3, <2>4, <3>2
      <4>2. ~(From(i - 1) <= row.date) /\ From(i - 1) = 24 * w[i] - o /\ From(i - 1) \in Int /\ w[i] \in Int
        BY <1>3, <1>7, <2>4, <4>1
      <4> QED
        BY <1>2, <2>1, <4>2
    <3> QED
      BY <3>1, <3>2
  <2> QED
    BY <2>4, <2>5
<1>12. ASSUME NEW row \in all, NEW i \in 1 .. n, NEW j \in 1 .. n, Falls(row, i), Falls(row, j) PROVE i = j
  <2>1. ASSUME NEW a \in 1 .. n, NEW b \in 1 .. n, a < b, Falls(row, a), Falls(row, b) PROVE FALSE
    <3>1. w[b] <= w[a + 1] /\ w[b] \in Int /\ w[a + 1] \in Int
      <4>1. a + 1 = b \/ a + 1 < b
        BY <2>1
      <4>2. w[b] \in Int /\ w[a + 1] \in Int /\ b \in 1 .. n + 1 /\ a + 1 \in 1 .. n + 1
        BY <1>3, <1>7
      <4> QED
        BY <1>3, <4>1, <4>2
    <3> QED
      BY <1>2, <1>8, <2>1, <3>1
  <2>2. i < j \/ j < i \/ i = j
    OBVIOUS
  <2> QED
    BY <1>12, <2>1, <2>2
<1> HIDE DEF all, totals, periods
<1>13. \A row \in all : key[row] \in 1 .. n /\ \A i \in 1 .. n : key[row] = i <=> Falls(row, i)
  <2> TAKE row \in all
  <2>1. key[row] = CHOOSE i \in 1 .. n : Falls(row, i)
    OBVIOUS
  <2>2. key[row] \in 1 .. n /\ Falls(row, key[row])
    <3> HIDE DEF Falls, key
    <3> QED
      BY <1>11, <2>1
  <2> HIDE DEF Falls, key
  <2> QED
    BY <1>12, <2>2
<1>14. \A i \in 1 .. n : totals[i] = Total({row \in all : key[row] = i})
  <2> TAKE i \in 1 .. n
  <2>1. Between(IncomeOf(rows, From(n), To(1)), From(i), To(i)) = Between(Incomes(rows), From(i), To(i))
    <3>1. From(n) \in Int /\ To(1) \in Int /\ From(i) \in Int /\ To(i) \in Int /\ From(n) <= From(i) /\ To(i) <= To(1)
      BY <1>4, <1>7
    <3> HIDE DEF From, To
    <3> QED
      BY <3>1, IncomeBetween
  <2>2. Between(Incomes(rows), From(i), To(i)) = {row \in all : key[row] = i}
    <3>1. Between(Incomes(rows), From(i), To(i)) = {row \in all : Falls(row, i)}
      <4>1. \A row \in Incomes(rows) : row.date \in Int
        BY <1>8 DEF Incomes, Rows, TypedRow
      <4>2. From(n) \in Int /\ To(1) \in Int /\ From(i) \in Int /\ To(i) \in Int /\ From(n) <= From(i) /\ To(i) <= To(1)
        BY <1>4, <1>7
      <4> HIDE DEF From, To
      <4> QED
        BY <4>1, <4>2 DEF Between, all
    <3> HIDE DEF Falls, key
    <3> QED
      BY <1>13, <3>1
  <2> HIDE DEF From, To, key
  <2> QED
    BY <1>10, <2>1, <2>2
<1>15. SumFunction(totals) = Total(all)
  <2>1. \A row \in all : key[row] \in 1 .. n
    BY <1>13
  <2> HIDE DEF key, From, To
  <2> QED
    BY <1>4, <1>8, <1>9, <1>14, <2>1, PartsAddUp
<1>16. /\ calculateHighestEarningPeriod(rows, user).totalIncomeAcrossPeriods = SumFunction(totals)
       /\ calculateHighestEarningPeriod(rows, user).periodsConsidered = n
  <2>1. Cardinality(DOMAIN totals) = n
    BY <1>4, <1>9, FS_Interval
  <2> QED
    BY <2>1 DEF calculateHighestEarningPeriod, totals
<1>17. Instants(PayPeriodsBack(user)[n], user.offset).start = From(n)
  BY <1>4, <1>5 DEF periods
<1> HIDE DEF From, To, key
<1> QED
  BY <1>6, <1>15, <1>16, <1>17 DEF all

LEMMA IncomeAgrees == ASSUME FiguresInv PROVE IncomeAddsUp
<1> DEFINE listed == InThePeriod(RelevantIncome(rows, user), CurrentPeriod(user), user.offset)
<1>1. Rows(listed)
  <2>1. listed \in SUBSET rows
    BY DEF InThePeriod, RelevantIncome, IncomeOf, findMany, Between
  <2>2. Rows(rows)
    BY DEF FiguresInv, Tables
  <2> HIDE DEF listed
  <2> QED
    BY <2>1, <2>2, FS_Subset DEF Rows
<1>2. user.nextPayDate # NoDate
  BY PeriodOfUser
<1>3. \A found \in {{s1, s2}, {s1}} :
         \A analytics \in {getIncomeAnalytics(rows, user, found, Dates(At(486), now), now)} :
             LET bySource == analytics.incomeBySource
                 kinds == analytics.incomeBreakdown
             IN  /\ SumFunction(bySource) = analytics.totalIncomeThisPayPeriod
                 /\ kinds.recurring + kinds.adhoc = analytics.totalIncomeThisPayPeriod
                 /\ (IF "adhoc" \in DOMAIN bySource THEN bySource["adhoc"] ELSE 0)
                        = kinds.adhoc + Total({row \in listed : row.source # None /\ row.source \notin found})
  <2> TAKE found \in {{s1, s2}, {s1}}
  <2> DEFINE analytics == getIncomeAnalytics(rows, user, found, Dates(At(486), now), now)
  <2>1. /\ analytics.incomeBySource = incomeBySource(listed, found)
        /\ analytics.incomeBreakdown = incomeBreakdown(listed)
        /\ analytics.totalIncomeThisPayPeriod = Total(listed)
    BY <1>2 DEF getIncomeAnalytics, totalIncomeThisPayPeriod
  <2>2. s1 \in found /\ found \in SUBSET {s1, s2}
    OBVIOUS
  <2> HIDE DEF listed, analytics
  <2>3. /\ SumFunction(incomeBySource(listed, found)) = Total(listed)
        /\ incomeBreakdown(listed).recurring + incomeBreakdown(listed).adhoc = Total(listed)
        /\ (IF "adhoc" \in DOMAIN incomeBySource(listed, found) THEN incomeBySource(listed, found)["adhoc"] ELSE 0)
               = incomeBreakdown(listed).adhoc
                 + Total({row \in listed : row.source # None /\ row.source \notin found})
    BY <1>1, <2>2, LinesAddUp
  <2>4. /\ SumFunction(analytics.incomeBySource) = analytics.totalIncomeThisPayPeriod
        /\ analytics.incomeBreakdown.recurring + analytics.incomeBreakdown.adhoc = analytics.totalIncomeThisPayPeriod
        /\ (IF "adhoc" \in DOMAIN analytics.incomeBySource THEN analytics.incomeBySource["adhoc"] ELSE 0)
               = analytics.incomeBreakdown.adhoc
                 + Total({row \in listed : row.source # None /\ row.source \notin found})
    BY <2>1, <2>3
  <2> QED
    BY <2>4 DEF analytics
<1>4. LET year == calculateHighestEarningPeriod(rows, user)
          first == Instants(PayPeriodsBack(user)[year.periodsConsidered], user.offset)
      IN  year.totalIncomeAcrossPeriods = Total(Between(Incomes(rows), first.start, Period.end))
  BY PeriodsAddUp
<1>5. \A year \in {calculateHighestEarningPeriod(rows, user)} :
         LET first == Instants(PayPeriodsBack(user)[year.periodsConsidered], user.offset)
         IN  year.totalIncomeAcrossPeriods = Total(Between(Incomes(rows), first.start, Period.end))
  BY <1>4
<1> QED
  BY <1>3, <1>5 DEF IncomeAddsUp

\* The income is the same by source, by kind and as a total, and the pay periods of
\* the year share none and lose none (IncomeAddsUp).
THEOREM IncomeTold == Spec => []IncomeAddsUp
<1>1. FiguresInv => IncomeAddsUp
  BY IncomeAgrees
<1> QED
  BY <1>1, TablesHold, PTL

-------------------------------------------------------------------------------
(* The forecast: the dates it expands, and the balances it ends with.         *)

\* reached[n][day]: the dates that at most n - 1 steps lead to from a day on, in D.
Reaches(reached, D, step) ==
    reached = [n \in 1 .. 60 |-> [day \in D |->
        {day} \union (IF n > 1 /\ step[day] \in D THEN reached[n - 1][step[day]] ELSE {})]]

LEMMA ReachedExist == ASSUME NEW D, NEW step PROVE \E reached : Reaches(reached, D, step)
<1> DEFINE From(f, n) == [day \in D |-> {day} \union (IF n > 1 /\ step[day] \in D THEN f[n - 1][step[day]] ELSE {})]
           Solves(f, m) == \A n \in 1 .. m : f[n] = From(f, n)
           Without == {m \in 0 .. 60 : \A f : ~Solves(f, m)}
<1>1. ASSUME Without # {} PROVE FALSE
  <2>1. PICK m \in Without : \A k \in Without : m <= k
    <3>1. Without \in SUBSET Nat
      OBVIOUS
    <3> HIDE DEF Without
    <3> QED
      BY <1>1, <3>1, SmallestNumber
  <2>2. CASE m = 0
    <3>1. \A f : Solves(f, 0)
      OBVIOUS
    <3> HIDE DEF Solves
    <3> QED
      BY <2>1, <2>2, <3>1
  <2>3. CASE m # 0
    <3>1. m \in 1 .. 60 /\ m - 1 \in 0 .. 60 /\ m - 1 \notin Without
      <4> HIDE DEF Solves
      <4> QED
        BY <2>1, <2>3
    <3>2. PICK f : Solves(f, m - 1)
      <4> HIDE DEF Solves
      <4> QED
        BY <3>1
    <3> DEFINE g == [n \in 1 .. m |-> IF n = m THEN From(f, m) ELSE f[n]]
    <3>3. ASSUME NEW n \in 1 .. m PROVE g[n] = From(g, n)
      <4>1. n > 1 => g[n - 1] = f[n - 1]
        <5>1. n > 1 => n - 1 \in 1 .. m /\ n - 1 # m
          BY <3>1
        <5> HIDE DEF From
        <5> QED
          BY <5>1
      <4>2. From(g, n) = From(f, n)
        <5> HIDE DEF g
        <5> QED
          BY <4>1
      <4>3. g[n] = From(f, n)
        <5>1. n # m => n \in 1 .. m - 1
          BY <3>1
        <5> HIDE DEF From
        <5> QED
          BY <3>2, <5>1
      <4> QED
        BY <4>2, <4>3
    <3>4. Solves(g, m)
      <4> HIDE DEF g, From
      <4> QED
        BY <3>3
    <3> HIDE DEF Solves, g
    <3> QED
      BY <2>1, <3>4
  <2> QED
    BY <2>2, <2>3
<1>2. PICK f : Solves(f, 60)
  <2> HIDE DEF Solves
  <2>1. 60 \notin Without /\ 60 \in 0 .. 60
    BY <1>1
  <2> QED
    BY <2>1
<1> DEFINE h == [n \in 1 .. 60 |-> f[n]]
<1>3. h = [n \in 1 .. 60 |-> From(h, n)]
  <2>1. ASSUME NEW n \in 1 .. 60 PROVE f[n] = From(h, n)
    <3>1. n > 1 => h[n - 1] = f[n - 1]
      OBVIOUS
    <3>2. From(h, n) = From(f, n)
      <4> HIDE DEF h
      <4> QED
        BY <3>1
    <3> QED
      BY <1>2, <3>2
  <2> HIDE DEF From
  <2> QED
    BY <2>1
<1>4. Reaches(h, D, step)
  <2> HIDE DEF h
  <2> QED
    BY <1>3 DEF Reaches
<1> QED
  BY <1>4

\* A day is among the dates that are reached from it, and all are in D.
LEMMA ReachedAre ==
  ASSUME NEW D, NEW step, NEW reached, Reaches(reached, D, step)
  PROVE  \A n \in 1 .. 60 : \A day \in D : day \in reached[n][day] /\ reached[n][day] \subseteq D
<1>1. ASSUME NEW n \in 1 .. 60, NEW day \in D
      PROVE  reached[n][day] = {day} \union (IF n > 1 /\ step[day] \in D THEN reached[n - 1][step[day]] ELSE {})
  BY DEF Reaches
<1> DEFINE Wrong == {n \in 1 .. 60 : \E day \in D : ~(reached[n][day] \subseteq D)}
<1>2. ASSUME Wrong # {} PROVE FALSE
  <2>1. PICK n \in Wrong : \A k \in Wrong : n <= k
    <3>1. Wrong \in SUBSET Nat
      OBVIOUS
    <3> HIDE DEF Wrong
    <3> QED
      BY <1>2, <3>1, SmallestNumber
  <2>2. PICK day \in D : ~(reached[n][day] \subseteq D)
    BY <2>1
  <2>3. n > 1 /\ step[day] \in D /\ ~(reached[n - 1][step[day]] \subseteq D)
    BY <1>1, <2>1, <2>2
  <2>4. n - 1 \in Wrong
    BY <2>1, <2>3
  <2> QED
    BY <2>1, <2>4
<1> QED
  BY <1>1, <1>2

\* The occurrences of a bill are days up to the horizon, its due date one of them.
LEMMA DaysOfBill ==
  ASSUME NEW seed, NEW recurrence, NEW horizon \in Int
  PROVE  /\ expandBillRecurrence(seed, recurrence, horizon) \subseteq 0 .. horizon
         /\ seed \in 0 .. horizon => seed \in expandBillRecurrence(seed, recurrence, horizon)
<1> DEFINE D == 0 .. horizon
           step == [day \in D |-> advanceByBillRecurrence(day, recurrence)]
           From(f, n) == [day \in D |-> {day} \union
               (IF n > 1 /\ advanceByBillRecurrence(day, recurrence) \in D
                THEN f[n - 1][advanceByBillRecurrence(day, recurrence)] ELSE {})]
           Solves(f) == f = [n \in 1 .. 60 |-> From(f, n)]
           reached == CHOOSE f : Solves(f)
<1>1. expandBillRecurrence(seed, recurrence, horizon) = IF seed \in D THEN reached[60][seed] ELSE {}
  BY DEF expandBillRecurrence, Expand
<1>2. ASSUME NEW f PROVE Solves(f) <=> Reaches(f, D, step)
  <2>1. \A day \in D : step[day] = advanceByBillRecurrence(day, recurrence)
    OBVIOUS
  <2> DEFINE FromStep(n) == [day \in D |->
                 {day} \union (IF n > 1 /\ step[day] \in D THEN f[n - 1][step[day]] ELSE {})]
  <2> HIDE DEF step
  <2>2. ASSUME NEW n \in 1 .. 60 PROVE From(f, n) = FromStep(n)
    BY <2>1
  <2>3. Reaches(f, D, step) <=> f = [n \in 1 .. 60 |-> FromStep(n)]
    BY DEF Reaches
  <2> HIDE DEF From, FromStep
  <2> QED
    BY <2>2, <2>3
<1> HIDE DEF step, Solves, D
<1>3. Reaches(reached, D, step)
  BY <1>2, ReachedExist
<1> HIDE DEF reached
<1>4. seed \in D => seed \in reached[60][seed] /\ reached[60][seed] \subseteq D
  BY <1>3, ReachedAre
<1> QED
  BY <1>1, <1>4 DEF D

\* So are the pay dates.
LEMMA DaysOfPay ==
  ASSUME NEW seed, NEW frequency, NEW horizon \in Int
  PROVE  expandPayDates(seed, frequency, horizon) \subseteq 0 .. horizon
<1> DEFINE D == 0 .. horizon
           step == [day \in D |-> calculateNextPayDateFromCurrent(day, frequency)]
           From(f, n) == [day \in D |-> {day} \union
               (IF n > 1 /\ calculateNextPayDateFromCurrent(day, frequency) \in D
                THEN f[n - 1][calculateNextPayDateFromCurrent(day, frequency)] ELSE {})]
           Solves(f) == f = [n \in 1 .. 60 |-> From(f, n)]
           reached == CHOOSE f : Solves(f)
<1>1. expandPayDates(seed, frequency, horizon) = IF seed \in D THEN reached[60][seed] ELSE {}
  BY DEF expandPayDates, Expand
<1>2. ASSUME NEW f PROVE Solves(f) <=> Reaches(f, D, step)
  <2>1. \A day \in D : step[day] = calculateNextPayDateFromCurrent(day, frequency)
    OBVIOUS
  <2> DEFINE FromStep(n) == [day \in D |->
                 {day} \union (IF n > 1 /\ step[day] \in D THEN f[n - 1][step[day]] ELSE {})]
  <2> HIDE DEF step
  <2>2. ASSUME NEW n \in 1 .. 60 PROVE From(f, n) = FromStep(n)
    BY <2>1
  <2>3. Reaches(f, D, step) <=> f = [n \in 1 .. 60 |-> FromStep(n)]
    BY DEF Reaches
  <2> HIDE DEF From, FromStep
  <2> QED
    BY <2>2, <2>3
<1> HIDE DEF step, Solves, D
<1>3. Reaches(reached, D, step)
  BY <1>2, ReachedExist
<1> HIDE DEF reached
<1>4. seed \in D => reached[60][seed] \subseteq D
  BY <1>3, ReachedAre
<1> QED
  BY <1>1, <1>4 DEF D

\* A balance is what the forecast starts with and the events up to its day.
LEMMA BalancesAre ==
  ASSUME NEW some, Priced(some), NEW start \in Int, NEW today \in Int, NEW days \in Nat
  PROVE  buildDailyBalances(some, start, today, days)[days]
             = start + Total({e \in some : e.day \in today .. today + days})
<1> DEFINE On(i) == {e \in some : e.day = today + i}
           UpTo(i) == {e \in some : e.day \in today .. today + i}
           Solves(b) == b = [i \in 0 .. days |-> (IF i = 0 THEN start ELSE b[i - 1]) + Sum(On(i))]
           balances == CHOOSE b : Solves(b)
           g == [i \in 0 .. days |-> start + Total(UpTo(i))]
<1>1. buildDailyBalances(some, start, today, days) = balances
  BY DEF buildDailyBalances
<1>2. ASSUME NEW i \in 0 .. days
      PROVE  /\ Total(UpTo(i)) \in Int
             /\ i = 0 => Total(UpTo(i)) = Sum(On(i))
             /\ i # 0 => Total(UpTo(i)) = Total(UpTo(i - 1)) + Sum(On(i)) /\ Total(UpTo(i - 1)) \in Int
             /\ Sum(On(i)) \in Int
  <2>1. UpTo(i) \in SUBSET some /\ On(i) \in SUBSET some /\ UpTo(i - 1) \in SUBSET some
    OBVIOUS
  <2>2. Priced(UpTo(i)) /\ Priced(On(i)) /\ Priced(UpTo(i - 1))
    BY <2>1, PricedPart
  <2>3. Sum(On(i)) = Total(On(i))
    BY DEF Sum, Total
  <2>4. i = 0 => UpTo(i) = On(i)
    OBVIOUS
  <2>5. i # 0 => UpTo(i) = UpTo(i - 1) \union On(i) /\ UpTo(i - 1) \intersect On(i) = {}
    OBVIOUS
  <2> HIDE DEF UpTo, On
  <2>6. Total(UpTo(i)) \in Int /\ Total(On(i)) \in Int /\ Total(UpTo(i - 1)) \in Int
    BY <2>2, TotalInt
  <2>7. i # 0 => Total(UpTo(i)) = Total(UpTo(i - 1)) + Total(On(i))
    BY <2>2, <2>5, TotalOfTwo
  <2> QED
    BY <2>3, <2>4, <2>6, <2>7
<1> HIDE DEF On, UpTo
<1>3. Solves(g)
  <2>1. ASSUME NEW i \in 0 .. days PROVE g[i] = (IF i = 0 THEN start ELSE g[i - 1]) + Sum(On(i))
    <3>1. i # 0 => i - 1 \in 0 .. days
      OBVIOUS
    <3> QED
      BY <1>2, <3>1
  <2>2. g = [i \in 0 .. days |-> g[i]]
    OBVIOUS
  <2> HIDE DEF g
  <2> QED
    BY <2>1, <2>2
<1>4. Solves(balances)
  <2> HIDE DEF Solves, g
  <2> QED
    BY <1>3
<1> HIDE DEF balances
<1>5. \A i \in 0 .. days : balances[i] = (IF i = 0 THEN start ELSE balances[i - 1]) + Sum(On(i))
  BY <1>4
<1>6. \A i \in 0 .. days : balances[i] = start + Total(UpTo(i))
  <2> DEFINE Wrong == {i \in 0 .. days : balances[i] # start + Total(UpTo(i))}
  <2>1. ASSUME Wrong # {} PROVE FALSE
    <3>1. PICK i \in Wrong : \A j \in Wrong : i <= j
      <4>1. Wrong \in SUBSET Nat
        OBVIOUS
      <4> HIDE DEF Wrong
      <4> QED
        BY <2>1, <4>1, SmallestNumber
    <3>2. i \in 0 .. days /\ balances[i] # start + Total(UpTo(i))
      BY <3>1
    <3>3. CASE i = 0
      BY <1>2, <1>5, <3>2, <3>3
    <3>4. CASE i # 0
      <4>1. i - 1 \in 0 .. days /\ i - 1 \notin Wrong
        BY <3>1, <3>2, <3>4
      <4>2. balances[i - 1] = start + Total(UpTo(i - 1))
        BY <4>1
      <4> QED
        BY <1>2, <1>5, <3>2, <3>4, <4>2
    <3> QED
      BY <3>3, <3>4
  <2> QED
    BY <2>1
<1> QED
  BY <1>1, <1>6 DEF UpTo

\* The total of a set of events that are made of the elements of another, one of each.
LEMMA TotalOfImage ==
  ASSUME NEW S, IsFiniteSet(S), NEW f, DOMAIN f = S, NEW a, \A x \in S : a[x] \in Int /\ f[x].amount = a[x],
         \A x, y \in S : f[x] = f[y] => x = y
  PROVE  /\ Priced({f[x] : x \in S})
         /\ Total({f[x] : x \in S}) = SumFunctionOnSet(a, S)
<1> DEFINE image == {f[x] : x \in S}
           amounts == [e \in image |-> e.amount]
           part == [x \in S |-> {f[x]}]
<1>1. IsFiniteSet(image)
  BY FiniteKeys
<1>2. \A e \in image : amounts[e] \in Int /\ e.amount \in Int
  OBVIOUS
<1>3. Total(image) = SumFunctionOnSet(amounts, image)
  BY DEF Total, SumFunction
<1>4. /\ \A x \in S : part[x] \in SUBSET image
      /\ \A e \in image : \E x \in S : e \in part[x]
      /\ \A x, y \in S : x # y => part[x] \intersect part[y] = {}
  OBVIOUS
<1>5. ASSUME NEW x \in S PROVE a[x] = SumFunctionOnSet(amounts, part[x])
  <2>1. part[x] = {f[x]} /\ amounts[f[x]] = a[x] /\ amounts[f[x]] \in Int
    OBVIOUS
  <2> HIDE DEF part, amounts
  <2>2. SumFunctionOnSet(amounts, {f[x]}) = amounts[f[x]]
    BY <2>1, SumOfOne
  <2> QED
    BY <2>1, <2>2
<1> HIDE DEF image, amounts, part
<1>6. SumFunctionOnSet(a, S) = SumFunctionOnSet(amounts, image)
  BY <1>1, <1>2, <1>4, <1>5, SumOfParts
<1>7. Priced(image) /\ Total(image) = SumFunctionOnSet(a, S)
  BY <1>1, <1>2, <1>3, <1>6 DEF Priced
<1> QED
  BY <1>7 DEF image

(* Plans that move bills.                                                     *)

\* The events of the forecast: income, bills as some plans move them, plans.
IncomeEvents == buildPrimaryIncomeEvents(user, Horizon) \union buildIncomeSourceEvents(Sources, Horizon)
BillsMoved(changes) == buildRecurringBillEvents(Bills, user, now, Horizon, changes)
PlanEvents == buildPlanEvents(plans, user, now, Horizon)
Shown(some) == {e \in some : e.day \in Today(user, now) .. Today(user, now) + Days}

\* The moves that MovesNoMoney is about.
MovesAsMeant ==
    /\ user.offset = 0
    /\ \A bill \in Bills : Cardinality(Moves(bill)) <= 1 /\ Hour(bill.due) = 0
    /\ \A plan \in BillChanges(plans) :
          Within(plan) /\ \E bill \in Bills :
              bill.id = plan.linked /\ plan.amount = -bill.amount /\ bill.due <= Horizon

LEMMA HorizonIs ==
  ASSUME FiguresInv, user.offset = 0
  PROVE  Today(user, now) = 511 /\ Horizon = 24 * (511 + Days) + 23 /\ Day(Horizon) = 511 + Days /\ Days \in Nat
<1>1. now = 24 * 511 + 8
  BY DEF FiguresInv, Tables, Now, At
<1>2. Today(user, now) = 511
  BY <1>1 DEF Today, userLocalDay, Day
<1>3. Days \in Nat
  BY FiguresAssumption
<1>4. Horizon = 24 * (511 + Days) + 23
  BY <1>2, <1>3 DEF Horizon, HorizonEnd
<1>5. \A n \in Nat : (24 * n + 23) \div 24 = n
  OBVIOUS
<1>6. Day(Horizon) = 511 + Days
  BY <1>3, <1>4, <1>5 DEF Day
<1> QED
  BY <1>2, <1>3, <1>4, <1>6

LEMMA BillsAre ==
  ASSUME FiguresInv
  PROVE  /\ IsFiniteSet(Bills)
         /\ \A bill \in Bills : bill.amount \in Nat /\ bill.due \in Nat
         /\ \A bill, other \in Bills : bill.id = other.id => bill = other
<1>1. Bills \in SUBSET rows /\ \A bill \in Bills : bill.due # NoDate
  BY DEF Bills, findRecurringUpcoming
<1>2. Rows(rows) /\ \A row \in rows : row = RowOf(row.id)
  BY DEF FiguresInv, Tables
<1>3. IsFiniteSet(Bills)
  BY <1>1, <1>2, FS_Subset DEF Rows
<1>4. \A bill \in Bills : bill.amount \in Nat /\ bill.due \in Nat
  BY <1>1, <1>2 DEF Rows, TypedRow
<1> QED
  BY <1>1, <1>2, <1>3, <1>4

LEMMA PlansAre ==
  ASSUME FiguresInv
  PROVE  /\ IsFiniteSet(plans)
         /\ \A plan \in plans : plan.amount \in Int /\ plan.date \in Nat
         /\ \A plan, other \in plans : plan.id = other.id => plan = other
<1> DEFINE Move(bill, date) ==
               [id |-> <<bill.id, date>>, type |-> "BILL_CHANGE", linked |-> bill.id, amount |-> -2, date |-> date,
                previous |-> NoDate]
           purchase == [id |-> <<None, At(517)>>, type |-> "PURCHASE", linked |-> None, amount |-> -3,
                        date |-> At(517), previous |-> At(513)]
<1>1. IsFiniteSet(plans) /\ plans \subseteq Plans
  BY DEF FiguresInv, Tables
<1>2. ASSUME NEW plan \in plans
      PROVE  plan = purchase \/ \E bill \in UnpaidBills, date \in {At(510), At(514), At(519)} : plan = Move(bill, date)
  BY <1>1 DEF Plans
<1>3. ASSUME NEW bill, NEW date
      PROVE  Move(bill, date).id = <<bill.id, date>> /\ Move(bill, date).amount = -2 /\ Move(bill, date).date = date
  OBVIOUS
<1>4. purchase.id = <<None, At(517)>> /\ purchase.amount = -3 /\ purchase.date = At(517)
  OBVIOUS
<1>5. ASSUME NEW a, NEW b, NEW c, NEW d, <<a, b>> = <<c, d>> PROVE a = c /\ b = d
  BY <1>5
<1>6. ASSUME NEW bill, NEW other, NEW date, bill.id = other.id PROVE Move(bill, date) = Move(other, date)
  BY <1>6
<1>7. \A n \in {510, 514, 519, 517} : At(n) = 24 * n
  BY DEF At
<1> HIDE DEF Move, purchase
<1>8. ASSUME NEW plan \in plans PROVE plan.amount \in Int /\ plan.date \in Nat
  BY <1>2, <1>3, <1>4, <1>7
<1>9. ASSUME NEW plan \in plans, NEW other \in plans, plan.id = other.id PROVE plan = other
  <2>1. CASE plan = purchase /\ other = purchase
    BY <2>1
  <2>2. ASSUME NEW bill, NEW date \in {At(510), At(514), At(519)} PROVE Move(bill, date).id # purchase.id
    <3>1. SUFFICES ASSUME Move(bill, date).id = purchase.id PROVE FALSE
      OBVIOUS
    <3>2. date = At(517)
      BY <1>3, <1>4, <1>5, <3>1
    <3> QED
      BY <1>7, <3>2
  <2>3. ASSUME NEW bill, NEW date, NEW b, NEW d, Move(bill, date).id = Move(b, d).id PROVE Move(bill, date) = Move(b, d)
    <3>1. bill.id = b.id /\ date = d
      BY <1>3, <1>5, <2>3
    <3> QED
      BY <1>6, <3>1
  <2> QED
    BY <1>2, <1>9, <2>1, <2>2, <2>3
<1> QED
  BY <1>1, <1>8, <1>9

LEMMA IncomeEventsAre ==
  ASSUME FiguresInv, user.offset = 0
  PROVE  /\ Priced(IncomeEvents)
         /\ \A e \in IncomeEvents : e.kind \in {"PRIMARY_INCOME", "INCOME_SOURCE"}
<1>1. Day(Horizon) \in Int
  BY HorizonIs
<1>2. ASSUME NEW kind \in {"PRIMARY_INCOME", "INCOME_SOURCE"}, NEW id, NEW amount \in Int, NEW next, NEW frequency
      PROVE  LET some == PayDays(kind, id, amount, next, frequency, Horizon)
             IN  Priced(some) /\ \A e \in some : e.kind \in {"PRIMARY_INCOME", "INCOME_SOURCE"}
  <2> DEFINE days == expandPayDates(next, frequency, Day(Horizon))
             f == [day \in days |-> Event(kind, id, 24 * day, day, amount)]
             some == PayDays(kind, id, amount, next, frequency, Horizon)
  <2>1. IsFiniteSet(days)
    <3>1. days \in SUBSET (0 .. Day(Horizon)) /\ IsFiniteSet(0 .. Day(Horizon))
      BY <1>1, DaysOfPay, FS_Interval
    <3> HIDE DEF days
    <3> QED
      BY <3>1, FS_Subset
  <2>2. some = {f[day] : day \in days}
    BY DEF PayDays
  <2>3. DOMAIN f = days /\ \A day \in days : f[day].amount = amount /\ f[day].kind = kind
    BY DEF Event
  <2> HIDE DEF days, f, some
  <2>4. IsFiniteSet(some)
    BY <2>1, <2>2, <2>3, FiniteKeys
  <2>5. Priced(some) /\ \A e \in some : e.kind \in {"PRIMARY_INCOME", "INCOME_SOURCE"}
    BY <2>2, <2>3, <2>4 DEF Priced
  <2> QED
    BY <2>5 DEF some
<1>3. LET some == buildPrimaryIncomeEvents(user, Horizon)
      IN  Priced(some) /\ \A e \in some : e.kind \in {"PRIMARY_INCOME", "INCOME_SOURCE"}
  <2>1. user.income \in Int
    BY SummaryTyped
  <2>2. Priced({})
    BY FS_EmptySet DEF Priced
  <2> QED
    BY <1>2, <2>1, <2>2 DEF buildPrimaryIncomeEvents
<1>4. LET some == buildIncomeSourceEvents(Sources, Horizon)
      IN  Priced(some) /\ \A e \in some : e.kind \in {"PRIMARY_INCOME", "INCOME_SOURCE"}
  <2> DEFINE paid == {source \in Sources : source.active}
             f == [source \in paid |->
                       PayDays("INCOME_SOURCE", source.id, source.amount, source.nextPaymentDate, source.frequency, Horizon)]
             some == buildIncomeSourceEvents(Sources, Horizon)
  <2>1. IsFiniteSet(paid)
    <3>1. IsFiniteSet(Sources)
      <4> DEFINE a == [id |-> s1, active |-> TRUE, rollover |-> 1, amount |-> 3, frequency |-> "WEEKLY",
                       nextPaymentDate |-> 513]
                 b == [id |-> s2, active |-> FALSE, rollover |-> 1, amount |-> 3, frequency |-> "WEEKLY",
                       nextPaymentDate |-> 513]
      <4>1. Sources = {a, b}
        BY DEF Sources
      <4> HIDE DEF a, b
      <4>2. Sources = {a} \union {b}
        BY <4>1
      <4> QED
        BY <4>2, FS_Singleton, FS_Union
    <3>2. paid \in SUBSET Sources
      OBVIOUS
    <3> QED
      BY <3>1, <3>2, FS_Subset
  <2>2. ASSUME NEW source \in paid
        PROVE  Priced(f[source]) /\ \A e \in f[source] : e.kind \in {"PRIMARY_INCOME", "INCOME_SOURCE"}
    <3>1. source.amount \in Int
      BY DEF Sources
    <3> QED
      BY <1>2, <3>1
  <2>3. some = UNION {f[source] : source \in paid} /\ DOMAIN f = paid
    BY DEF buildIncomeSourceEvents
  <2> HIDE DEF paid, f, some
  <2>4. IsFiniteSet({f[source] : source \in paid})
    BY <2>1, <2>3, FiniteKeys
  <2>5. IsFiniteSet(some)
    <3>1. \A T \in {f[source] : source \in paid} : IsFiniteSet(T)
      BY <2>2 DEF Priced
    <3> QED
      BY <2>3, <2>4, <3>1, FS_UNION
  <2>6. Priced(some) /\ \A e \in some : e.kind \in {"PRIMARY_INCOME", "INCOME_SOURCE"}
    BY <2>2, <2>3, <2>5 DEF Priced
  <2> QED
    BY <2>6 DEF some
<1> QED
  BY <1>3, <1>4, FS_Union DEF IncomeEvents, Priced

\* The occurrences of a bill due at midnight.
LEMMA OccurrencesOf ==
  ASSUME FiguresInv, user.offset = 0, NEW bill \in Bills, Hour(bill.due) = 0
  PROVE  /\ IsFiniteSet(Occurrences(bill, Horizon))
         /\ \A o \in Occurrences(bill, Horizon) : Day(o) = Day(bill.due) => o = bill.due
         /\ bill.due <= Horizon => bill.due \in Occurrences(bill, Horizon)
<1> DEFINE days == expandBillRecurrence(Day(bill.due), bill.recurrence, Day(Horizon))
           f == [day \in days |-> 24 * day]
<1>1. bill.due \in Nat /\ bill.due = 24 * Day(bill.due) /\ Day(bill.due) \in Nat
  <2>1. bill.due \in Nat
    BY BillsAre
  <2>2. \A n \in Nat : n % 24 = 0 => n = 24 * (n \div 24) /\ n \div 24 \in Nat
    OBVIOUS
  <2> QED
    BY <2>1, <2>2 DEF Day, Hour
<1>2. Horizon = 24 * (511 + Days) + 23 /\ Day(Horizon) = 511 + Days /\ Days \in Nat
  BY HorizonIs
<1>3. days \subseteq 0 .. Day(Horizon) /\ (Day(bill.due) \in 0 .. Day(Horizon) => Day(bill.due) \in days)
  BY <1>2, DaysOfBill
<1>4. Occurrences(bill, Horizon) = {o \in {24 * day : day \in days} : o <= Horizon}
  <2>1. \A day \in days : 24 * day + Hour(bill.due) = 24 * day
    BY <1>2, <1>3
  <2>2. Occurrences(bill, Horizon) = {o \in {24 * day + Hour(bill.due) : day \in days} : o <= Horizon}
    BY DEF Occurrences
  <2> HIDE DEF days
  <2> QED
    BY <2>1, <2>2
<1> HIDE DEF days
<1>5. IsFiniteSet(Occurrences(bill, Horizon))
  <2>1. IsFiniteSet(0 .. Day(Horizon))
    BY <1>2, FS_Interval
  <2>2. IsFiniteSet(days)
    BY <1>3, <2>1, FS_Subset
  <2>3. IsFiniteSet({f[day] : day \in days})
    <3>1. DOMAIN f = days
      OBVIOUS
    <3> HIDE DEF f
    <3> QED
      BY <2>2, <3>1, FiniteKeys
  <2>4. Occurrences(bill, Horizon) \in SUBSET {f[day] : day \in days}
    BY <1>4
  <2> HIDE DEF f
  <2> QED
    BY <2>3, <2>4, FS_Subset
<1>6. ASSUME NEW o \in Occurrences(bill, Horizon), Day(o) = Day(bill.due) PROVE o = bill.due
  <2>1. PICK day \in days : o = 24 * day
    BY <1>4
  <2>2. day \in Nat
    BY <1>2, <1>3
  <2>3. \A n \in Nat : (24 * n) \div 24 = n
    OBVIOUS
  <2>4. Day(o) = day
    BY <2>1, <2>2, <2>3 DEF Day
  <2> QED
    BY <1>1, <1>6, <2>1, <2>4
<1>7. ASSUME bill.due <= Horizon PROVE bill.due \in Occurrences(bill, Horizon)
  <2>1. Day(bill.due) \in 0 .. Day(Horizon)
    BY <1>1, <1>2, <1>7
  <2> QED
    BY <1>1, <1>3, <1>4, <1>7, <2>1
<1> QED
  BY <1>5, <1>6, <1>7

\* An instant is an hour of a day.
LEMMA DayAndHour ==
  ASSUME NEW instant \in Nat
  PROVE  Hour(instant) \in 0 .. 23 /\ instant = 24 * Day(instant) + Hour(instant)
<1>1. instant % 24 \in 0 .. 23
  OBVIOUS
<1>2. instant = 24 * (instant \div 24) + (instant % 24)
  OBVIOUS
<1> QED
  BY <1>1, <1>2 DEF Hour, Day

\* An occurrence is of the same day as the bill only if it is the bill's own.
LEMMA OwnOccurrence ==
  ASSUME FiguresInv, NEW bill \in Bills, NEW o \in Occurrences(bill, Horizon), Day(o) = Day(bill.due)
  PROVE  o = bill.due
<1>1. bill.due \in Nat
  BY DEF FiguresInv, Tables, Rows, TypedRow, Bills, findRecurringUpcoming
<1>2. Horizon \in Int /\ Day(Horizon) \in Int
  <2>1. user.offset \in Int /\ now \in Int /\ Days \in Nat
    BY FiguresAssumption DEF FiguresInv, Tables, Users, Now, At
  <2> QED
    BY <2>1 DEF Horizon, HorizonEnd, Today, userLocalDay, Day
<1>3. PICK day \in expandBillRecurrence(Day(bill.due), bill.recurrence, Day(Horizon)) : o = 24 * day + Hour(bill.due)
  BY DEF Occurrences
<1>4. day \in Nat
  <2>1. expandBillRecurrence(Day(bill.due), bill.recurrence, Day(Horizon)) \subseteq 0 .. Day(Horizon)
    BY <1>2, DaysOfBill
  <2> QED
    BY <1>2, <1>3, <2>1
<1>5. \A n \in Nat, h \in 0 .. 23 : (24 * n + h) \div 24 = n
  OBVIOUS
<1>6. Hour(bill.due) \in 0 .. 23 /\ bill.due = 24 * Day(bill.due) + Hour(bill.due)
  BY <1>1, DayAndHour
<1>7. Day(o) = day
  BY <1>3, <1>4, <1>5, <1>6 DEF Day
<1> QED
  BY <1>3, <1>6, <1>7

\* The event of an occurrence that no plan moves.
LEMMA EventsOfBill ==
  ASSUME FiguresInv, NEW bill \in Bills, NEW o \in Occurrences(bill, Horizon), o = bill.due => Moves(bill) = {}
  PROVE  {e \in TheForecast.events : e.kind = "RECURRING_BILL" /\ e.id = bill.id /\ e.of = o}
             = IF InCurrentPeriod(o, user, now) THEN {}
               ELSE {Event("RECURRING_BILL", bill.id, o,
                           IF o < 24 * Today(user, now) - user.offset THEN Today(user, now) ELSE Day(o), -bill.amount)}
<1> DEFINE income == buildPrimaryIncomeEvents(user, Horizon) \union buildIncomeSourceEvents(Sources, Horizon)
           ofBills == buildRecurringBillEvents(Bills, user, now, Horizon, BillChanges(plans))
           chosen == {e \in TheForecast.events : e.kind = "RECURRING_BILL" /\ e.id = bill.id /\ e.of = o}
           this == Event("RECURRING_BILL", bill.id, o,
                         IF o < 24 * Today(user, now) - user.offset THEN Today(user, now) ELSE Day(o), -bill.amount)
           ofPlans == buildPlanEvents(plans, user, now, Horizon)
<1>1. TheForecast.events = income \union ofBills \union ofPlans
  BY DEF TheForecast, getForecast, Horizon, Bills
<1>2. \A e \in income \union ofPlans : e.kind # "RECURRING_BILL"
  <2>1. ASSUME NEW kind \in {"PRIMARY_INCOME", "INCOME_SOURCE"}, NEW id, NEW amount, NEW next, NEW frequency,
               NEW e \in PayDays(kind, id, amount, next, frequency, Horizon)
        PROVE  e.kind # "RECURRING_BILL"
    BY <2>1 DEF PayDays, Event
  <2>2. \A e \in buildPrimaryIncomeEvents(user, Horizon) : e.kind # "RECURRING_BILL"
    BY <2>1 DEF buildPrimaryIncomeEvents
  <2>3. \A e \in buildIncomeSourceEvents(Sources, Horizon) : e.kind # "RECURRING_BILL"
    BY <2>1 DEF buildIncomeSourceEvents
  <2>4. \A e \in ofPlans : e.kind # "RECURRING_BILL"
    BY DEF buildPlanEvents, Event
  <2> QED
    BY <2>2, <2>3, <2>4
<1>3. ASSUME NEW e \in ofBills, e.id = bill.id, e.of = o PROVE e = this /\ ~InCurrentPeriod(o, user, now)
  <2>1. PICK other \in Bills : e \in BillEvents(other, user, now, Horizon, BillChanges(plans))
    BY DEF buildRecurringBillEvents
  <2>2. PICK d \in Occurrences(other, Horizon) :
            /\ ~InCurrentPeriod(d, user, now)
            /\ e = Event("RECURRING_BILL", other.id, d,
                         IF d < 24 * Today(user, now) - user.offset THEN Today(user, now) ELSE Day(d), -other.amount)
    BY <2>1 DEF BillEvents
  <2>3. other.id = bill.id /\ d = o
    BY <1>3, <2>2 DEF Event
  <2>4. other = bill
    BY <2>3 DEF FiguresInv, Tables, Bills, findRecurringUpcoming
  <2> QED
    BY <2>2, <2>3, <2>4
<1>4. ASSUME ~InCurrentPeriod(o, user, now) PROVE this \in ofBills
  <2>1. ~MovedAway(bill, o, BillChanges(plans))
    BY OwnOccurrence DEF MovedAway, Moves
  <2>2. this \in BillEvents(bill, user, now, Horizon, BillChanges(plans))
    BY <1>4, <2>1 DEF BillEvents
  <2> QED
    BY <2>2 DEF buildRecurringBillEvents
<1>5. this.kind = "RECURRING_BILL" /\ this.id = bill.id /\ this.of = o
  BY DEF Event
<1> HIDE DEF income, ofBills, ofPlans, this
<1>6. CASE InCurrentPeriod(o, user, now)
  BY <1>1, <1>2, <1>3, <1>6
<1>7. CASE ~InCurrentPeriod(o, user, now)
  <2>1. chosen = {this}
    BY <1>1, <1>2, <1>3, <1>4, <1>5, <1>7
  <2> QED
    BY <1>7, <2>1 DEF this
<1> QED
  BY <1>6, <1>7

\* A bill that is due in the period is committed, and the others are not; away from
\* its edge, the forecast knows which they are.
LEMMA CommittedWhenDue ==
  ASSUME FiguresInv, NEW bill \in Bills
  PROVE  bill \in Committed(rows, bill.source, Period) <=> bill.due \in Period.start .. Period.end
<1>1. /\ bill \in rows /\ bill.status = "UPCOMING" /\ bill.due # NoDate /\ bill.recurring
      /\ bill.type = "EXPENSE"
  <2>1. bill \in rows /\ bill.status = "UPCOMING" /\ bill.due # NoDate /\ bill.recurring
    BY DEF Bills, findRecurringUpcoming
  <2>2. TypedRow(bill)
    BY <2>1 DEF FiguresInv, Tables, Rows
  <2> QED
    BY <2>1, <2>2 DEF TypedRow
<1> QED
  BY <1>1 DEF Committed, Expenses, Has

LEMMA SamePeriod ==
  ASSUME FiguresInv, NEW o, ~AtItsEdge(o)
  PROVE  InCurrentPeriod(o, user, now) <=> o \in Period.start .. Period.end
<1>1. PICK first \in {509, 502, 485} : CurrentPeriod(user).start = first
  BY PeriodOfUser
<1>2. user.nextPayDate # NoDate /\ CurrentPeriod(user).end = 515
  BY PeriodOfUser
<1>3. user.offset \in {0, 10}
  BY DEF FiguresInv, Tables, Users
<1>4. Period.start = 24 * first - user.offset /\ Period.end = 24 * 515 + 23 - user.offset
  BY <1>1, <1>2 DEF Period, Instants
<1>5. InCurrentPeriod(o, user, now) <=> o \in 24 * first .. 24 * 515
  BY <1>1, <1>2 DEF InCurrentPeriod
<1>6. o \in 24 * first .. 24 * 515 => o \in Period.start .. Period.end
  BY <1>3, <1>4
<1> QED
  BY <1>1, <1>2, <1>5, <1>6 DEF AtItsEdge

LEMMA OccurrencesAre == ASSUME FiguresInv PROVE OccurrencesCounted
<1> SUFFICES ASSUME NEW bill \in Bills, NEW o \in Occurrences(bill, Horizon), ~AtItsEdge(o),
                    IF o = bill.due THEN Moves(bill) = {} ELSE o \notin Period.start .. Period.end
             PROVE  Counted(bill, o) = 1
  BY DEF OccurrencesCounted
<1> DEFINE occurring == {e \in TheForecast.events : e.kind = "RECURRING_BILL" /\ e.id = bill.id /\ e.of = o}
           committed == IF o = bill.due /\ bill \in Committed(rows, bill.source, Period) THEN 1 ELSE 0
<1>1. Counted(bill, o) = committed + Cardinality(occurring)
  BY DEF Counted
<1>2. bill \in Committed(rows, bill.source, Period) <=> bill.due \in Period.start .. Period.end
  BY CommittedWhenDue
<1>3. \E e : occurring = IF InCurrentPeriod(o, user, now) THEN {} ELSE {e}
  <2> DEFINE event == Event("RECURRING_BILL", bill.id, o,
                 IF o < 24 * Today(user, now) - user.offset THEN Today(user, now) ELSE Day(o), -bill.amount)
  <2>1. o = bill.due => Moves(bill) = {}
    OBVIOUS
  <2>2. occurring = IF InCurrentPeriod(o, user, now) THEN {} ELSE {event}
    BY <2>1, EventsOfBill, Zenon
  <2> HIDE DEF occurring, event
  <2> QED
    BY <2>2
<1>4. InCurrentPeriod(o, user, now) <=> o \in Period.start .. Period.end
  BY SamePeriod
<1> HIDE DEF occurring
<1>5. Cardinality(occurring) = IF InCurrentPeriod(o, user, now) THEN 0 ELSE 1
  BY <1>3, FS_EmptySet, FS_Singleton
<1>6. CASE o \in Period.start .. Period.end
  BY <1>1, <1>2, <1>4, <1>5, <1>6
<1>7. CASE o \notin Period.start .. Period.end
  BY <1>1, <1>2, <1>4, <1>5, <1>7
<1> QED
  BY <1>6, <1>7

\* Away from the edge of the period and but for later occurrences in it, every
\* occurrence of a bill that no plan moves is counted once, in the balance of today
\* or as an event (getForecast, buildRecurringBillEvents).
THEOREM OccurrencesTold == Spec => []OccurrencesCounted
<1>1. FiguresInv => OccurrencesCounted
  BY OccurrencesAre
<1> QED
  BY <1>1, TablesHold, PTL

\* An occurrence and its event.
BillEvent(bill, o) ==
    Event("RECURRING_BILL", bill.id, o,
          IF o < 24 * Today(user, now) - user.offset THEN Today(user, now) ELSE Day(o), -bill.amount)

LEMMA BillEventIs ==
  ASSUME NEW bill, NEW o
  PROVE  /\ BillEvent(bill, o).kind = "RECURRING_BILL" /\ BillEvent(bill, o).id = bill.id /\ BillEvent(bill, o).of = o
         /\ BillEvent(bill, o).amount = -bill.amount
         /\ BillEvent(bill, o).day = IF o < 24 * Today(user, now) - user.offset THEN Today(user, now) ELSE Day(o)
  BY DEF BillEvent, Event

LEMMA BillsMovedAre ==
  ASSUME NEW changes
  PROVE  /\ \A e \in BillsMoved(changes) : \E bill \in Bills : \E o \in Occurrences(bill, Horizon) :
               ~InCurrentPeriod(o, user, now) /\ ~MovedAway(bill, o, changes) /\ e = BillEvent(bill, o)
         /\ \A bill \in Bills : \A o \in Occurrences(bill, Horizon) :
               ~InCurrentPeriod(o, user, now) /\ ~MovedAway(bill, o, changes) => BillEvent(bill, o) \in BillsMoved(changes)
<1>1. BillsMoved(changes) = UNION {BillEvents(bill, user, now, Horizon, changes) : bill \in Bills}
  BY DEF BillsMoved, buildRecurringBillEvents
<1>2. ASSUME NEW bill
      PROVE  BillEvents(bill, user, now, Horizon, changes) =
                 {BillEvent(bill, o) : o \in {d \in Occurrences(bill, Horizon) :
                     ~InCurrentPeriod(d, user, now) /\ ~MovedAway(bill, d, changes)}}
  BY DEF BillEvents, BillEvent
<1> QED
  BY <1>1, <1>2

LEMMA BillsMovedPriced ==
  ASSUME FiguresInv, user.offset = 0, \A bill \in Bills : Hour(bill.due) = 0, NEW changes
  PROVE  Priced(BillsMoved(changes))
<1> DEFINE f == [bill \in Bills |-> BillEvents(bill, user, now, Horizon, changes)]
<1>1. IsFiniteSet(Bills) /\ \A bill \in Bills : bill.amount \in Int
  BY BillsAre
<1>2. ASSUME NEW bill \in Bills PROVE IsFiniteSet(f[bill])
  <2> DEFINE occurrences == {d \in Occurrences(bill, Horizon) :
                                 ~InCurrentPeriod(d, user, now) /\ ~MovedAway(bill, d, changes)}
             g == [o \in occurrences |-> BillEvent(bill, o)]
  <2>1. occurrences \in SUBSET Occurrences(bill, Horizon)
    OBVIOUS
  <2>2. f[bill] = {g[o] : o \in occurrences} /\ DOMAIN g = occurrences
    BY DEF BillEvents, BillEvent
  <2> HIDE DEF occurrences, g, f
  <2>3. IsFiniteSet(occurrences)
    BY <2>1, OccurrencesOf, FS_Subset
  <2> QED
    BY <2>2, <2>3, FiniteKeys
<1>3. BillsMoved(changes) = UNION {f[bill] : bill \in Bills} /\ DOMAIN f = Bills
  BY DEF BillsMoved, buildRecurringBillEvents
<1> HIDE DEF f
<1>4. IsFiniteSet(BillsMoved(changes))
  <2>1. IsFiniteSet({f[bill] : bill \in Bills}) /\ \A T \in {f[bill] : bill \in Bills} : IsFiniteSet(T)
    BY <1>1, <1>2, <1>3, FiniteKeys
  <2> QED
    BY <1>3, <2>1, FS_UNION
<1>5. ASSUME NEW e \in BillsMoved(changes) PROVE e.amount \in Int
  <2>1. PICK bill \in Bills : \E o \in Occurrences(bill, Horizon) : e = BillEvent(bill, o)
    BY BillsMovedAre
  <2> QED
    BY <1>1, <2>1, BillEventIs
<1> QED
  BY <1>4, <1>5 DEF Priced

\* The bill that a plan moves.
MovedBill(plan) == CHOOSE bill \in Bills : bill.id = plan.linked

LEMMA MovedBillIs ==
  ASSUME FiguresInv, MovesAsMeant, NEW plan \in BillChanges(plans)
  PROVE  /\ MovedBill(plan) \in Bills /\ MovedBill(plan).id = plan.linked
         /\ plan.amount = -MovedBill(plan).amount /\ MovedBill(plan).due <= Horizon
         /\ \A bill \in Bills : bill.id = plan.linked => bill = MovedBill(plan)
<1>1. PICK bill \in Bills : bill.id = plan.linked /\ plan.amount = -bill.amount /\ bill.due <= Horizon
  BY DEF MovesAsMeant
<1>2. MovedBill(plan) \in Bills /\ MovedBill(plan).id = plan.linked
  BY <1>1 DEF MovedBill
<1> QED
  BY <1>1, <1>2, BillsAre

\* No two plans move the same bill.
LEMMA MovedOnce ==
  ASSUME FiguresInv, MovesAsMeant, NEW p \in BillChanges(plans), NEW q \in BillChanges(plans), MovedBill(p) = MovedBill(q)
  PROVE  p = q
<1> DEFINE bill == MovedBill(p)
<1>1. bill \in Bills /\ bill.id = p.linked /\ bill.id = q.linked
  BY MovedBillIs
<1>2. p \in Moves(bill) /\ q \in Moves(bill)
  BY <1>1 DEF Moves
<1>3. IsFiniteSet(Moves(bill)) /\ Cardinality(Moves(bill)) <= 1
  <2>1. Moves(bill) \in SUBSET plans
    BY DEF Moves, BillChanges
  <2> QED
    BY <1>1, <2>1, PlansAre, FS_Subset DEF MovesAsMeant
<1> HIDE DEF bill
<1>4. Cardinality(Moves(bill)) \in Nat
  BY <1>3, FS_CardinalityType
<1>5. Cardinality(Moves(bill)) = 0 \/ Cardinality(Moves(bill)) = 1
  BY <1>3, <1>4
<1> QED
  BY <1>2, <1>3, <1>5, FS_EmptySet, FS_Singleton

\* The plans whose bills the balance of today does not hold already.
MovesOfLater == {plan \in BillChanges(plans) : ~InCurrentPeriod(MovedBill(plan).due, user, now)}
OldEvent(plan) == BillEvent(MovedBill(plan), MovedBill(plan).due)

\* What the plans take away from the bills' events: those on the due dates.
LEMMA MovedAwayAre ==
  ASSUME FiguresInv, MovesAsMeant
  PROVE  /\ BillsMoved(BillChanges(plans)) \subseteq BillsMoved({})
         /\ BillsMoved({}) \ BillsMoved(BillChanges(plans)) = {OldEvent(plan) : plan \in MovesOfLater}
<1>1. user.offset = 0 /\ \A bill \in Bills : Hour(bill.due) = 0
  BY DEF MovesAsMeant
<1>2. \A bill, o : ~MovedAway(bill, o, {})
  BY DEF MovedAway
<1>3. BillsMoved(BillChanges(plans)) \subseteq BillsMoved({})
  <2>1. ASSUME NEW e \in BillsMoved(BillChanges(plans)) PROVE e \in BillsMoved({})
    <3>1. PICK bill \in Bills : \E o \in Occurrences(bill, Horizon) :
              ~InCurrentPeriod(o, user, now) /\ e = BillEvent(bill, o)
      BY BillsMovedAre
    <3> QED
      BY <1>2, <3>1, BillsMovedAre
  <2> QED
    BY <2>1
<1>4. ASSUME NEW e \in BillsMoved({}), e \notin BillsMoved(BillChanges(plans))
      PROVE  \E plan \in MovesOfLater : e = OldEvent(plan)
  <2>1. PICK bill \in Bills : \E o \in Occurrences(bill, Horizon) :
            ~InCurrentPeriod(o, user, now) /\ e = BillEvent(bill, o)
    BY BillsMovedAre
  <2>2. PICK o \in Occurrences(bill, Horizon) : ~InCurrentPeriod(o, user, now) /\ e = BillEvent(bill, o)
    BY <2>1
  <2>3. MovedAway(bill, o, BillChanges(plans))
    BY <1>4, <2>2, BillsMovedAre
  <2>4. PICK plan \in BillChanges(plans) : plan.linked = bill.id
    BY <2>3 DEF MovedAway
  <2>5. o = bill.due
    BY <1>1, <2>3, OccurrencesOf DEF MovedAway
  <2>6. MovedBill(plan) = bill
    BY <2>4, MovedBillIs
  <2> QED
    BY <2>2, <2>4, <2>5, <2>6 DEF MovesOfLater, OldEvent
<1>5. ASSUME NEW plan \in MovesOfLater
      PROVE  OldEvent(plan) \in BillsMoved({}) /\ OldEvent(plan) \notin BillsMoved(BillChanges(plans))
  <2> DEFINE bill == MovedBill(plan)
  <2>1. plan \in BillChanges(plans) /\ ~InCurrentPeriod(bill.due, user, now)
    BY DEF MovesOfLater
  <2>2. bill \in Bills /\ bill.id = plan.linked /\ bill.due <= Horizon
    BY <2>1, MovedBillIs
  <2>3. OldEvent(plan) = BillEvent(bill, bill.due)
    BY DEF OldEvent
  <2> HIDE DEF bill
  <2>4. bill.due \in Occurrences(bill, Horizon)
    BY <1>1, <2>2, OccurrencesOf
  <2>5. BillEvent(bill, bill.due) \in BillsMoved({})
    BY <1>2, <2>1, <2>2, <2>4, BillsMovedAre
  <2>6. ASSUME BillEvent(bill, bill.due) \in BillsMoved(BillChanges(plans)) PROVE FALSE
    <3>1. PICK other \in Bills : \E o \in Occurrences(other, Horizon) :
              ~MovedAway(other, o, BillChanges(plans)) /\ BillEvent(bill, bill.due) = BillEvent(other, o)
      BY <2>6, BillsMovedAre
    <3>2. PICK o \in Occurrences(other, Horizon) :
              ~MovedAway(other, o, BillChanges(plans)) /\ BillEvent(bill, bill.due) = BillEvent(other, o)
      BY <3>1
    <3>3. bill.id = other.id /\ bill.due = o
      BY <3>2, BillEventIs
    <3>4. other = bill
      BY <2>2, <3>3, BillsAre
    <3>5. MovedAway(bill, bill.due, BillChanges(plans))
      BY <2>1, <2>2 DEF MovedAway
    <3> QED
      BY <3>2, <3>3, <3>4, <3>5
  <2> QED
    BY <2>3, <2>5, <2>6
<1> QED
  BY <1>3, <1>4, <1>5

\* A plan of a bill gives as much back in the balance of today, or in the bill's
\* events, as it takes.
Back(plan) == IF InCurrentPeriod(MovedBill(plan).due, user, now) THEN 0 ELSE plan.amount

LEMMA AdjustmentIs ==
  ASSUME FiguresInv, MovesAsMeant
  PROVE  LET moves == BillChanges(plans)
         IN  /\ IsFiniteSet(moves)
             /\ billChangeAdjustment(Bills, plans, user, now) \in Int
             /\ SumFunctionOnSet([plan \in moves |-> Back(plan)], moves)
                  = SumFunctionOnSet([plan \in plans |-> plan.amount], moves)
                      + billChangeAdjustment(Bills, plans, user, now)
<1> DEFINE moves == BillChanges(plans)
           amounts == [plan \in plans |-> plan.amount]
           back == [plan \in moves |-> Back(plan)]
           given == [plan \in moves |->
                        Total({bill \in Bills : bill.id = plan.linked /\ InCurrentPeriod(bill.due, user, now)})]
<1>1. moves \in SUBSET plans /\ IsFiniteSet(moves)
  <2>1. moves \in SUBSET plans
    BY DEF BillChanges
  <2> HIDE DEF moves
  <2> QED
    BY <2>1, PlansAre, FS_Subset
<1>2. billChangeAdjustment(Bills, plans, user, now) = SumFunctionOnSet(given, moves)
  BY DEF billChangeAdjustment, SumFunction
<1>3. ASSUME NEW plan \in moves
      PROVE  given[plan] = IF InCurrentPeriod(MovedBill(plan).due, user, now) THEN -plan.amount ELSE 0
  <2> DEFINE some == {bill \in Bills : bill.id = plan.linked /\ InCurrentPeriod(bill.due, user, now)}
  <2>1. /\ MovedBill(plan) \in Bills /\ MovedBill(plan).id = plan.linked /\ plan.amount = -MovedBill(plan).amount
        /\ \A bill \in Bills : bill.id = plan.linked => bill = MovedBill(plan)
    BY MovedBillIs
  <2>2. MovedBill(plan).amount \in Int /\ MovedBill(plan).amount = -plan.amount
    <3>1. MovedBill(plan).amount \in Nat
      BY <2>1, BillsAre
    <3> QED
      BY <2>1, <3>1
  <2>3. CASE InCurrentPeriod(MovedBill(plan).due, user, now)
    <3>1. some = {MovedBill(plan)}
      BY <2>1, <2>3
    <3>2. Total(some) = MovedBill(plan).amount
      <4> DEFINE f == [row \in some |-> row.amount]
      <4>1. Total(some) = SumFunctionOnSet(f, some)
        BY DEF Total, SumFunction
      <4>2. f[MovedBill(plan)] = MovedBill(plan).amount
        BY <3>1
      <4> HIDE DEF f, some
      <4>3. f[MovedBill(plan)] \in Int
        BY <2>2, <4>2
      <4>4. SumFunctionOnSet(f, {MovedBill(plan)}) = f[MovedBill(plan)]
        BY <4>3, SumOfOne
      <4> QED
        BY <3>1, <4>1, <4>2, <4>4
    <3> QED
      BY <2>2, <2>3, <3>2
  <2>4. CASE ~InCurrentPeriod(MovedBill(plan).due, user, now)
    <3>1. some = {}
      BY <2>1, <2>4
    <3> QED
      BY <2>4, <3>1, TotalOfNone
  <2> QED
    BY <2>3, <2>4
<1>4. ASSUME NEW plan \in moves
      PROVE  amounts[plan] \in Int /\ given[plan] \in Int /\ back[plan] = amounts[plan] + given[plan]
  <2>1. plan \in plans /\ plan.amount \in Int
    BY <1>1, PlansAre
  <2>2. amounts[plan] = plan.amount /\ back[plan] = Back(plan)
    BY <2>1
  <2> HIDE DEF amounts, given, back
  <2> QED
    BY <1>3, <2>1, <2>2 DEF Back
<1> HIDE DEF moves, amounts, back, given
<1>5. SumFunctionOnSet(back, moves) = SumFunctionOnSet(amounts, moves) + SumFunctionOnSet(given, moves)
  BY <1>1, <1>4, SumOfAdded
<1>6. SumFunctionOnSet(given, moves) \in Int
  BY <1>1, <1>4, SumOfInt
<1>7. /\ IsFiniteSet(moves)
      /\ billChangeAdjustment(Bills, plans, user, now) \in Int
      /\ SumFunctionOnSet(back, moves)
           = SumFunctionOnSet(amounts, moves) + billChangeAdjustment(Bills, plans, user, now)
  BY <1>1, <1>2, <1>5, <1>6
<1> QED
  BY <1>7 DEF moves, amounts, back

\* What is taken away is shown within the horizon, and comes to what is given back.
TakenAway == BillsMoved({}) \ BillsMoved(BillChanges(plans))

LEMMA MovedTotal ==
  ASSUME FiguresInv, MovesAsMeant
  PROVE  /\ Shown(TakenAway) = TakenAway
         /\ Total(TakenAway) = SumFunctionOnSet([plan \in BillChanges(plans) |-> Back(plan)], BillChanges(plans))
<1> DEFINE moves == BillChanges(plans)
           back == [plan \in moves |-> Back(plan)]
           f == [plan \in MovesOfLater |-> OldEvent(plan)]
<1>1. IsFiniteSet(moves) /\ MovesOfLater \in SUBSET moves
  BY AdjustmentIs DEF MovesOfLater
<1>2. TakenAway = {f[plan] : plan \in MovesOfLater}
  <2>1. TakenAway = {OldEvent(plan) : plan \in MovesOfLater}
    BY MovedAwayAre DEF TakenAway
  <2> QED
    BY <2>1
<1>3. ASSUME NEW plan \in MovesOfLater
      PROVE  /\ MovedBill(plan) \in Bills /\ back[plan] \in Int /\ f[plan].amount = back[plan]
             /\ f[plan].id = MovedBill(plan).id
             /\ f[plan].day \in 511 .. 511 + Days
  <2>1. plan \in moves /\ ~InCurrentPeriod(MovedBill(plan).due, user, now)
    BY DEF MovesOfLater
  <2>2. MovedBill(plan) \in Bills /\ plan.amount = -MovedBill(plan).amount /\ MovedBill(plan).due <= Horizon
    BY <2>1, MovedBillIs
  <2>3. plan.amount \in Int
    BY <2>1, PlansAre DEF BillChanges
  <2>4. back[plan] = plan.amount
    BY <2>1 DEF Back
  <2>5. f[plan] = BillEvent(MovedBill(plan), MovedBill(plan).due)
    BY DEF OldEvent
  <2> HIDE DEF f, back
  <2>6. f[plan].amount = back[plan] /\ f[plan].id = MovedBill(plan).id
    BY <2>2, <2>4, <2>5, BillEventIs
  <2>7. f[plan].day \in 511 .. 511 + Days
    <3>1. Today(user, now) = 511 /\ Horizon = 24 * (511 + Days) + 23 /\ Days \in Nat /\ user.offset = 0
      BY HorizonIs DEF MovesAsMeant
    <3>2. MovedBill(plan).due \in Nat
      BY <2>2, BillsAre
    <3>3. f[plan].day = IF MovedBill(plan).due < 24 * 511 THEN 511 ELSE Day(MovedBill(plan).due)
      <4>1. 24 * Today(user, now) - user.offset = 24 * 511
        BY <3>1
      <4> QED
        BY <2>5, <3>1, <4>1, BillEventIs
    <3>4. \A n, d \in Nat : 24 * 511 <= n /\ n <= 24 * (511 + d) + 23 => n \div 24 \in 511 .. 511 + d
      OBVIOUS
    <3>5. Day(MovedBill(plan).due) = MovedBill(plan).due \div 24
      BY DEF Day
    <3> QED
      BY <2>2, <3>1, <3>2, <3>3, <3>4, <3>5
  <2> QED
    BY <2>2, <2>3, <2>4, <2>6, <2>7
<1>4. ASSUME NEW p \in MovesOfLater, NEW q \in MovesOfLater, f[p] = f[q] PROVE p = q
  <2>1. MovedBill(p) = MovedBill(q)
    <3>1. MovedBill(p).id = MovedBill(q).id
      BY <1>3, <1>4
    <3> QED
      BY <1>3, <3>1, BillsAre
  <2> QED
    BY <1>1, <2>1, MovedOnce
<1>5. ASSUME NEW plan \in moves PROVE back[plan] \in Int /\ (plan \notin MovesOfLater => back[plan] = 0)
  <2>1. plan.amount \in Int
    BY <1>5, PlansAre DEF BillChanges
  <2>2. back[plan] = Back(plan)
    OBVIOUS
  <2> HIDE DEF back
  <2> QED
    BY <2>1, <2>2 DEF Back, MovesOfLater
<1>6. Shown(TakenAway) = TakenAway
  <2>1. Today(user, now) = 511
    BY HorizonIs DEF MovesAsMeant
  <2>2. \A plan \in MovesOfLater : f[plan].day \in 511 .. 511 + Days
    BY <1>3
  <2> HIDE DEF f
  <2>3. \A e \in TakenAway : e.day \in 511 .. 511 + Days
    BY <1>2, <2>2
  <2> QED
    BY <2>1, <2>3 DEF Shown
<1>7. IsFiniteSet(MovesOfLater)
  <2> HIDE DEF moves
  <2> QED
    BY <1>1, FS_Subset
<1>8. DOMAIN f = MovesOfLater
  OBVIOUS
<1> HIDE DEF f, back, moves
<1>9. Total(TakenAway) = SumFunctionOnSet(back, MovesOfLater)
  <2>1. \A plan \in MovesOfLater : back[plan] \in Int /\ f[plan].amount = back[plan]
    BY <1>3
  <2> QED
    BY <1>2, <1>4, <1>7, <1>8, <2>1, TotalOfImage
<1>10. SumFunctionOnSet(back, moves) = SumFunctionOnSet(back, MovesOfLater)
  <2>1. SumFunctionOnSet(back, moves)
          = SumFunctionOnSet(back, MovesOfLater) + SumFunctionOnSet(back, moves \ MovesOfLater)
    BY <1>1, <1>5, SumOfSplit
  <2>2. SumFunctionOnSet(back, moves \ MovesOfLater) = 0
    <3>1. IsFiniteSet(moves \ MovesOfLater) /\ \A plan \in moves \ MovesOfLater : back[plan] = 0
      BY <1>1, <1>5, FS_Subset
    <3> QED
      BY <3>1, SumOfZeros
  <2>3. SumFunctionOnSet(back, MovesOfLater) \in Int
    BY <1>1, <1>5, <1>7, SumOfInt
  <2> QED
    BY <2>1, <2>2, <2>3
<1> QED
  BY <1>6, <1>9, <1>10 DEF back, moves

\* The plans that are shown come to what they cost.
LEMMA PlanEventsAre ==
  ASSUME FiguresInv, MovesAsMeant
  PROVE  LET amounts == [plan \in plans |-> plan.amount]
             within == {plan \in plans : Within(plan)}
         IN  /\ Priced(PlanEvents) /\ \A e \in PlanEvents : e.kind = "PLAN"
             /\ Shown(PlanEvents) = PlanEvents
             /\ Total(PlanEvents) = SumFunctionOnSet(amounts, within)
<1> DEFINE amounts == [plan \in plans |-> plan.amount]
           within == {plan \in plans : Within(plan)}
           f == [plan \in within |-> Event("PLAN", plan.id, plan.date, Day(plan.date), plan.amount)]
<1>1. IsFiniteSet(plans) /\ \A plan \in plans : plan.amount \in Int /\ plan.date \in Nat
  BY PlansAre
<1>2. PlanEvents = {f[plan] : plan \in within}
  BY DEF PlanEvents, buildPlanEvents, Within
<1>3. ASSUME NEW plan \in within
      PROVE  /\ f[plan].kind = "PLAN" /\ f[plan].id = plan.id /\ f[plan].amount = plan.amount
             /\ f[plan].day = Day(plan.date)
  BY DEF Event
<1>4. DOMAIN f = within
  OBVIOUS
<1>5. within \in SUBSET plans
  OBVIOUS
<1>6. ASSUME NEW plan \in within PROVE amounts[plan] \in Int /\ f[plan].amount = amounts[plan]
  <2>1. plan \in plans /\ amounts[plan] = plan.amount
    OBVIOUS
  <2> HIDE DEF f, amounts
  <2> QED
    BY <1>1, <1>3, <2>1
<1>7. ASSUME NEW plan \in within PROVE f[plan].day \in 511 .. 511 + Days
  <2>1. Today(user, now) = 511 /\ Horizon = 24 * (511 + Days) + 23 /\ Days \in Nat /\ user.offset = 0
    BY HorizonIs DEF MovesAsMeant
  <2>2. plan.date \in Nat /\ plan.date \in 24 * 511 .. 24 * (511 + Days) + 23
    <3>1. 24 * Today(user, now) - user.offset = 24 * 511
      BY <2>1
    <3> QED
      BY <1>1, <2>1, <3>1 DEF Within
  <2>3. \A n, d \in Nat : 24 * 511 <= n /\ n <= 24 * (511 + d) + 23 => n \div 24 \in 511 .. 511 + d
    OBVIOUS
  <2>4. Day(plan.date) \in 511 .. 511 + Days
    BY <2>1, <2>2, <2>3 DEF Day
  <2> HIDE DEF f
  <2> QED
    BY <1>3, <2>4
<1> HIDE DEF f
<1>8. ASSUME NEW p \in within, NEW q \in within, f[p] = f[q] PROVE p = q
  <2>1. p.id = q.id
    BY <1>3, <1>8
  <2> QED
    BY <1>5, <2>1, PlansAre
<1>9. Shown(PlanEvents) = PlanEvents
  <2>1. Today(user, now) = 511
    BY HorizonIs DEF MovesAsMeant
  <2> HIDE DEF within
  <2> QED
    BY <1>2, <1>7, <2>1 DEF Shown
<1> HIDE DEF within, amounts
<1>10. \A e \in PlanEvents : e.kind = "PLAN"
  BY <1>2, <1>3
<1>11. IsFiniteSet(within)
  BY <1>1, <1>5, FS_Subset
<1>12. Priced(PlanEvents) /\ Total(PlanEvents) = SumFunctionOnSet(amounts, within)
  BY <1>2, <1>4, <1>6, <1>8, <1>11, TotalOfImage
<1> QED
  BY <1>9, <1>10, <1>12 DEF within, amounts

\* The balance of today is a number.
LEMMA BalanceTyped == ASSUME FiguresInv PROVE baseTodaysBalance(Summary) \in Int
<1> DEFINE some == {e \in Summary.incomeLedger : e.id # None}
           f == [entry \in some |-> entry.left]
<1>1. baseTodaysBalance(Summary) = Summary.leftToSpendSafe + SumFunctionOnSet(f, some)
  BY DEF baseTodaysBalance, SumFunction
<1>2. /\ user.income \in Int /\ user.rollover \in Int
      /\ calculateGoals(Goals, contributions, Period, user.frequency).paidSoFar \in Int
  BY SummaryTyped
<1>3. ASSUME NEW k
      PROVE  /\ Total(AdditionalIncome(rows, k, Period)) \in Int /\ Total(Committed(rows, k, Period)) \in Int
             /\ Total(Unplanned(rows, k, Period)) \in Int /\ Total(CashContributions(contributions, k, Period)) \in Int
  <2>1. Rows(rows) /\ Contributed(contributions)
    BY DEF FiguresInv, Tables
  <2> QED
    BY <2>1, PartsOfPeriod, TotalInt
<1>4. /\ Summary.leftToSpendSafe =
           (user.income + Total(AdditionalIncome(rows, None, Period)) + user.rollover)
             - (Total(Committed(rows, None, Period)) + Total(Unplanned(rows, None, Period))
                + calculateGoals(Goals, contributions, Period, user.frequency).paidSoFar)
      /\ Summary.incomeLedger = calculateIncomeLedger(rows, contributions, user, Sources, Period)
  BY LeftToSpend
<1>5. Summary.leftToSpendSafe \in Int
  BY <1>2, <1>3, <1>4
<1>6. ASSUME NEW k \in Pools PROVE EntryOf(k).left \in Int
  <2>1. Carried[k] \in Int
    BY <1>2 DEF Carried
  <2>2. EntryOf(k).left = (Carried[k] + Total(AdditionalIncome(rows, k, Period)))
            - (Total(Committed(rows, k, Period)) + Total(Unplanned(rows, k, Period))
               + Total(CashContributions(contributions, k, Period)))
    BY EntryIs DEF EntryOf
  <2> QED
    BY <1>3, <2>1, <2>2
<1>7. \A e \in some : e.id \in Pools /\ e = EntryOf(e.id)
  BY <1>4, LedgerIs
<1>8. \A e \in some : f[e] \in Int
  BY <1>6, <1>7
<1>9. IsFiniteSet(some)
  <2> DEFINE all == {EntryOf(None), EntryOf(s1), EntryOf(s2)}
  <2>1. IsFiniteSet(all)
    BY FiniteThree
  <2>2. some \in SUBSET all
    BY <1>7 DEF Pools
  <2> HIDE DEF all, some
  <2> QED
    BY <2>1, <2>2, FS_Subset
<1> HIDE DEF some, f
<1>10. SumFunctionOnSet(f, some) \in Int
  BY <1>8, <1>9, SumOfInt
<1> QED
  BY <1>1, <1>5, <1>10

LEMMA MovesAgree == ASSUME FiguresInv PROVE MovesNoMoney
<1> DEFINE moves == BillChanges(plans)
           rest == {p \in plans \ moves : Within(p)}
           shown == SumFunction([plan \in rest |-> plan.amount])
           within == {plan \in plans : Within(plan)}
           amounts == [plan \in plans |-> plan.amount]
           base == baseTodaysBalance(Summary)
           adjustment == billChangeAdjustment(Bills, plans, user, now)
           kept == IncomeEvents \union BillsMoved(moves)
           all == kept \union PlanEvents
           before == IncomeEvents \union BillsMoved({})
<1> SUFFICES ASSUME MovesAsMeant
             PROVE  TheForecast.dailyBalances[Days] - TheForecast.baselineDailyBalances[Days] = shown
  BY DEF MovesNoMoney, MovesAsMeant
<1>1. user.offset = 0 /\ (\A bill \in Bills : Hour(bill.due) = 0) /\ Today(user, now) \in Int /\ Days \in Nat
  BY HorizonIs DEF MovesAsMeant
<1>2. /\ TheForecast.dailyBalances = buildDailyBalances(all, base + adjustment, Today(user, now), Days)
      /\ TheForecast.baselineDailyBalances = buildDailyBalances(before, base, Today(user, now), Days)
  BY DEF TheForecast, getForecast, Horizon, Bills, IncomeEvents, BillsMoved, PlanEvents
<1>3. base \in Int /\ adjustment \in Int
  BY BalanceTyped, AdjustmentIs
<1>4. Priced(IncomeEvents) /\ Priced(BillsMoved(moves)) /\ Priced(BillsMoved({})) /\ Priced(PlanEvents)
  BY <1>1, IncomeEventsAre, BillsMovedPriced, PlanEventsAre
<1>5. ASSUME NEW S, NEW T, Priced(S), Priced(T) PROVE Priced(S \union T)
  BY <1>5, FS_Union DEF Priced
<1>6. BillsMoved(moves) \subseteq BillsMoved({}) /\ TakenAway = BillsMoved({}) \ BillsMoved(moves)
  BY MovedAwayAre DEF TakenAway
<1>7. /\ \A e \in IncomeEvents : e.kind \in {"PRIMARY_INCOME", "INCOME_SOURCE"}
      /\ \A e \in PlanEvents : e.kind = "PLAN"
  BY <1>1, IncomeEventsAre, PlanEventsAre
<1>8. ASSUME NEW changes, NEW e \in BillsMoved(changes) PROVE e.kind = "RECURRING_BILL"
  BY <1>8, BillsMovedAre, BillEventIs
<1>9. Shown(TakenAway) = TakenAway /\ Shown(PlanEvents) = PlanEvents
  BY MovedTotal, PlanEventsAre
<1> HIDE DEF moves, base, adjustment
<1>10. Priced(kept) /\ Priced(all) /\ Priced(before)
  BY <1>4, <1>5
<1>11. /\ Shown(all) = Shown(kept) \union PlanEvents /\ Shown(kept) \intersect PlanEvents = {}
       /\ Shown(before) = Shown(kept) \union TakenAway /\ Shown(kept) \intersect TakenAway = {}
  <2>1. Shown(all) = Shown(kept) \union Shown(PlanEvents)
    BY DEF Shown
  <2>2. kept \intersect PlanEvents = {} /\ kept \intersect TakenAway = {} /\ before = kept \union TakenAway
    BY <1>6, <1>7, <1>8
  <2> HIDE DEF kept, before, all
  <2>3. Shown(before) = Shown(kept) \union Shown(TakenAway) /\ Shown(kept) \subseteq kept
    BY <2>2 DEF Shown
  <2> QED
    BY <1>9, <2>1, <2>2, <2>3
<1> HIDE DEF kept, before, all
<1>12. /\ TheForecast.dailyBalances[Days] = base + adjustment + Total(Shown(all))
       /\ TheForecast.baselineDailyBalances[Days] = base + Total(Shown(before))
  <2>1. base + adjustment \in Int
    BY <1>3
  <2>2. /\ TheForecast.dailyBalances[Days] = (base + adjustment) + Total(Shown(all))
        /\ TheForecast.baselineDailyBalances[Days] = base + Total(Shown(before))
    BY <1>1, <1>2, <1>3, <1>10, <2>1, BalancesAre DEF Shown
  <2> QED
    BY <2>2
<1>13. /\ Priced(Shown(all)) /\ Priced(Shown(before))
       /\ Total(Shown(kept)) \in Int /\ Total(PlanEvents) \in Int /\ Total(TakenAway) \in Int
  <2>1. Shown(all) \in SUBSET all /\ Shown(before) \in SUBSET before /\ Shown(kept) \in SUBSET kept
    BY DEF Shown
  <2>2. TakenAway \in SUBSET before
    BY <1>6 DEF before
  <2> QED
    BY <1>4, <1>10, <2>1, <2>2, PricedPart, TotalInt
<1>14. /\ Total(Shown(all)) = Total(Shown(kept)) + Total(PlanEvents)
       /\ Total(Shown(before)) = Total(Shown(kept)) + Total(TakenAway)
  BY <1>11, <1>13, TotalOfTwo
<1>15. Total(PlanEvents) = SumFunctionOnSet(amounts, within)
  BY PlanEventsAre
<1>16. Total(TakenAway) = SumFunctionOnSet(amounts, moves) + adjustment
  BY MovedTotal, AdjustmentIs DEF moves, adjustment
<1>17. /\ SumFunctionOnSet(amounts, within) = SumFunctionOnSet(amounts, moves) + SumFunctionOnSet(amounts, rest)
       /\ SumFunctionOnSet(amounts, moves) \in Int /\ SumFunctionOnSet(amounts, rest) \in Int
  <2>1. moves \in SUBSET within /\ rest = within \ moves /\ within \in SUBSET plans
    BY DEF moves, MovesAsMeant, BillChanges
  <2>2. \A plan \in plans : amounts[plan] \in Int
    BY PlansAre
  <2> HIDE DEF within, rest, amounts
  <2>3. IsFiniteSet(within) /\ IsFiniteSet(moves) /\ IsFiniteSet(rest)
    BY <2>1, PlansAre, FS_Subset
  <2>4. SumFunctionOnSet(amounts, within)
          = SumFunctionOnSet(amounts, moves) + SumFunctionOnSet(amounts, within \ moves)
    BY <2>1, <2>2, <2>3, SumOfSplit
  <2>5. SumFunctionOnSet(amounts, moves) \in Int /\ SumFunctionOnSet(amounts, rest) \in Int
    BY <2>1, <2>2, <2>3, SumOfInt
  <2> QED
    BY <2>1, <2>4, <2>5
<1>18. shown = SumFunctionOnSet(amounts, rest)
  <2> DEFINE f == [plan \in rest |-> plan.amount]
  <2>1. DOMAIN f = rest /\ \A plan \in rest : f[plan] = amounts[plan]
    OBVIOUS
  <2>2. IsFiniteSet(rest)
    <3>1. rest \in SUBSET plans
      OBVIOUS
    <3> HIDE DEF rest
    <3> QED
      BY <3>1, PlansAre, FS_Subset
  <2>3. shown = SumFunction(f)
    OBVIOUS
  <2> HIDE DEF f, rest, amounts, shown
  <2> QED
    BY <2>1, <2>2, <2>3, SumOfColumn
<1> HIDE DEF shown, rest, within, amounts
<1> QED
  BY <1>3, <1>12, <1>13, <1>14, <1>15, <1>16, <1>17, <1>18

\* Moving bills to other days of the forecast costs nothing: what the plans take is
\* given back, in the balance of today or in the bills' own events, and so the
\* forecast ends as it would without them but for the other plans, for any bills,
\* plans and horizon (billChangeAdjustment, buildRecurringBillEvents).
THEOREM MovesTold == Spec => []MovesNoMoney
<1>1. FiguresInv => MovesNoMoney
  BY MovesAgree
<1> QED
  BY <1>1, TablesHold, PTL
================================================================================
