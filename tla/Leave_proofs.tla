---------------------------- MODULE Leave_proofs ----------------------------
(***************************************************************************)
(* Theorems about Leave, for every set of employees, requests, handlers    *)
(* and days.                                                               *)
(***************************************************************************)
EXTENDS Leave, FiniteSetTheorems, WellFoundedInduction, TLAPS

-----------------------------------------------------------------------------
(***************************************************************************)
(* Lemmas about SumFunctionOnSet and SumFunction of the module Functions:  *)
(* the empty sum, one summand taken out, the type of a sum, and what       *)
(* changing a single summand does.  Leave_proofs needs them for the days   *)
(* of the requests charged to a balance.                                   *)
(*                                                                         *)
(* The operators are defined by a recursive function on SUBSET S.  That it *)
(* exists and is unique for a finite S is shown by taking a minimal set on *)
(* which it does not, or is not.                                           *)
(***************************************************************************)

Pick(s) == CHOOSE x \in s : TRUE

\* g is the function that adds f up over every subset of S.
AddsUp(g, f, S) ==
    g = [s \in SUBSET S |-> IF s = {} THEN 0
                            ELSE f[Pick(s)] + g[s \ {Pick(s)}]]

Adder(f, S) == CHOOSE g : AddsUp(g, f, S)

\* A nonempty collection of subsets of a finite set has a minimal member.
LEMMA MinimalSubset ==
    ASSUME NEW S, IsFiniteSet(S), NEW B, B \subseteq SUBSET S, B # {}
    PROVE  \E T \in B : \A U \in B : U \subseteq T => U = T
<1>1. IsWellFoundedOn(StrictSubsetOrdering(S), FiniteSubsetsOf(S))
  BY FS_StrictSubsetOrderingWellFounded
<1>2. B \subseteq FiniteSubsetsOf(S)
  <2>1. \A T \in SUBSET S : IsFiniteSet(T)
    BY FS_Subset
  <2> QED BY <2>1 DEF FiniteSubsetsOf
<1>3. PICK T \in B : \A U \in B : ~ (<<U, T>> \in StrictSubsetOrdering(S))
  BY <1>1, <1>2, WFMin
<1>4. ASSUME NEW U \in B, U \subseteq T, U # T
      PROVE  <<U, T>> \in StrictSubsetOrdering(S)
  BY <1>4 DEF StrictSubsetOrdering
<1>5. \A U \in B : U \subseteq T => U = T
  BY <1>3, <1>4
<1> QED BY <1>5

LEMMA PickIn == ASSUME NEW s, s # {} PROVE Pick(s) \in s
BY DEF Pick

\* The equation of AddsUp, one subset at a time.
LEMMA AddsUpAt ==
    ASSUME NEW g, NEW f, NEW S, AddsUp(g, f, S), NEW s, s \subseteq S
    PROVE  /\ s = {} => g[s] = 0
           /\ s # {} => g[s] = f[Pick(s)] + g[s \ {Pick(s)}]
<1> DEFINE new == [t \in SUBSET S |-> IF t = {} THEN 0
                            ELSE f[Pick(t)] + g[t \ {Pick(t)}]]
<1>1. g = new
  BY DEF AddsUp
<1>2. s \in SUBSET S
  OBVIOUS
<1>3. new[s] = IF s = {} THEN 0 ELSE f[Pick(s)] + g[s \ {Pick(s)}]
  BY <1>2
<1> QED BY <1>1, <1>3

\* There is at most one such function.
LEMMA AddsUpUnique ==
    ASSUME NEW g, NEW h, NEW f, NEW S, IsFiniteSet(S),
           AddsUp(g, f, S), AddsUp(h, f, S)
    PROVE  g = h
<1> DEFINE B == {s \in SUBSET S : g[s] # h[s]}
<1>1. B = {}
  <2>1. SUFFICES ASSUME B # {} PROVE FALSE
    OBVIOUS
  <2> HIDE DEF B
  <2>2. PICK T \in B : \A U \in B : U \subseteq T => U = T
    <3>1. B \subseteq SUBSET S
      BY DEF B
    <3> QED BY <2>1, <3>1, MinimalSubset
  <2> USE DEF B
  <2>3. T \subseteq S /\ g[T] # h[T]
    OBVIOUS
  <2>4. T # {}
    BY <2>3, AddsUpAt
  <2>5. Pick(T) \in T
    BY <2>4, PickIn
  <2>6. g[T \ {Pick(T)}] = h[T \ {Pick(T)}]
    BY <2>2, <2>3, <2>5
  <2>7. /\ g[T] = f[Pick(T)] + g[T \ {Pick(T)}]
        /\ h[T] = f[Pick(T)] + h[T \ {Pick(T)}]
    BY <2>3, <2>4, AddsUpAt
  <2> QED BY <2>3, <2>6, <2>7
<1>2. DOMAIN g = SUBSET S /\ DOMAIN h = SUBSET S
  BY DEF AddsUp
<1>3. \A s \in SUBSET S : g[s] = h[s]
  BY <1>1
<1>4. g = [s \in SUBSET S |-> g[s]] /\ h = [s \in SUBSET S |-> h[s]]
  BY DEF AddsUp
<1> QED BY <1>3, <1>4

\* It adds up over a subset too.
LEMMA AddsUpRestrict ==
    ASSUME NEW g, NEW f, NEW S, AddsUp(g, f, S), NEW T, T \subseteq S
    PROVE  AddsUp([s \in SUBSET T |-> g[s]], f, T)
<1> DEFINE h == [s \in SUBSET T |-> g[s]]
           new == [s \in SUBSET T |-> IF s = {} THEN 0
                            ELSE f[Pick(s)] + h[s \ {Pick(s)}]]
<1>1. ASSUME NEW s \in SUBSET T
      PROVE  h[s] = new[s]
  <2>1. s \subseteq S /\ s \ {Pick(s)} \in SUBSET T
    OBVIOUS
  <2>2. h[s] = g[s] /\ h[s \ {Pick(s)}] = g[s \ {Pick(s)}]
    BY <2>1
  <2>3. new[s] = IF s = {} THEN 0 ELSE f[Pick(s)] + h[s \ {Pick(s)}]
    OBVIOUS
  <2> QED BY <2>1, <2>2, <2>3, AddsUpAt
<1>2. h = new
  <2> DEFINE D == SUBSET T
  <2>1. /\ h = [s \in SUBSET T |-> h[s]] /\ new = [s \in SUBSET T |-> new[s]]
    OBVIOUS
  <2> HIDE DEF h, new
  <2> QED BY <1>1, <2>1
<1> QED BY <1>2 DEF AddsUp

\* There is one, whatever the values of f are.
LEMMA AddsUpExists ==
    ASSUME NEW f, NEW S, IsFiniteSet(S)
    PROVE  AddsUp(Adder(f, S), f, S)
<1> DEFINE B == {T \in SUBSET S : ~ \E g : AddsUp(g, f, T)}
<1>1. SUFFICES ASSUME B # {} PROVE FALSE
  BY DEF Adder
<1> HIDE DEF B
<1>2. PICK T \in B : \A U \in B : U \subseteq T => U = T
  <2>1. B \subseteq SUBSET S
    BY DEF B
  <2> QED BY <1>1, <2>1, MinimalSubset
<1> USE DEF B
<1>3. T \subseteq S
  OBVIOUS
<1>4. \A u : u \subseteq T /\ u # T => AddsUp(Adder(f, u), f, u)
  BY <1>2, <1>3 DEF Adder
<1>5. \A u : u \subseteq S => IsFiniteSet(u)
  BY FS_Subset
<1> DEFINE W(u) == Adder(f, u)[u]
           h == [s \in SUBSET T |-> IF s = {} THEN 0
                                    ELSE f[Pick(s)] + W(s \ {Pick(s)})]
           new == [s \in SUBSET T |-> IF s = {} THEN 0
                                      ELSE f[Pick(s)] + h[s \ {Pick(s)}]]
<1>6. ASSUME NEW u, u \subseteq T, u # T
      PROVE  h[u] = W(u)
  <2>1. AddsUp(Adder(f, u), f, u)
    BY <1>4, <1>6
  <2>2. CASE u = {}
    <3>1. W(u) = 0
      BY <2>1, <2>2, AddsUpAt
    <3> QED BY <2>2, <3>1
  <2>3. CASE u # {}
    <3> DEFINE v == u \ {Pick(u)}
               k == [s \in SUBSET v |-> Adder(f, u)[s]]
    <3>1. Pick(u) \in u /\ v \subseteq u /\ v \subseteq T /\ v # T
      BY <1>6, <2>3, PickIn
    <3>2. W(u) = f[Pick(u)] + Adder(f, u)[v]
      BY <2>1, <2>3, AddsUpAt
    <3>3. AddsUp(Adder(f, v), f, v)
      BY <1>4, <3>1
    <3>4. AddsUp(k, f, v)
      <4> DEFINE g == Adder(f, u)
      <4>1. AddsUp(g, f, u) /\ v \subseteq u
        BY <2>1, <3>1
      <4> HIDE DEF g, v
      <4>2. AddsUp([s \in SUBSET v |-> g[s]], f, v)
        BY <4>1, AddsUpRestrict
      <4> QED BY <4>2 DEF g
    <3>5. k = Adder(f, v)
      BY <1>3, <1>5, <3>1, <3>3, <3>4, AddsUpUnique
    <3>6. k[v] = Adder(f, u)[v]
      OBVIOUS
    <3>7. W(u) = f[Pick(u)] + W(v)
      BY <3>2, <3>5, <3>6
    <3>8. h[u] = f[Pick(u)] + W(v)
      BY <1>6, <2>3
    <3> QED BY <3>7, <3>8
  <2> QED BY <2>2, <2>3
<1>7. ASSUME NEW s \in SUBSET T
      PROVE  h[s] = new[s]
  <2>1. CASE s = {}
    BY <2>1
  <2>2. CASE s # {}
    <3>1. Pick(s) \in s
      BY <2>2, PickIn
    <3>2. h[s \ {Pick(s)}] = W(s \ {Pick(s)})
      BY <1>6, <3>1
    <3> QED BY <2>2, <3>2
  <2> QED BY <2>1, <2>2
<1>8. h = new
  <2>1. h = [s \in SUBSET T |-> h[s]] /\ new = [s \in SUBSET T |-> new[s]]
    OBVIOUS
  <2> HIDE DEF h, new
  <2> QED BY <1>7, <2>1
<1>9. AddsUp(h, f, T)
  BY <1>8 DEF AddsUp
<1> QED BY <1>2, <1>9

\* What the two operators of Functions are.
LEMMA SumIsAdder ==
    ASSUME NEW f, NEW S
    PROVE  SumFunctionOnSet(f, S) = Adder(f, S)[S]
BY DEF SumFunctionOnSet, FoldFunctionOnSet, MapThenFoldSet, Adder, AddsUp, Pick

\* Nothing adds up to 0.
LEMMA SumEmpty == ASSUME NEW f PROVE SumFunctionOnSet(f, {}) = 0
<1>1. AddsUp(Adder(f, {}), f, {})
  BY AddsUpExists, FS_EmptySet
<1> QED BY <1>1, AddsUpAt, SumIsAdder

\* The summand that the definition takes first.
LEMMA SumPick ==
    ASSUME NEW f, NEW S, IsFiniteSet(S), S # {}
    PROVE  SumFunctionOnSet(f, S) =
               f[Pick(S)] + SumFunctionOnSet(f, S \ {Pick(S)})
<1> DEFINE g == Adder(f, S)
           v == S \ {Pick(S)}
           k == [s \in SUBSET v |-> g[s]]
<1>1. AddsUp(g, f, S) /\ v \subseteq S
  BY AddsUpExists
<1>2. g[S] = f[Pick(S)] + g[v]
  BY <1>1, AddsUpAt
<1>3. IsFiniteSet(v)
  BY FS_Subset
<1>4. k = Adder(f, v)
  <2> HIDE DEF g, v
  <2>1. AddsUp([s \in SUBSET v |-> g[s]], f, v)
    BY <1>1, AddsUpRestrict
  <2>2. AddsUp(k, f, v)
    BY <2>1
  <2>3. AddsUp(Adder(f, v), f, v)
    BY <1>3, AddsUpExists
  <2> QED BY <1>3, <2>2, <2>3, AddsUpUnique
<1>5. k[v] = g[v]
  OBVIOUS
<1> HIDE DEF k, v
<1> QED BY <1>2, <1>4, <1>5, SumIsAdder DEF v

\* A sum of integers is an integer.
LEMMA SumType ==
    ASSUME NEW f, NEW S, IsFiniteSet(S), \A x \in S : f[x] \in Int
    PROVE  SumFunctionOnSet(f, S) \in Int
<1> DEFINE B == {T \in SUBSET S : SumFunctionOnSet(f, T) \notin Int}
<1>1. SUFFICES ASSUME B # {} PROVE FALSE
  OBVIOUS
<1> HIDE DEF B
<1>2. PICK T \in B : \A U \in B : U \subseteq T => U = T
  <2>1. B \subseteq SUBSET S
    BY DEF B
  <2> QED BY <1>1, <2>1, MinimalSubset
<1>3. T \subseteq S /\ SumFunctionOnSet(f, T) \notin Int /\ IsFiniteSet(T)
  BY FS_Subset DEF B
<1>4. T # {}
  BY <1>3, SumEmpty
<1>5. Pick(T) \in T
  BY <1>4, PickIn
<1>6. SumFunctionOnSet(f, T \ {Pick(T)}) \in Int
  <2>1. T \ {Pick(T)} \notin B
    BY <1>2, <1>5
  <2>2. T \ {Pick(T)} \in SUBSET S
    BY <1>3
  <2> QED BY <2>1, <2>2 DEF B
<1>7. SumFunctionOnSet(f, T) = f[Pick(T)] + SumFunctionOnSet(f, T \ {Pick(T)})
  BY <1>3, <1>4, SumPick
<1>8. f[Pick(T)] \in Int
  BY <1>3, <1>5
<1> QED BY <1>3, <1>6, <1>7, <1>8

\* Any summand may be taken out first.
LEMMA SumTakeOut ==
    ASSUME NEW f, NEW S, IsFiniteSet(S), \A x \in S : f[x] \in Int, NEW z \in S
    PROVE  SumFunctionOnSet(f, S) = f[z] + SumFunctionOnSet(f, S \ {z})
<1> DEFINE Sum(T) == SumFunctionOnSet(f, T)
           B == {T \in SUBSET S :
                    \E y \in T : Sum(T) # f[y] + Sum(T \ {y})}
<1>1. SUFFICES ASSUME B # {} PROVE FALSE
  OBVIOUS
<1> HIDE DEF B
<1>2. PICK T \in B : \A U \in B : U \subseteq T => U = T
  <2>1. B \subseteq SUBSET S
    BY DEF B
  <2> QED BY <1>1, <2>1, MinimalSubset
<1>3. T \subseteq S
  BY DEF B
<1>4. PICK y \in T : Sum(T) # f[y] + Sum(T \ {y})
  BY DEF B
<1>5. \A U : U \subseteq S => IsFiniteSet(U) /\ Sum(U) \in Int
  <2>1. \A U : U \subseteq S => IsFiniteSet(U)
    BY FS_Subset
  <2> QED BY <2>1, SumType
<1> DEFINE p == Pick(T)
<1>6. p \in T
  BY PickIn
<1>7. f[p] \in Int /\ f[y] \in Int
  BY <1>3, <1>6
<1>8. Sum(T) = f[p] + Sum(T \ {p})
  BY <1>3, <1>5, SumPick
<1>9. p # y
  BY <1>4, <1>8
<1> HIDE DEF Sum, p
<1>10. \A U, u : U \subseteq T /\ U # T /\ u \in U => Sum(U) = f[u] + Sum(U \ {u})
  BY <1>2, <1>3 DEF B
<1>11. Sum(T \ {p}) = f[y] + Sum((T \ {p}) \ {y})
  BY <1>6, <1>9, <1>10
<1>12. Sum(T \ {y}) = f[p] + Sum((T \ {y}) \ {p})
  BY <1>6, <1>9, <1>10
<1>13. (T \ {y}) \ {p} = (T \ {p}) \ {y}
  OBVIOUS
<1>14. Sum((T \ {p}) \ {y}) \in Int
  <2>1. (T \ {p}) \ {y} \subseteq S
    BY <1>3
  <2> QED BY <1>5, <2>1
<1>15. Sum(T) = f[p] + (f[y] + Sum((T \ {p}) \ {y}))
  BY <1>8, <1>11
<1>16. Sum(T \ {y}) = f[p] + Sum((T \ {p}) \ {y})
  BY <1>12, <1>13
<1> DEFINE rest == Sum((T \ {p}) \ {y})
<1> HIDE DEF rest
<1>17. Sum(T) # f[y] + (f[p] + rest) /\ Sum(T) = f[p] + (f[y] + rest)
       /\ rest \in Int
  BY <1>4, <1>14, <1>15, <1>16 DEF rest
<1> QED BY <1>7, <1>17

\* A sum looks at the function on the set only.
LEMMA SumAgree ==
    ASSUME NEW f, NEW g, NEW S, IsFiniteSet(S), \A x \in S : f[x] = g[x]
    PROVE  SumFunctionOnSet(f, S) = SumFunctionOnSet(g, S)
<1> DEFINE B == {T \in SUBSET S :
                    SumFunctionOnSet(f, T) # SumFunctionOnSet(g, T)}
<1>1. SUFFICES ASSUME B # {} PROVE FALSE
  OBVIOUS
<1> HIDE DEF B
<1>2. PICK T \in B : \A U \in B : U \subseteq T => U = T
  <2>1. B \subseteq SUBSET S
    BY DEF B
  <2> QED BY <1>1, <2>1, MinimalSubset
<1>3. /\ T \subseteq S /\ IsFiniteSet(T)
      /\ SumFunctionOnSet(f, T) # SumFunctionOnSet(g, T)
  BY FS_Subset DEF B
<1>4. T # {}
  BY <1>3, SumEmpty
<1>5. Pick(T) \in T
  BY <1>4, PickIn
<1>6. SumFunctionOnSet(f, T \ {Pick(T)}) = SumFunctionOnSet(g, T \ {Pick(T)})
  <2>1. T \ {Pick(T)} \notin B
    BY <1>2, <1>5
  <2>2. T \ {Pick(T)} \in SUBSET S
    BY <1>3
  <2> QED BY <2>1, <2>2 DEF B
<1>7. /\ SumFunctionOnSet(f, T) =
             f[Pick(T)] + SumFunctionOnSet(f, T \ {Pick(T)})
      /\ SumFunctionOnSet(g, T) =
             g[Pick(T)] + SumFunctionOnSet(g, T \ {Pick(T)})
  BY <1>3, <1>4, SumPick
<1>8. f[Pick(T)] = g[Pick(T)]
  BY <1>3, <1>5
<1> QED BY <1>3, <1>6, <1>7, <1>8

\* Taking away summands that are not negative makes no sum larger.
LEMMA SumMonotone ==
    ASSUME NEW f, NEW S, IsFiniteSet(S), \A x \in S : f[x] \in Int,
           NEW T, T \subseteq S, \A x \in S \ T : f[x] >= 0
    PROVE  SumFunctionOnSet(f, T) <= SumFunctionOnSet(f, S)
<1> DEFINE Sum(U) == SumFunctionOnSet(f, U)
           B == {U \in SUBSET S : T \subseteq U /\ ~(Sum(T) <= Sum(U))}
<1>1. SUFFICES ASSUME B # {} PROVE FALSE
  OBVIOUS
<1> HIDE DEF B
<1>2. PICK U \in B : \A V \in B : V \subseteq U => V = U
  <2>1. B \subseteq SUBSET S
    BY DEF B
  <2> QED BY <1>1, <2>1, MinimalSubset
<1>3. U \subseteq S /\ T \subseteq U /\ ~(Sum(T) <= Sum(U))
  BY DEF B
<1>4. \A V : V \subseteq S => IsFiniteSet(V) /\ Sum(V) \in Int
  <2>1. \A V : V \subseteq S => IsFiniteSet(V)
    BY FS_Subset
  <2> QED BY <2>1, SumType
<1> HIDE DEF Sum
<1>5. U # T
  BY <1>3, <1>4
<1>6. PICK x \in U : x \notin T
  BY <1>3, <1>5
<1>7. Sum(T) <= Sum(U \ {x})
  <2>1. U \ {x} \notin B
    BY <1>2
  <2>2. U \ {x} \in SUBSET S /\ T \subseteq U \ {x}
    BY <1>3, <1>6
  <2> QED BY <2>1, <2>2 DEF B
<1>8. Sum(U) = f[x] + Sum(U \ {x})
  BY <1>3, <1>4, SumTakeOut DEF Sum
<1>9. f[x] \in Int /\ f[x] >= 0
  BY <1>3, <1>6
<1>10. Sum(U \ {x}) \in Int /\ Sum(T) \in Int
  BY <1>3, <1>4
<1> QED BY <1>3, <1>7, <1>8, <1>9, <1>10

\* The same of the sum of a function over its domain.
LEMMA SumFunctionMonotone ==
    ASSUME NEW S, IsFiniteSet(S), NEW f \in [S -> Int], NEW T, T \subseteq S,
           NEW g \in [T -> Int], \A x \in T : g[x] = f[x],
           \A x \in S \ T : f[x] >= 0
    PROVE  /\ SumFunction(f) \in Int /\ SumFunction(g) \in Int
           /\ SumFunction(g) <= SumFunction(f)
<1>1. /\ SumFunction(f) = SumFunctionOnSet(f, S)
      /\ SumFunction(g) = SumFunctionOnSet(g, T)
  BY DEF SumFunction
<1>2. IsFiniteSet(T)
  BY FS_Subset
<1>3. SumFunctionOnSet(f, T) = SumFunctionOnSet(g, T)
  BY <1>2, SumAgree
<1>4. SumFunctionOnSet(f, S) \in Int /\ SumFunctionOnSet(f, T) \in Int
  BY <1>2, SumType
<1>5. SumFunctionOnSet(f, T) <= SumFunctionOnSet(f, S)
  BY SumMonotone
<1> QED BY <1>1, <1>3, <1>4, <1>5

\* The sum of a function over its domain, and one value taken out of it.
LEMMA SumFunctionTakeOut ==
    ASSUME NEW S, IsFiniteSet(S), NEW f \in [S -> Int], NEW z,
           NEW g \in [S \ {z} -> Int], \A x \in S \ {z} : f[x] = g[x]
    PROVE  /\ SumFunction(f) \in Int
           /\ SumFunction(g) \in Int
           /\ SumFunction(f) = SumFunction(g) + (IF z \in S THEN f[z] ELSE 0)
<1>1. /\ SumFunction(f) = SumFunctionOnSet(f, S)
      /\ SumFunction(g) = SumFunctionOnSet(g, S \ {z})
  BY DEF SumFunction
<1>2. IsFiniteSet(S \ {z})
  BY FS_Subset
<1>3. SumFunctionOnSet(f, S \ {z}) = SumFunctionOnSet(g, S \ {z})
  BY <1>2, SumAgree
<1>4. SumFunctionOnSet(f, S) \in Int /\ SumFunctionOnSet(g, S \ {z}) \in Int
  BY <1>2, SumType
<1>5. CASE z \in S
  <2>1. SumFunctionOnSet(f, S) = f[z] + SumFunctionOnSet(f, S \ {z})
    BY <1>5, SumTakeOut
  <2> QED BY <1>1, <1>3, <1>4, <1>5, <2>1
<1>6. CASE z \notin S
  <2>1. S \ {z} = S
    BY <1>6
  <2> QED BY <1>1, <1>3, <1>4, <1>6, <2>1
<1> QED BY <1>5, <1>6

\* Two functions that agree but at z differ, in the sum, by what they have at z.
LEMMA SumChangeOne ==
    ASSUME NEW S, IsFiniteSet(S), NEW f \in [S -> Int],
           NEW T, IsFiniteSet(T), NEW g \in [T -> Int],
           NEW z, S \ {z} = T \ {z}, \A x \in S \ {z} : f[x] = g[x]
    PROVE  /\ SumFunction(f) \in Int
           /\ SumFunction(g) = SumFunction(f)
                  - (IF z \in S THEN f[z] ELSE 0) + (IF z \in T THEN g[z] ELSE 0)
<1> DEFINE c == [x \in S \ {z} |-> f[x]]
<1>1. c \in [S \ {z} -> Int] /\ c \in [T \ {z} -> Int]
  OBVIOUS
<1>2. /\ \A x \in S \ {z} : f[x] = c[x]
      /\ \A x \in T \ {z} : g[x] = c[x]
  OBVIOUS
<1> HIDE DEF c
<1>3. /\ SumFunction(f) \in Int /\ SumFunction(c) \in Int
      /\ SumFunction(f) = SumFunction(c) + (IF z \in S THEN f[z] ELSE 0)
  BY <1>1, <1>2, SumFunctionTakeOut
<1>4. SumFunction(g) = SumFunction(c) + (IF z \in T THEN g[z] ELSE 0)
  BY <1>1, <1>2, SumFunctionTakeOut
<1>5. (IF z \in S THEN f[z] ELSE 0) \in Int /\ (IF z \in T THEN g[z] ELSE 0) \in Int
  OBVIOUS
<1> QED BY <1>3, <1>4, <1>5

\* A function with an empty domain.
LEMMA SumFunctionEmpty == ASSUME NEW f, DOMAIN f = {} PROVE SumFunction(f) = 0
BY SumEmpty DEF SumFunction

-----------------------------------------------------------------------------
(***************************************************************************)
(* Theorems about Leave, for every set of employees, requests, handlers    *)
(* and days.                                                               *)
(***************************************************************************)

BeforeInsert == {"overlap", "balance", "limit", "mkBalance", "insert"}

\* What a handler may rely on when it executes its next statement: the
\* balance it found or made is still there, the id it will insert is its own
\* and unused, the request it decides or cancels is stored.
HandlerOK(h) ==
    /\ pc[h] \in {"insert", "pending"} =>
          leaveBalance[KeyOf(loc[h].form)] # NULL
    /\ pc[h] \in BeforeInsert => leaveRequest[loc[h].id] = NULL
    /\ pc[h] \in CreateSteps => \A g \in Handlers \ {h} :
          pc[g] \in CreateSteps => loc[g].id # loc[h].id
    /\ pc[h] \in {"decide", "cancel"} => leaveRequest[loc[h].id] # NULL

TypeBehindBalance == \A k \in Keys : leaveBalance[k] # NULL => IsType(k[2])

\* The inductive invariant.
LInv ==
    /\ TypeOK
    /\ BalanceBehindRequest
    /\ TypeBehindBalance
    /\ \A h \in Handlers : HandlerOK(h)

-----------------------------------------------------------------------------
(* What the helpers return. *)

LEMMA KeyOfType ==
    ASSUME NEW f \in Form \cup Request
    PROVE  KeyOf(f) \in Keys /\ KeyOf(f)[2] = f.leaveTypeId
<1>1. CASE f \in Form
  BY <1>1, LeaveAssumption DEF KeyOf, Keys, Form
<1>2. CASE f \in Request
  BY <1>2, LeaveAssumption DEF KeyOf, Keys, Request
<1> QED BY <1>1, <1>2

LEMMA BalanceTypes ==
    ASSUME NEW b \in Balance, NEW d \in Int, NEW limit \in Int, NEW c \in Int
    PROVE  /\ NewBalance(limit, c) \in Balance
           /\ Booked(b, d) \in Balance
           /\ Released(b, d) \in Balance
<1>1. NewBalance(limit, c) \in Balance
  BY DEF NewBalance, Balance
<1>2. Booked(b, d) \in Balance
  <2>1. /\ b.remainingDays - d \in Int /\ b.usedDays + d \in Int
        /\ b.pendingDays - d \in Int
    BY DEF Balance
  <2> QED BY <2>1 DEF Booked, Balance
<1>3. Released(b, d) \in Balance
  BY DEF Released, Balance
<1> QED BY <1>1, <1>2, <1>3

LEMMA NewRequestType ==
    ASSUME NEW f \in Form
    PROVE  /\ LeaveDays(f) \in Int
           /\ NewRequest(f) \in Request
           /\ NewRequest(f).leaveTypeId = f.leaveTypeId
           /\ KeyOf(NewRequest(f)) = KeyOf(f)
<1>1. LeaveDays(f) \in Int
  <2>1. f.startDate \in Int /\ f.endDate \in Int
    BY LeaveAssumption DEF Form
  <2> QED BY <2>1 DEF LeaveDays
<1>2. NewRequest(f) \in Request
  BY <1>1 DEF NewRequest, Form, Request, Statuses
<1> QED BY <1>1, <1>2 DEF NewRequest, KeyOf

LEMMA DecidedType ==
    ASSUME NEW r \in Request, NEW a \in Employees, NEW yes \in BOOLEAN
    PROVE  /\ Decided(r, a, yes) \in Request
           /\ Decided(r, a, yes).leaveTypeId = r.leaveTypeId
           /\ KeyOf(Decided(r, a, yes)) = KeyOf(r)
BY DEF Decided, KeyOf, Request, Statuses

LEMMA CancelledType ==
    ASSUME NEW r \in Request
    PROVE  /\ Cancelled(r) \in Request
           /\ Cancelled(r).leaveTypeId = r.leaveTypeId
           /\ KeyOf(Cancelled(r)) = KeyOf(r)
BY DEF Cancelled, KeyOf, Request, Statuses

LEMMA InitLInv == ASSUME Init PROVE LInv
<1> USE LeaveAssumption DEF Init
<1>1. TypeOK
  BY DEF TypeOK, Steps, CreateSteps
<1>2. BalanceBehindRequest /\ TypeBehindBalance
  BY DEF BalanceBehindRequest, TypeBehindBalance
<1>3. \A h \in Handlers : HandlerOK(h)
  BY DEF HandlerOK, BeforeInsert, CreateSteps
<1> QED BY <1>1, <1>2, <1>3 DEF LInv

\* A step of one handler that writes no table keeps the invariant when the
\* handler may rely on what it needs next.
LEMMA LocalStep ==
    ASSUME LInv, NEW h \in Handlers,
           UNCHANGED <<today, tables>>,
           failures' \in 0..MaxFailures,
           pc' = [pc EXCEPT ![h] = pc'[h]], pc'[h] \in Steps,
           loc' = [loc EXCEPT ![h] = loc'[h]],
           loc'[h] \in CreateLoc \cup DecideLoc \cup CancelLoc \cup {NULL},
           pc'[h] \in CreateSteps => loc'[h] \in CreateLoc,
           pc'[h] = "decide" => loc'[h] \in DecideLoc,
           pc'[h] = "cancel" => loc'[h] \in CancelLoc,
           HandlerOK(h)'
    PROVE  LInv'
<1>1. TypeOK'
  BY DEF LInv, TypeOK, tables
<1>2. (BalanceBehindRequest /\ TypeBehindBalance)'
  BY DEF LInv, BalanceBehindRequest, TypeBehindBalance, tables, IsType
<1>3. \A g \in Handlers : HandlerOK(g)'
  BY DEF LInv, TypeOK, HandlerOK, tables
<1> QED BY <1>1, <1>2, <1>3 DEF LInv

\* A handler that answers relies on nothing any more.
LEMMA FinishStep ==
    ASSUME LInv, NEW h \in Handlers, UNCHANGED <<today, tables>>,
           failures' \in 0..MaxFailures, Finish(h)
    PROVE  LInv'
<1>1. /\ pc' = [pc EXCEPT ![h] = pc'[h]] /\ pc'[h] = "idle"
      /\ loc' = [loc EXCEPT ![h] = loc'[h]] /\ loc'[h] = NULL
  BY DEF LInv, TypeOK, Finish, Goto
<1>2. HandlerOK(h)'
  BY <1>1 DEF HandlerOK, BeforeInsert, CreateSteps
<1> QED BY <1>1, <1>2, LocalStep DEF Steps, CreateSteps

\* A handler that goes on with the locals it has.
LEMMA GotoStep ==
    ASSUME LInv, NEW h \in Handlers, UNCHANGED <<today, tables, loc, failures>>,
           pc[h] \in BeforeInsert, NEW s \in BeforeInsert, Goto(h, s),
           s = "insert" => leaveBalance[KeyOf(loc[h].form)] # NULL
    PROVE  LInv'
<1>1. /\ pc' = [pc EXCEPT ![h] = pc'[h]] /\ pc'[h] = s
      /\ loc' = [loc EXCEPT ![h] = loc'[h]] /\ loc'[h] = loc[h]
      /\ loc[h] \in CreateLoc /\ failures' \in 0..MaxFailures
      /\ s \in CreateSteps /\ s \notin {"decide", "cancel"}
  BY DEF LInv, TypeOK, Goto, BeforeInsert, CreateSteps
<1>2. HandlerOK(h)'
  BY <1>1 DEF HandlerOK, LInv, BeforeInsert, CreateSteps, tables, KeyOf, TypeOK
<1> QED BY <1>1, <1>2, LocalStep DEF Steps, CreateSteps

LEMMA SubmitLInv ==
    ASSUME LInv, NEW h \in Handlers, NEW f \in Form, NEW id \in RequestIds,
           Submit(h, f, id)
    PROVE  LInv'
<1>1. /\ pc' = [pc EXCEPT ![h] = pc'[h]] /\ pc'[h] = "overlap"
      /\ loc' = [loc EXCEPT ![h] = loc'[h]]
      /\ loc'[h] = [form |-> f, id |-> id, limit |-> 0]
      /\ failures' \in 0..MaxFailures
      /\ UNCHANGED <<today, tables>>
  BY DEF LInv, TypeOK, Submit, Goto
<1>2. loc'[h] \in CreateLoc
  BY <1>1 DEF CreateLoc
<1>3. HandlerOK(h)'
  <2>1. leaveRequest'[loc'[h].id] = NULL
    BY <1>1 DEF Submit, tables
  <2>2. \A g \in Handlers \ {h} :
           pc'[g] \in CreateSteps => loc'[g].id # loc'[h].id
    BY <1>1 DEF Submit, LInv, TypeOK
  <2> QED BY <1>1, <2>1, <2>2 DEF HandlerOK, BeforeInsert, CreateSteps
<1> QED BY <1>1, <1>2, <1>3, LocalStep DEF Steps, CreateSteps

LEMMA ReadStepsLInv ==
    ASSUME LInv, NEW h \in Handlers,
           CheckOverlap(h) \/ ReadBalance(h) \/ ReadLimit(h)
    PROVE  LInv'
<1>0. failures \in 0..MaxFailures
  BY DEF LInv, TypeOK
<1>1. CASE CheckOverlap(h)
  BY <1>0, <1>1, FinishStep, GotoStep DEF CheckOverlap, BeforeInsert
<1>2. CASE ReadBalance(h)
  BY <1>0, <1>2, FinishStep, GotoStep DEF ReadBalance, BeforeInsert
<1>3. CASE ReadLimit(h)
  <2>1. CASE Finish(h)
    BY <1>0, <1>3, <2>1, FinishStep DEF ReadLimit
  <2>2. CASE ~Finish(h)
    <3> DEFINE t == loc[h].form.leaveTypeId
    <3>1. /\ pc[h] = "limit" /\ IsType(t)
          /\ loc' = [loc EXCEPT ![h].limit = leaveType[t].annualLimit]
          /\ pc' = [pc EXCEPT ![h] = "mkBalance"]
          /\ UNCHANGED <<today, tables, failures>>
      BY <1>3, <2>2 DEF ReadLimit, Goto
    <3>2. loc[h] \in CreateLoc
      BY <3>1 DEF LInv, TypeOK, CreateSteps
    <3>3. leaveType[t].annualLimit \in Int
      BY <3>1, <3>2, LeaveAssumption
         DEF LInv, TypeOK, IsType, CreateLoc, Form, LeaveTypeRow
    <3>4. /\ loc' = [loc EXCEPT ![h] = loc'[h]] /\ loc'[h] \in CreateLoc
          /\ loc'[h].id = loc[h].id /\ loc'[h].form = loc[h].form
      BY <3>1, <3>2, <3>3 DEF LInv, TypeOK, CreateLoc
    <3>5. pc' = [pc EXCEPT ![h] = pc'[h]] /\ pc'[h] = "mkBalance"
      BY <3>1 DEF LInv, TypeOK
    <3>6. HandlerOK(h)'
      BY <3>1, <3>4, <3>5
         DEF LInv, TypeOK, HandlerOK, tables, BeforeInsert, CreateSteps
    <3> QED BY <1>0, <3>1, <3>4, <3>5, <3>6, LocalStep DEF Steps, CreateSteps
  <2> QED BY <2>1, <2>2
<1> QED BY <1>1, <1>2, <1>3

LEMMA ReadForDecisionLInv ==
    ASSUME LInv, NEW h \in Handlers, NEW r \in RequestIds,
           NEW a \in Approvers, NEW yes \in BOOLEAN,
           ReadForDecision(h, r, a, yes)
    PROVE  LInv'
<1>1. /\ pc' = [pc EXCEPT ![h] = pc'[h]] /\ pc'[h] = "decide"
      /\ loc' = [loc EXCEPT ![h] = loc'[h]]
      /\ loc'[h] = [id |-> r, approver |-> a, approve |-> yes]
      /\ leaveRequest[r] # NULL
      /\ UNCHANGED <<today, tables, failures>>
      /\ failures \in 0..MaxFailures
  BY DEF LInv, TypeOK, ReadForDecision, Goto
<1>2. loc'[h] \in DecideLoc
  BY <1>1, LeaveAssumption DEF DecideLoc
<1>3. HandlerOK(h)'
  BY <1>1 DEF HandlerOK, BeforeInsert, CreateSteps, tables
<1> QED BY <1>1, <1>2, <1>3, LocalStep DEF Steps, CreateSteps

LEMMA ReadForCancelLInv ==
    ASSUME LInv, NEW h \in Handlers, NEW r \in RequestIds, ReadForCancel(h, r)
    PROVE  LInv'
<1>1. /\ pc' = [pc EXCEPT ![h] = pc'[h]] /\ pc'[h] = "cancel"
      /\ loc' = [loc EXCEPT ![h] = loc'[h]]
      /\ loc'[h] = [id |-> r, seen |-> leaveRequest[r].status]
      /\ leaveRequest[r] # NULL
      /\ UNCHANGED <<today, tables, failures>>
      /\ failures \in 0..MaxFailures
  BY DEF LInv, TypeOK, ReadForCancel, Goto
<1>2. loc'[h] \in CancelLoc
  BY <1>1 DEF CancelLoc, LInv, TypeOK, Request
<1>3. HandlerOK(h)'
  BY <1>1 DEF HandlerOK, BeforeInsert, CreateSteps, tables
<1> QED BY <1>1, <1>2, <1>3, LocalStep DEF Steps, CreateSteps

\* A step of one handler that writes the tables keeps the invariant when it
\* removes no row, inserts no id another handler holds, and leaves every
\* request with its balance and every balance with its type.
LEMMA WriteStep ==
    ASSUME LInv, NEW h \in Handlers,
           UNCHANGED <<today, leaveType, failures>>,
           approvals' \subseteq RequestIds,
           leaveBalance' \in [Keys -> Balance \cup {NULL}],
           \A k \in Keys : leaveBalance[k] # NULL => leaveBalance'[k] # NULL,
           TypeBehindBalance',
           leaveRequest' \in [RequestIds -> Request \cup {NULL}],
           \A r \in RequestIds : leaveRequest[r] # NULL => leaveRequest'[r] # NULL,
           \A r \in RequestIds : leaveRequest'[r] # leaveRequest[r] =>
               \A g \in Handlers \ {h} :
                   pc[g] \in BeforeInsert => loc[g].id # r,
           BalanceBehindRequest',
           pc' = [pc EXCEPT ![h] = pc'[h]], pc'[h] \in Steps \ {"decide", "cancel"},
           loc' = [loc EXCEPT ![h] = loc'[h]],
           loc'[h] \in CreateLoc \cup {NULL},
           pc'[h] \in CreateSteps => loc'[h] \in CreateLoc,
           HandlerOK(h)'
    PROVE  LInv'
<1>1. TypeOK'
  BY DEF LInv, TypeOK
<1>2. ASSUME NEW g \in Handlers, g # h
      PROVE  HandlerOK(g)'
  <2>1. pc'[g] = pc[g] /\ loc'[g] = loc[g]
    BY <1>2 DEF LInv, TypeOK
  <2>2. pc[g] \in CreateSteps => loc[g].form \in Form /\ loc[g].id \in RequestIds
    BY DEF LInv, TypeOK, CreateLoc
  <2>3. pc'[g] \in {"insert", "pending"} =>
            leaveBalance'[KeyOf(loc'[g].form)] # NULL
    BY <2>1, <2>2, KeyOfType DEF LInv, HandlerOK, CreateSteps, KeyOf
  <2>4. pc'[g] \in BeforeInsert => leaveRequest'[loc'[g].id] = NULL
    BY <1>2, <2>1, <2>2 DEF LInv, HandlerOK, BeforeInsert, CreateSteps
  <2>5. pc'[g] \in {"decide", "cancel"} => leaveRequest'[loc'[g].id] # NULL
    <3>1. pc[g] \in {"decide", "cancel"} => loc[g].id \in RequestIds
      BY DEF LInv, TypeOK, DecideLoc, CancelLoc
    <3> QED BY <2>1, <3>1 DEF LInv, HandlerOK
  <2>6. pc'[g] \in CreateSteps => \A f \in Handlers \ {g} :
            pc'[f] \in CreateSteps => loc'[f].id # loc'[g].id
    BY <1>2, <1>1, <2>1 DEF LInv, TypeOK, HandlerOK
  <2> QED BY <2>3, <2>4, <2>5, <2>6 DEF HandlerOK
<1> QED BY <1>1, <1>2 DEF LInv

LEMMA CreateBalanceLInv ==
    ASSUME LInv, NEW h \in Handlers, CreateBalance(h)
    PROVE  LInv'
<1> DEFINE f == loc[h].form
           key == KeyOf(f)
<1>1. /\ pc[h] = "mkBalance" /\ loc[h] \in CreateLoc /\ f \in Form
      /\ key \in Keys /\ key[2] = f.leaveTypeId
      /\ failures \in 0..MaxFailures
      /\ UNCHANGED <<today, leaveType, leaveRequest, approvals, failures>>
  BY KeyOfType DEF LInv, TypeOK, CreateBalance, CreateSteps, CreateLoc
<1>2. CASE UNCHANGED leaveBalance
  <2>1. ~(leaveBalance[key] = NULL /\ IsType(f.leaveTypeId)) /\ Finish(h)
    <3>1. SUFFICES ASSUME leaveBalance' = [leaveBalance EXCEPT ![key] =
                                      NewBalance(loc[h].limit, 0)],
                          leaveBalance[key] = NULL
                   PROVE  FALSE
      BY <1>1 DEF CreateBalance
    <3>2. NewBalance(loc[h].limit, 0) \in Balance
      BY <1>1, BalanceTypes DEF CreateLoc, NewBalance, Balance
    <3> QED BY <1>1, <1>2, <3>1, <3>2, LeaveAssumption DEF LInv, TypeOK
  <2> QED BY <1>1, <1>2, <2>1, FinishStep DEF tables
<1>3. CASE ~UNCHANGED leaveBalance
  <2>1. /\ leaveBalance[key] = NULL /\ IsType(f.leaveTypeId)
        /\ leaveBalance' = [leaveBalance EXCEPT ![key] =
                                NewBalance(loc[h].limit, 0)]
        /\ \/ Finish(h)
           \/ Goto(h, "insert") /\ UNCHANGED loc
    BY <1>1, <1>3 DEF CreateBalance
  <2>2. NewBalance(loc[h].limit, 0) \in Balance
    BY <1>1, BalanceTypes DEF CreateLoc, NewBalance, Balance
  <2>3. /\ leaveBalance' \in [Keys -> Balance \cup {NULL}]
        /\ leaveBalance'[key] # NULL
        /\ \A k \in Keys : k # key => leaveBalance'[k] = leaveBalance[k]
    BY <1>1, <2>1, <2>2, LeaveAssumption DEF LInv, TypeOK
  <2>4. TypeBehindBalance'
    BY <1>1, <2>1, <2>3 DEF LInv, TypeBehindBalance, IsType
  <2>5. BalanceBehindRequest'
    <3>1. \A r \in RequestIds :
             leaveRequest[r] # NULL => KeyOf(leaveRequest[r]) \in Keys
      BY KeyOfType DEF LInv, TypeOK
    <3> QED BY <1>1, <2>1, <2>3, <3>1 DEF LInv, BalanceBehindRequest, IsType
  <2>6. /\ pc' = [pc EXCEPT ![h] = pc'[h]] /\ pc'[h] \in {"idle", "insert"}
        /\ loc' = [loc EXCEPT ![h] = loc'[h]]
        /\ loc'[h] \in CreateLoc \cup {NULL}
        /\ pc'[h] = "insert" => loc'[h] = loc[h]
    BY <1>1, <2>1 DEF Finish, Goto, LInv, TypeOK
  <2>7. HandlerOK(h)'
    BY <1>1, <2>1, <2>3, <2>6
       DEF LInv, TypeOK, HandlerOK, BeforeInsert, CreateSteps, KeyOf
  <2>8. approvals' \subseteq RequestIds
    BY <1>1 DEF LInv, TypeOK
  <2>9. leaveRequest' \in [RequestIds -> Request \cup {NULL}]
    BY <1>1 DEF LInv, TypeOK
  <2> QED
    BY <1>1, <2>3, <2>4, <2>5, <2>6, <2>7, <2>8, <2>9, WriteStep
       DEF Steps, CreateSteps
<1> QED BY <1>2, <1>3

LEMMA InsertRequestLInv ==
    ASSUME LInv, NEW h \in Handlers, InsertRequest(h)
    PROVE  LInv'
<1> DEFINE f == loc[h].form
           id == loc[h].id
<1>1. /\ pc[h] = "insert" /\ loc[h] \in CreateLoc /\ f \in Form
      /\ id \in RequestIds /\ leaveRequest[id] = NULL
      /\ leaveBalance[KeyOf(f)] # NULL /\ KeyOf(f) \in Keys
      /\ KeyOf(f)[2] = f.leaveTypeId
      /\ leaveRequest' = [leaveRequest EXCEPT ![id] = NewRequest(f)]
      /\ UNCHANGED <<today, leaveType, leaveBalance, approvals, loc, failures>>
  BY KeyOfType DEF LInv, TypeOK, HandlerOK, InsertRequest, CreateSteps,
                   CreateLoc, BeforeInsert
<1>2. /\ NewRequest(f) \in Request /\ KeyOf(NewRequest(f)) = KeyOf(f)
      /\ NewRequest(f).leaveTypeId = f.leaveTypeId
  BY <1>1, NewRequestType
<1>3. /\ leaveRequest' \in [RequestIds -> Request \cup {NULL}]
      /\ leaveRequest'[id] = NewRequest(f)
      /\ \A r \in RequestIds : r # id => leaveRequest'[r] = leaveRequest[r]
  BY <1>1, <1>2 DEF LInv, TypeOK
<1>4. BalanceBehindRequest'
  <2>1. leaveBalance'[KeyOf(leaveRequest'[id])] # NULL
    BY <1>1, <1>2, <1>3
  <2>2. IsType(NewRequest(f).leaveTypeId)
    BY <1>1, <1>2 DEF LInv, TypeBehindBalance
  <2> QED BY <1>1, <1>2, <1>3, <2>1, <2>2
          DEF LInv, BalanceBehindRequest, IsType
<1>5. \A r \in RequestIds : leaveRequest'[r] # leaveRequest[r] =>
         \A g \in Handlers \ {h} : pc[g] \in BeforeInsert => loc[g].id # r
  BY <1>1, <1>3 DEF LInv, HandlerOK, BeforeInsert, CreateSteps
<1>6. /\ pc' = [pc EXCEPT ![h] = pc'[h]] /\ pc'[h] = "pending"
      /\ loc' = [loc EXCEPT ![h] = loc'[h]] /\ loc'[h] = loc[h]
  BY <1>1 DEF InsertRequest, Goto, LInv, TypeOK
<1>7. HandlerOK(h)'
  BY <1>1, <1>6 DEF LInv, TypeOK, HandlerOK, BeforeInsert, CreateSteps, KeyOf
<1>8. /\ TypeBehindBalance' /\ approvals' \subseteq RequestIds
      /\ leaveBalance' \in [Keys -> Balance \cup {NULL}]
  BY <1>1 DEF LInv, TypeOK, TypeBehindBalance, IsType
<1> QED BY <1>1, <1>3, <1>4, <1>5, <1>6, <1>7, <1>8, WriteStep
        DEF Steps, CreateSteps

LEMMA AddPendingLInv ==
    ASSUME LInv, NEW h \in Handlers, AddPending(h)
    PROVE  LInv'
<1> DEFINE f == loc[h].form
           key == KeyOf(f)
           d == LeaveDays(f)
<1>1. /\ pc[h] = "pending" /\ loc[h] \in CreateLoc /\ f \in Form
      /\ key \in Keys /\ leaveBalance[key] \in Balance /\ d \in Int
      /\ leaveBalance' = [leaveBalance EXCEPT ![key].pendingDays = @ + d]
      /\ UNCHANGED <<today, leaveType, leaveRequest, approvals, failures>>
  BY KeyOfType, NewRequestType
     DEF LInv, TypeOK, HandlerOK, AddPending, CreateSteps, CreateLoc
<1>2. /\ leaveBalance' \in [Keys -> Balance \cup {NULL}]
      /\ \A k \in Keys : leaveBalance'[k] = NULL <=> leaveBalance[k] = NULL
  <2>1. [leaveBalance[key] EXCEPT !.pendingDays = @ + d] \in Balance
    BY <1>1 DEF Balance
  <2>2. leaveBalance' = [leaveBalance EXCEPT ![key] =
                            [leaveBalance[key] EXCEPT !.pendingDays = @ + d]]
    BY <1>1 DEF LInv, TypeOK
  <2> QED BY <1>1, <2>1, <2>2, LeaveAssumption DEF LInv, TypeOK
<1>3. TypeBehindBalance'
  BY <1>1, <1>2 DEF LInv, TypeBehindBalance, IsType
<1>4. BalanceBehindRequest'
  <2>1. \A r \in RequestIds :
           leaveRequest[r] # NULL => KeyOf(leaveRequest[r]) \in Keys
    BY KeyOfType DEF LInv, TypeOK
  <2> QED BY <1>1, <1>2, <2>1 DEF LInv, BalanceBehindRequest, IsType
<1>5. /\ pc' = [pc EXCEPT ![h] = pc'[h]] /\ pc'[h] \in {"idle", "approval"}
      /\ loc' = [loc EXCEPT ![h] = loc'[h]]
      /\ loc'[h] \in CreateLoc \cup {NULL}
      /\ pc'[h] = "approval" => loc'[h] = loc[h]
  BY <1>1 DEF AddPending, Finish, Goto, LInv, TypeOK
<1>6. HandlerOK(h)'
  BY <1>1, <1>5 DEF LInv, TypeOK, HandlerOK, BeforeInsert, CreateSteps
<1>7. /\ approvals' \subseteq RequestIds
      /\ leaveRequest' \in [RequestIds -> Request \cup {NULL}]
  BY <1>1 DEF LInv, TypeOK
<1> QED BY <1>1, <1>2, <1>3, <1>4, <1>5, <1>6, <1>7, WriteStep
        DEF Steps, CreateSteps

LEMMA CreateApprovalLInv ==
    ASSUME LInv, NEW h \in Handlers, CreateApproval(h)
    PROVE  LInv'
<1>1. /\ pc[h] = "approval" /\ loc[h].id \in RequestIds
      /\ approvals' = approvals \cup {loc[h].id}
      /\ UNCHANGED <<today, leaveType, leaveBalance, leaveRequest, failures>>
  BY DEF LInv, TypeOK, CreateApproval, CreateSteps, CreateLoc
<1>2. /\ pc' = [pc EXCEPT ![h] = pc'[h]] /\ pc'[h] = "idle"
      /\ loc' = [loc EXCEPT ![h] = loc'[h]] /\ loc'[h] = NULL
  BY DEF CreateApproval, Finish, Goto, LInv, TypeOK
<1>3. HandlerOK(h)'
  BY <1>2 DEF HandlerOK, BeforeInsert, CreateSteps
<1>4. /\ TypeBehindBalance' /\ BalanceBehindRequest'
      /\ approvals' \subseteq RequestIds
      /\ leaveBalance' \in [Keys -> Balance \cup {NULL}]
      /\ leaveRequest' \in [RequestIds -> Request \cup {NULL}]
  BY <1>1 DEF LInv, TypeOK, TypeBehindBalance, BalanceBehindRequest, IsType
<1> QED BY <1>1, <1>2, <1>3, <1>4, WriteStep DEF Steps, CreateSteps

\* The end of a decision or a cancellation: one stored request is rewritten
\* with the same owner, type and days, one balance with the same key.
LEMMA CommitStep ==
    ASSUME LInv, NEW h \in Handlers, pc[h] \in {"decide", "cancel"},
           NEW row \in Request, row = leaveRequest[loc[h].id],
           loc[h].id \in RequestIds,
           UNCHANGED <<today, leaveType, approvals, failures>>, Finish(h),
           leaveBalance' \in [Keys -> Balance \cup {NULL}],
           \A k \in Keys : leaveBalance'[k] = NULL <=> leaveBalance[k] = NULL,
           leaveRequest' = [leaveRequest EXCEPT ![loc[h].id] =
                                leaveRequest'[loc[h].id]],
           leaveRequest'[loc[h].id] \in Request,
           leaveRequest'[loc[h].id].leaveTypeId = row.leaveTypeId,
           KeyOf(leaveRequest'[loc[h].id]) = KeyOf(row)
    PROVE  LInv'
<1> DEFINE id == loc[h].id
<1>1. /\ leaveRequest' \in [RequestIds -> Request \cup {NULL}]
      /\ leaveRequest[id] # NULL /\ leaveRequest'[id] # NULL
      /\ \A r \in RequestIds : r # id => leaveRequest'[r] = leaveRequest[r]
  BY LeaveAssumption DEF LInv, TypeOK
<1>2. TypeBehindBalance'
  BY DEF LInv, TypeBehindBalance, IsType
<1>3. BalanceBehindRequest'
  <2>1. \A r \in RequestIds : leaveRequest[r] # NULL =>
           /\ KeyOf(leaveRequest[r]) \in Keys
           /\ leaveBalance'[KeyOf(leaveRequest[r])] # NULL
           /\ IsType(leaveRequest[r].leaveTypeId)
    BY KeyOfType DEF LInv, TypeOK, BalanceBehindRequest
  <2>2. /\ leaveBalance'[KeyOf(leaveRequest'[id])] # NULL
        /\ IsType(leaveRequest'[id].leaveTypeId)
    BY <1>1, <2>1
  <2> QED BY <1>1, <2>1, <2>2 DEF BalanceBehindRequest, IsType
<1>4. \A r \in RequestIds : leaveRequest'[r] # leaveRequest[r] =>
         \A g \in Handlers \ {h} : pc[g] \in BeforeInsert => loc[g].id # r
  BY <1>1 DEF LInv, HandlerOK
<1>5. /\ pc' = [pc EXCEPT ![h] = pc'[h]] /\ pc'[h] = "idle"
      /\ loc' = [loc EXCEPT ![h] = loc'[h]] /\ loc'[h] = NULL
  BY DEF Finish, Goto, LInv, TypeOK
<1>6. HandlerOK(h)'
  BY <1>5 DEF HandlerOK, BeforeInsert, CreateSteps
<1>7. approvals' \subseteq RequestIds
  BY DEF LInv, TypeOK
<1> QED BY <1>1, <1>2, <1>3, <1>4, <1>5, <1>6, <1>7, WriteStep
        DEF Steps, CreateSteps

LEMMA CommitDecisionLInv ==
    ASSUME LInv, NEW h \in Handlers, CommitDecision(h)
    PROVE  LInv'
<1> DEFINE id == loc[h].id
           row == leaveRequest[id]
           key == KeyOf(row)
           new == IF loc[h].approve THEN Booked(leaveBalance[key], row.days)
                                    ELSE Released(leaveBalance[key], row.days)
<1>1. /\ pc[h] = "decide" /\ loc[h] \in DecideLoc /\ id \in RequestIds
      /\ row \in Request /\ key \in Keys /\ row.days \in Int
      /\ loc[h].approver \in Employees /\ loc[h].approve \in BOOLEAN
      /\ UNCHANGED <<today, leaveType, approvals, failures>> /\ Finish(h)
  BY KeyOfType DEF LInv, TypeOK, HandlerOK, CommitDecision, DecideLoc, Request
<1>2. /\ leaveBalance' = [leaveBalance EXCEPT ![key] = new]
      /\ leaveBalance[key] \in Balance
  <2>1. leaveBalance[key] \in Balance /\ leaveBalance[key] # NULL
    BY <1>1, LeaveAssumption DEF LInv, TypeOK, BalanceBehindRequest
  <2>2. leaveBalance' = IF leaveBalance[key] = NULL THEN leaveBalance
                        ELSE [leaveBalance EXCEPT ![key] = new]
    BY DEF CommitDecision, UpdateBalance
  <2> QED BY <2>1, <2>2
<1>3. new \in Balance
  BY <1>1, <1>2, BalanceTypes DEF Balance
<1>4. /\ leaveBalance' \in [Keys -> Balance \cup {NULL}]
      /\ \A k \in Keys : leaveBalance'[k] = NULL <=> leaveBalance[k] = NULL
  BY <1>1, <1>2, <1>3, LeaveAssumption DEF LInv, TypeOK
<1>5. leaveRequest' = [leaveRequest EXCEPT ![id] =
                          Decided(row, loc[h].approver, loc[h].approve)]
  BY <1>1 DEF CommitDecision
<1>6. /\ leaveRequest'[id] = Decided(row, loc[h].approver, loc[h].approve)
      /\ leaveRequest' = [leaveRequest EXCEPT ![id] = leaveRequest'[id]]
  BY <1>1, <1>5 DEF LInv, TypeOK
<1>7. /\ leaveRequest'[id] \in Request
      /\ leaveRequest'[id].leaveTypeId = row.leaveTypeId
      /\ KeyOf(leaveRequest'[id]) = KeyOf(row)
  BY <1>1, <1>6, DecidedType DEF KeyOf
<1> QED BY <1>1, <1>4, <1>6, <1>7, CommitStep

LEMMA CommitCancelLInv ==
    ASSUME LInv, NEW h \in Handlers, CommitCancel(h)
    PROVE  LInv'
<1> DEFINE id == loc[h].id
           row == leaveRequest[id]
           key == KeyOf(row)
<1>1. /\ pc[h] = "cancel" /\ id \in RequestIds
      /\ row \in Request /\ key \in Keys /\ row.days \in Int
      /\ UNCHANGED <<today, leaveType, approvals, failures>> /\ Finish(h)
  BY KeyOfType DEF LInv, TypeOK, HandlerOK, CommitCancel, CancelLoc, Request
<1>2. /\ \/ leaveBalance' = [leaveBalance EXCEPT ![key] =
                                  Released(leaveBalance[key], row.days)]
         \/ leaveBalance' = leaveBalance
      /\ leaveBalance[key] \in Balance
  <2>1. leaveBalance[key] \in Balance /\ leaveBalance[key] # NULL
    BY <1>1, LeaveAssumption DEF LInv, TypeOK, BalanceBehindRequest
  <2>2. \/ leaveBalance' = IF leaveBalance[key] = NULL THEN leaveBalance
                           ELSE [leaveBalance EXCEPT ![key] =
                                    Released(leaveBalance[key], row.days)]
        \/ leaveBalance' = leaveBalance
    BY DEF CommitCancel, UpdateBalance
  <2> QED BY <2>1, <2>2
<1>3. Released(leaveBalance[key], row.days) \in Balance
  BY <1>1, <1>2, BalanceTypes DEF Balance
<1>4. /\ leaveBalance' \in [Keys -> Balance \cup {NULL}]
      /\ \A k \in Keys : leaveBalance'[k] = NULL <=> leaveBalance[k] = NULL
  BY <1>1, <1>2, <1>3, LeaveAssumption DEF LInv, TypeOK
<1>5. leaveRequest' = [leaveRequest EXCEPT ![id] = Cancelled(row)]
  BY <1>1 DEF CommitCancel
<1>6. /\ leaveRequest'[id] = Cancelled(row)
      /\ leaveRequest' = [leaveRequest EXCEPT ![id] = leaveRequest'[id]]
  BY <1>1, <1>5 DEF LInv, TypeOK
<1>7. /\ leaveRequest'[id] \in Request
      /\ leaveRequest'[id].leaveTypeId = row.leaveTypeId
      /\ KeyOf(leaveRequest'[id]) = KeyOf(row)
  BY <1>1, <1>6, CancelledType DEF KeyOf
<1> QED BY <1>1, <1>4, <1>6, <1>7, CommitStep

LEMMA TypeStepLInv ==
    ASSUME LInv, NEW t \in LeaveTypes, TypeStep(t)
    PROVE  LInv'
<1>1. /\ UNCHANGED <<today, leaveBalance, leaveRequest, approvals, pc, loc,
                      failures>>
      /\ \/ \E row \in TypeRows : leaveType' = [leaveType EXCEPT ![t] = row]
         \/ leaveType' = [leaveType EXCEPT ![t] = Gone] /\ ~InUse(t)
  BY DEF TypeStep, CreateLeaveType, UpdateLeaveType, DeleteLeaveType
<1>2. TypeOK'
  BY <1>1 DEF LInv, TypeOK
<1>3. \A h \in Handlers : HandlerOK(h)'
  BY <1>1 DEF LInv, HandlerOK, KeyOf
<1>4. \A s \in LeaveTypes : IsType(s) /\ (s = t => InUse(t)) => IsType(s)'
  BY <1>1, LeaveAssumption DEF LInv, TypeOK, IsType
<1>5. TypeBehindBalance'
  <2>1. \A k \in Keys : k[2] \in LeaveTypes
    BY DEF Keys
  <2>2. \A k \in Keys : leaveBalance[k] # NULL => (k[2] = t => InUse(t))
    BY DEF InUse
  <2> QED BY <1>1, <1>4, <2>1, <2>2 DEF LInv, TypeBehindBalance
<1>6. BalanceBehindRequest'
  <2>1. \A r \in RequestIds : leaveRequest[r] # NULL =>
           leaveRequest[r].leaveTypeId \in LeaveTypes
    BY DEF LInv, TypeOK, Request
  <2>2. \A r \in RequestIds : leaveRequest[r] # NULL =>
           (leaveRequest[r].leaveTypeId = t => InUse(t))
    BY DEF InUse
  <2> QED BY <1>1, <1>4, <2>1, <2>2 DEF LInv, BalanceBehindRequest, KeyOf
<1> QED BY <1>2, <1>3, <1>5, <1>6 DEF LInv

LEMMA FailLInv ==
    ASSUME LInv, NEW h \in Handlers, Fail(h)
    PROVE  LInv'
<1>1. failures' \in 0..MaxFailures
  BY LeaveAssumption DEF Fail, LInv, TypeOK
<1> QED BY <1>1, FinishStep DEF Fail

LEMMA NextDayLInv ==
    ASSUME LInv, NextDay
    PROVE  LInv'
<1>1. TypeOK'
  BY DEF LInv, TypeOK, NextDay, tables
<1>2. BalanceBehindRequest' /\ TypeBehindBalance'
  BY DEF LInv, NextDay, tables, BalanceBehindRequest, TypeBehindBalance, IsType
<1>3. \A h \in Handlers : HandlerOK(h)'
  BY DEF LInv, NextDay, tables, HandlerOK, KeyOf
<1> QED BY <1>1, <1>2, <1>3 DEF LInv

\* Every statement of the leave service preserves the inductive invariant.
THEOREM ServiceStepLInv == ASSUME LInv, ServiceStep PROVE LInv'
<1>1. ASSUME NEW h \in Handlers, CreateStep(h)
      PROVE  LInv'
  BY <1>1, SubmitLInv, ReadStepsLInv, CreateBalanceLInv, InsertRequestLInv,
     AddPendingLInv, CreateApprovalLInv DEF CreateStep
<1>2. ASSUME NEW h \in Handlers, DecideStep(h)
      PROVE  LInv'
  BY <1>2, ReadForDecisionLInv, CommitDecisionLInv DEF DecideStep
<1>3. ASSUME NEW h \in Handlers, CancelStep(h)
      PROVE  LInv'
  <2>1. CASE CommitCancel(h)
    BY <2>1, CommitCancelLInv
  <2>2. ASSUME NEW r \in RequestIds, ReadForCancel(h, r)
        PROVE  LInv'
    BY <2>2, ReadForCancelLInv
  <2> QED BY <1>3, <2>1, <2>2 DEF CancelStep
<1> QED BY <1>1, <1>2, <1>3, FailLInv, TypeStepLInv DEF ServiceStep

LEMMA LInvNext == ASSUME LInv, [Next]_leaveVars PROVE LInv'
<1>1. CASE UNCHANGED leaveVars
  <2>1. TypeOK'
    BY <1>1 DEF LInv, TypeOK, leaveVars, tables
  <2>2. BalanceBehindRequest' /\ TypeBehindBalance'
    BY <1>1 DEF LInv, leaveVars, tables, BalanceBehindRequest,
                TypeBehindBalance, IsType
  <2>3. \A h \in Handlers : HandlerOK(h)'
    BY <1>1 DEF LInv, leaveVars, tables, HandlerOK, KeyOf
  <2> QED BY <2>1, <2>2, <2>3 DEF LInv
<1> QED BY <1>1, ServiceStepLInv, NextDayLInv DEF Next

\* The inductive invariant: besides types, a stored request has its balance
\* and leave type, a balance has its leave type, and what each handler of
\* createLeaveRequest, approveLeaveRequest and cancelLeaveRequest holds fits
\* the statement it executes next.
THEOREM LInvInductive == Spec => []LInv
<1>1. Init => LInv
  BY InitLInv
<1>2. LInv /\ [Next]_leaveVars => LInv'
  BY LInvNext
<1> QED BY <1>1, <1>2, PTL DEF Spec

\* Rows and handlers keep their types: no statement of the service writes a
\* row the schema would not hold, and no handler uses a local it lacks.
THEOREM TypeCorrect == Spec => []TypeOK
BY LInvInductive, PTL DEF LInv

\* The `if (balance)` guards of approveLeaveRequest and cancelLeaveRequest
\* never fail, for any number of handlers and failures.
THEOREM BalanceBehindRequestHolds == Spec => []BalanceBehindRequest
BY LInvInductive, PTL DEF LInv

-----------------------------------------------------------------------------
(* The balance ledger. *)

Conserved(b) == b.totalDays = b.usedDays + b.remainingDays

LEMMA HelpersConserve ==
    ASSUME NEW b \in Balance, Conserved(b), NEW d \in Int
    PROVE  /\ Conserved(Booked(b, d))
           /\ Conserved(Released(b, d))
           /\ Conserved([b EXCEPT !.pendingDays = @ + d])
<1>1. Conserved(Booked(b, d))
  <2>1. /\ Booked(b, d).totalDays = b.totalDays
        /\ Booked(b, d).usedDays = b.usedDays + d
        /\ Booked(b, d).remainingDays = b.remainingDays - d
    BY DEF Booked, Balance
  <2> QED BY <2>1 DEF Conserved, Balance
<1>2. Conserved(Released(b, d))
  BY DEF Conserved, Released, Balance
<1>3. Conserved([b EXCEPT !.pendingDays = @ + d])
  BY DEF Conserved, Balance
<1> QED BY <1>1, <1>2, <1>3

LEMMA NewBalanceConserved ==
    ASSUME NEW limit \in Int, NEW carried \in Int
    PROVE  Conserved(NewBalance(limit, carried))
BY DEF Conserved, NewBalance

\* A step that leaves the balances alone, or rewrites one of them into a
\* conserved row, conserves them all.
LEMMA OneBalance ==
    ASSUME LInv, BalanceConservation, NEW key \in Keys, NEW b \in Balance,
           Conserved(b), leaveBalance' = [leaveBalance EXCEPT ![key] = b]
    PROVE  BalanceConservation'
<1>1. /\ leaveBalance'[key] = b
      /\ \A k \in Keys : k # key => leaveBalance'[k] = leaveBalance[k]
  BY DEF LInv, TypeOK
<1> QED BY <1>1 DEF BalanceConservation, Conserved

LEMMA ServiceStepConserves ==
    ASSUME LInv, BalanceConservation, ServiceStep
    PROVE  BalanceConservation'
<1>1. CASE UNCHANGED leaveBalance
  BY <1>1 DEF BalanceConservation
<1>2. ASSUME NEW h \in Handlers, CreateBalance(h), ~UNCHANGED leaveBalance
      PROVE  BalanceConservation'
  <2> DEFINE f == loc[h].form
             b == NewBalance(loc[h].limit, 0)
  <2>1. leaveBalance' = [leaveBalance EXCEPT ![KeyOf(f)] = b]
    BY <1>2 DEF CreateBalance
  <2>2. f \in Form /\ loc[h].limit \in Int
    BY <1>2 DEF LInv, TypeOK, CreateBalance, CreateSteps, CreateLoc
  <2>3. KeyOf(f) \in Keys
    BY <2>2, KeyOfType
  <2>4. Conserved(b)
    BY <2>2, NewBalanceConserved
  <2>5. b \in Balance
    BY <2>2 DEF NewBalance, Balance
  <2> QED BY <2>1, <2>3, <2>4, <2>5, OneBalance
<1>3. ASSUME NEW h \in Handlers, AddPending(h)
      PROVE  BalanceConservation'
  <2> DEFINE f == loc[h].form
             d == LeaveDays(f)
             b == [leaveBalance[KeyOf(f)] EXCEPT !.pendingDays = @ + d]
  <2>1. /\ f \in Form /\ KeyOf(f) \in Keys /\ d \in Int
        /\ leaveBalance[KeyOf(f)] \in Balance /\ leaveBalance[KeyOf(f)] # NULL
    BY <1>3, KeyOfType, NewRequestType, LeaveAssumption
       DEF LInv, TypeOK, HandlerOK, AddPending, CreateSteps, CreateLoc
  <2>2. leaveBalance' = [leaveBalance EXCEPT ![KeyOf(f)] = b]
    BY <1>3, <2>1 DEF AddPending, LInv, TypeOK
  <2>3. Conserved(leaveBalance[KeyOf(f)])
    BY <2>1 DEF BalanceConservation, Conserved
  <2>4. b \in Balance
    BY <2>1 DEF Balance
  <2> QED BY <2>1, <2>2, <2>3, <2>4, HelpersConserve, OneBalance
<1>4. ASSUME NEW h \in Handlers, CommitDecision(h) \/ CommitCancel(h)
      PROVE  BalanceConservation'
  <2> DEFINE row == leaveRequest[loc[h].id]
             old == leaveBalance[KeyOf(row)]
  <2>1. /\ row \in Request /\ row # NULL /\ KeyOf(row) \in Keys
        /\ loc[h].id \in RequestIds
    BY <1>4, KeyOfType, LeaveAssumption
       DEF LInv, TypeOK, HandlerOK, CommitDecision, CommitCancel,
           DecideLoc, CancelLoc
  <2>2. old \in Balance /\ old # NULL /\ row.days \in Int
    BY <2>1, LeaveAssumption DEF LInv, TypeOK, BalanceBehindRequest, Request
  <2>3. \/ leaveBalance' = [leaveBalance EXCEPT ![KeyOf(row)] =
                                Booked(old, row.days)]
        \/ leaveBalance' = [leaveBalance EXCEPT ![KeyOf(row)] =
                                Released(old, row.days)]
        \/ leaveBalance' = leaveBalance
    <3>1. CASE CommitDecision(h)
      <4>1. leaveBalance' = IF old = NULL THEN leaveBalance
                ELSE [leaveBalance EXCEPT ![KeyOf(row)] =
                         IF loc[h].approve THEN Booked(old, row.days)
                                           ELSE Released(old, row.days)]
        BY <3>1 DEF CommitDecision, UpdateBalance
      <4> QED BY <2>2, <4>1
    <3>2. CASE CommitCancel(h)
      <4>1. \/ leaveBalance' = IF old = NULL THEN leaveBalance
                ELSE [leaveBalance EXCEPT ![KeyOf(row)] =
                         Released(old, row.days)]
            \/ leaveBalance' = leaveBalance
        BY <3>2 DEF CommitCancel, UpdateBalance
      <4> QED BY <2>2, <4>1
    <3> QED BY <1>4, <3>1, <3>2
  <2>4. Conserved(old)
    BY <2>1, <2>2 DEF BalanceConservation, Conserved
  <2>5. /\ Booked(old, row.days) \in Balance
        /\ Released(old, row.days) \in Balance
        /\ Conserved(Booked(old, row.days))
        /\ Conserved(Released(old, row.days))
    BY <2>2, <2>4, BalanceTypes, HelpersConserve
  <2> QED BY <1>1, <2>1, <2>3, <2>5, OneBalance
<1>5. ASSUME ~UNCHANGED leaveBalance
      PROVE  \E h \in Handlers : \/ CreateBalance(h) \/ AddPending(h)
                                \/ CommitDecision(h) \/ CommitCancel(h)
  BY <1>5 DEF ServiceStep, CreateStep, DecideStep, CancelStep, TypeStep, Fail,
     Submit, CheckOverlap, ReadBalance, ReadLimit, InsertRequest,
     CreateApproval, ReadForDecision, ReadForCancel, CreateLeaveType,
     UpdateLeaveType, DeleteLeaveType, tables
<1> QED BY <1>1, <1>2, <1>3, <1>4, <1>5

\* totalDays = usedDays + remainingDays in every balance, for any number of
\* employees, requests, handlers and failures.
THEOREM BalanceConserved == Spec => []BalanceConservation
<1>1. Init => BalanceConservation
  BY DEF Init, BalanceConservation
<1>2. LInv /\ BalanceConservation /\ [Next]_leaveVars => BalanceConservation'
  BY ServiceStepConserves
     DEF Next, NextDay, leaveVars, tables, BalanceConservation
<1> QED BY <1>1, <1>2, LInvInductive, PTL DEF Spec

-----------------------------------------------------------------------------
(* Decisions. *)

LEMMA NextKeepsDecided ==
    ASSUME LInv, Next, NEW r \in RequestIds,
           leaveRequest[r] # NULL, leaveRequest[r].status # "pending"
    PROVE  leaveRequest'[r].status # "pending"
<1>1. CASE leaveRequest'[r] = leaveRequest[r]
  BY <1>1
<1>2. ASSUME NEW h \in Handlers, InsertRequest(h)
      PROVE  leaveRequest'[r].status # "pending"
  <2>1. leaveRequest[loc[h].id] = NULL
    BY <1>2 DEF LInv, HandlerOK, InsertRequest, BeforeInsert
  <2> QED BY <1>1, <1>2, <2>1 DEF LInv, TypeOK, InsertRequest
<1>3. ASSUME NEW h \in Handlers, CommitDecision(h)
      PROVE  leaveRequest'[r].status # "pending"
  <2>1. leaveRequest' = [leaveRequest EXCEPT ![loc[h].id] =
            Decided(leaveRequest[loc[h].id], loc[h].approver, loc[h].approve)]
    BY <1>3 DEF CommitDecision
  <2>2. CASE r = loc[h].id
    <3>1. leaveRequest'[r] =
              Decided(leaveRequest[r], loc[h].approver, loc[h].approve)
      BY <2>1, <2>2 DEF LInv, TypeOK
    <3>2. leaveRequest[r] \in Request
      BY DEF LInv, TypeOK
    <3> QED BY <3>1, <3>2 DEF Decided, Request
  <2>3. CASE r # loc[h].id
    BY <1>1, <2>1, <2>3 DEF LInv, TypeOK
  <2> QED BY <2>2, <2>3
<1>4. ASSUME NEW h \in Handlers, CommitCancel(h)
      PROVE  leaveRequest'[r].status # "pending"
  <2>1. leaveRequest' = [leaveRequest EXCEPT ![loc[h].id] =
                            Cancelled(leaveRequest[loc[h].id])]
    BY <1>4 DEF CommitCancel
  <2>2. CASE r = loc[h].id
    <3>1. leaveRequest'[r] = Cancelled(leaveRequest[r])
      BY <2>1, <2>2 DEF LInv, TypeOK
    <3>2. leaveRequest[r] \in Request
      BY DEF LInv, TypeOK
    <3> QED BY <3>1, <3>2 DEF Cancelled, Request
  <2>3. CASE r # loc[h].id
    BY <1>1, <2>1, <2>3 DEF LInv, TypeOK
  <2> QED BY <2>2, <2>3
<1>5. ASSUME leaveRequest'[r] # leaveRequest[r]
      PROVE  \E h \in Handlers :
                InsertRequest(h) \/ CommitDecision(h) \/ CommitCancel(h)
  BY <1>5 DEF Next, NextDay, ServiceStep, CreateStep, DecideStep, CancelStep,
     TypeStep, Fail, Submit, CheckOverlap, ReadBalance, ReadLimit,
     CreateBalance, AddPending, CreateApproval, ReadForDecision,
     ReadForCancel, CreateLeaveType, UpdateLeaveType, DeleteLeaveType, tables
<1> QED BY <1>1, <1>2, <1>3, <1>4, <1>5

\* No race of approvals, rejections and cancellations reopens a request.
THEOREM NeverPendingAgain == Spec => NoReturnToPending
<1>1. LInv /\ [Next]_leaveVars =>
         [\A r \in RequestIds : (leaveRequest[r] # NULL /\ ~Pending(r)) =>
             leaveRequest'[r].status # "pending"]_leaveVars
  BY NextKeepsDecided DEF Pending
<1> QED BY <1>1, LInvInductive, PTL DEF Spec, NoReturnToPending

-----------------------------------------------------------------------------
(***************************************************************************)
(* What the columns of a leave balance promise about the requests charged  *)
(* to it, for every number of employees, requests and handlers.            *)
(***************************************************************************)

(* The days of a set of requests. *)

\* DaysOf, with the table as a parameter.
Days(q, key, S) ==
    SumFunction([r \in {s \in S : KeyOf(q[s]) = key} |-> q[r].days])

\* What request z contributes to it.
Share(q, key, S, z) == IF z \in S /\ KeyOf(q[z]) = key THEN q[z].days ELSE 0

LEMMA DaysOfIsDays ==
    /\ \A k, S : DaysOf(k, S) = Days(leaveRequest, k, S)
    /\ \A k : /\ DaysOf(k, PendingRequests)' = Days(leaveRequest', k, PendingRequests')
              /\ DaysOf(k, ApprovedRequests)' = Days(leaveRequest', k, ApprovedRequests')
              /\ DaysOf(k, Uncounted)' = Days(leaveRequest', k, Uncounted')
              /\ DaysOf(k, EverApproved)' = Days(leaveRequest', k, EverApproved')
              /\ DaysOf(k, PendingRequests \ Uncounted)' =
                     Days(leaveRequest', k, PendingRequests' \ Uncounted')
BY DEF DaysOf, Days, KeyOf

\* S before and T after differ in request z only.
Differ(q, p, S, T, z) ==
    /\ S \subseteq RequestIds /\ T \subseteq RequestIds /\ S \ {z} = T \ {z}
    /\ \A r \in S : q[r] \in Request
    /\ \A r \in T : p[r] \in Request
    /\ \A r \in S \ {z} : p[r] = q[r]

\* When one request changes, the days change by what it contributed before
\* and what it contributes now.
LEMMA DaysChange ==
    ASSUME NEW q, NEW p, NEW S, NEW T, NEW z, Differ(q, p, S, T, z), NEW k
    PROVE  /\ Days(q, k, S) \in Int
           /\ Share(q, k, S, z) \in Int /\ Share(p, k, T, z) \in Int
           /\ Days(p, k, T) = Days(q, k, S) - Share(q, k, S, z) + Share(p, k, T, z)
<1> USE DEF Differ
<1> DEFINE A == {s \in S : KeyOf(q[s]) = k}
           B == {s \in T : KeyOf(p[s]) = k}
           f == [r \in A |-> q[r].days]
           g == [r \in B |-> p[r].days]
<1>1. IsFiniteSet(A) /\ IsFiniteSet(B)
  <2>1. A \in SUBSET RequestIds /\ B \in SUBSET RequestIds
    OBVIOUS
  <2> QED BY <2>1, RequestsFinite, FS_Subset
<1>2. f \in [A -> Int] /\ g \in [B -> Int]
  BY DEF Request
<1>3. A \ {z} = B \ {z}
  <2>1. \A r \in S \ {z} : KeyOf(p[r]) = KeyOf(q[r])
    BY DEF KeyOf
  <2> QED BY <2>1
<1>4. \A x \in A \ {z} : f[x] = g[x]
  BY <1>3
<1>5. /\ Share(q, k, S, z) = IF z \in A THEN f[z] ELSE 0
      /\ Share(p, k, T, z) = IF z \in B THEN g[z] ELSE 0
  BY DEF Share
<1>6. Days(q, k, S) = SumFunction(f) /\ Days(p, k, T) = SumFunction(g)
  BY DEF Days
<1>7. (z \in A => f[z] \in Int) /\ (z \in B => g[z] \in Int)
  BY <1>2
<1> HIDE DEF A, B, f, g
<1>8. /\ SumFunction(f) \in Int
      /\ SumFunction(g) = SumFunction(f)
             - (IF z \in A THEN f[z] ELSE 0) + (IF z \in B THEN g[z] ELSE 0)
  BY <1>1, <1>2, <1>3, <1>4, SumChangeOne
<1> QED BY <1>5, <1>6, <1>7, <1>8

\* No requests of the balance, no days.
LEMMA NoDays ==
    ASSUME NEW q, NEW S, NEW k, \A r \in S : KeyOf(q[r]) # k
    PROVE  Days(q, k, S) = 0
<1> DEFINE f == [r \in {s \in S : KeyOf(q[s]) = k} |-> q[r].days]
<1>1. DOMAIN f = {}
  OBVIOUS
<1> QED BY <1>1, SumFunctionEmpty DEF Days

LEMMA FewerDays ==
    ASSUME NEW q, NEW S, S \subseteq RequestIds, NEW T, T \subseteq S,
           \A r \in S : q[r] \in Request /\ q[r].days >= 0, NEW k
    PROVE  /\ Days(q, k, S) \in Int /\ Days(q, k, T) \in Int
           /\ Days(q, k, T) <= Days(q, k, S)
<1> DEFINE A == {s \in S : KeyOf(q[s]) = k}
           B == {s \in T : KeyOf(q[s]) = k}
           f == [r \in A |-> q[r].days]
           g == [r \in B |-> q[r].days]
<1>1. IsFiniteSet(A)
  <2>1. A \in SUBSET RequestIds
    OBVIOUS
  <2> QED BY <2>1, RequestsFinite, FS_Subset
<1>2. f \in [A -> Int] /\ g \in [B -> Int] /\ B \subseteq A
  BY DEF Request
<1>3. (\A x \in B : g[x] = f[x]) /\ (\A x \in A \ B : f[x] >= 0)
  OBVIOUS
<1>4. Days(q, k, S) = SumFunction(f) /\ Days(q, k, T) = SumFunction(g)
  BY DEF Days
<1> HIDE DEF A, B, f, g
<1> QED BY <1>1, <1>2, <1>3, <1>4, SumFunctionMonotone

-----------------------------------------------------------------------------
(* The rows and the handlers behind the ledger. *)

DatedRow(r) ==
    r # NULL => r.startDate <= r.endDate /\ r.days = LeaveDays(r)

\* A handler that has inserted its request finds it as it wrote it, but for
\* the decision; a cancellation that saw a decided request is right that it
\* is decided.
HandlerKnows(h) ==
    /\ pc[h] \in CreateSteps =>
           loc[h].form.startDate <= loc[h].form.endDate
    /\ pc[h] = "pending" =>
           /\ leaveRequest[loc[h].id] # NULL
           /\ KeyOf(leaveRequest[loc[h].id]) = KeyOf(loc[h].form)
           /\ leaveRequest[loc[h].id].days = LeaveDays(loc[h].form)
    /\ (pc[h] = "cancel" /\ loc[h].seen # "pending") =>
           leaveRequest[loc[h].id].status # "pending"

RowsKnown ==
    /\ \A r \in RequestIds : DatedRow(leaveRequest[r])
    /\ \A h \in Handlers : HandlerKnows(h)

\* The steps of a handler that leave the requests alone.
Quiet(h) ==
    \/ \E f \in Form, id \in RequestIds : Submit(h, f, id)
    \/ CheckOverlap(h) \/ ReadBalance(h) \/ ReadLimit(h) \/ CreateBalance(h)
    \/ AddPending(h) \/ CreateApproval(h)
    \/ \E r \in RequestIds, a \in Approvers, yes \in BOOLEAN :
          ReadForDecision(h, r, a, yes)
    \/ \E r \in RequestIds : ReadForCancel(h, r)
    \/ Fail(h)

\* Where a quiet step may leave the handler that takes it.
Answered(h) == pc'[h] = "idle"

Decides(h) ==
    /\ pc'[h] = "decide" /\ loc'[h].id \in RequestIds
    /\ leaveRequest[loc'[h].id] # NULL
    /\ leaveRequest[loc'[h].id].status = "pending"

Withdraws(h) ==
    /\ pc'[h] = "cancel" /\ loc'[h].id \in RequestIds
    /\ leaveRequest[loc'[h].id] # NULL
    /\ loc'[h].seen = leaveRequest[loc'[h].id].status

GoesOn(h) ==
    /\ pc'[h] \in CreateSteps \ {"overlap", "pending"}
    /\ pc[h] \in CreateSteps
    /\ loc'[h].form = loc[h].form

Starts(h) ==
    /\ pc'[h] = "overlap" /\ loc'[h].form \in Form
    /\ loc'[h].form.startDate <= loc'[h].form.endDate

OthersStay(h) ==
    \A g \in Handlers \ {h} : pc'[g] = pc[g] /\ loc'[g] = loc[g]

QuietMove(h) ==
    /\ leaveRequest' = leaveRequest
    /\ OthersStay(h)
    /\ Answered(h) \/ Decides(h) \/ Withdraws(h) \/ GoesOn(h) \/ Starts(h)

LEMMA FinishMoves ==
    ASSUME LInv, NEW h \in Handlers, Finish(h)
    PROVE  OthersStay(h) /\ Answered(h)
BY DEF LInv, TypeOK, Finish, Goto, OthersStay, Answered

\* A quiet step moves one handler, and in one of these ways.
LEMMA QuietStep ==
    ASSUME LInv, NEW h \in Handlers, Quiet(h)
    PROVE  QuietMove(h)
<1> USE DEF QuietMove
<1>1. ASSUME NEW f \in Form, NEW id \in RequestIds, Submit(h, f, id)
      PROVE  QuietMove(h)
  BY <1>1 DEF LInv, TypeOK, Submit, Goto, tables, OthersStay, Starts
<1>2. ASSUME NEW s \in CreateSteps \ {"overlap", "pending"},
             pc[h] \in CreateSteps, Goto(h, s), UNCHANGED <<leaveRequest, loc>>
      PROVE  QuietMove(h)
  BY <1>2 DEF LInv, TypeOK, Goto, OthersStay, GoesOn
<1>3. CASE CheckOverlap(h)
  BY <1>2, <1>3, FinishMoves DEF CheckOverlap, CreateSteps, tables
<1>4. CASE ReadBalance(h)
  BY <1>2, <1>4, FinishMoves DEF ReadBalance, CreateSteps, tables
<1>5. CASE ReadLimit(h)
  <2>1. CASE Finish(h)
    BY <1>5, <2>1, FinishMoves DEF ReadLimit, tables
  <2>2. CASE ~Finish(h)
    <3>1. /\ pc[h] = "limit" /\ leaveRequest' = leaveRequest
          /\ loc' = [loc EXCEPT ![h].limit =
                         leaveType[loc[h].form.leaveTypeId].annualLimit]
          /\ Goto(h, "mkBalance")
      BY <1>5, <2>2 DEF ReadLimit, tables
    <3>2. loc[h] \in CreateLoc
      BY <3>1 DEF LInv, TypeOK, CreateSteps
    <3>3. loc'[h].form = loc[h].form
      BY <3>1, <3>2 DEF LInv, TypeOK, CreateLoc
    <3> QED BY <3>1, <3>3
            DEF LInv, TypeOK, Goto, OthersStay, GoesOn, CreateSteps
  <2> QED BY <2>1, <2>2
<1>6. CASE CreateBalance(h)
  BY <1>2, <1>6, FinishMoves DEF CreateBalance, CreateSteps
<1>7. CASE AddPending(h)
  BY <1>2, <1>7, FinishMoves DEF AddPending, CreateSteps
<1>8. CASE CreateApproval(h)
  BY <1>8, FinishMoves DEF CreateApproval
<1>9. ASSUME NEW r \in RequestIds, NEW a \in Approvers, NEW yes \in BOOLEAN,
             ReadForDecision(h, r, a, yes)
      PROVE  QuietMove(h)
  BY <1>9 DEF LInv, TypeOK, ReadForDecision, Goto, tables, OthersStay, Decides
<1>10. ASSUME NEW r \in RequestIds, ReadForCancel(h, r)
       PROVE  QuietMove(h)
  BY <1>10 DEF LInv, TypeOK, ReadForCancel, Goto, tables, OthersStay, Withdraws
<1>11. CASE Fail(h)
  BY <1>11, FinishMoves DEF Fail, tables
<1> HIDE DEF QuietMove
<1>12. CASE \E f \in Form, id \in RequestIds : Submit(h, f, id)
  BY <1>1, <1>12
<1>13. CASE \E r \in RequestIds, a \in Approvers, yes \in BOOLEAN :
               ReadForDecision(h, r, a, yes)
  BY <1>9, <1>13
<1>14. CASE \E r \in RequestIds : ReadForCancel(h, r)
  BY <1>10, <1>14
<1> QED BY <1>3, <1>4, <1>5, <1>6, <1>7, <1>8, <1>11, <1>12, <1>13, <1>14
        DEF Quiet

LEMMA QuietRowsKnown ==
    ASSUME LInv, RowsKnown, NEW h \in Handlers, Quiet(h)
    PROVE  RowsKnown'
<1>1. leaveRequest' = leaveRequest /\ OthersStay(h)
  BY QuietStep DEF QuietMove
<1>2. \A r \in RequestIds : DatedRow(leaveRequest'[r])
  BY <1>1 DEF RowsKnown
<1>3. ASSUME NEW g \in Handlers \ {h} PROVE HandlerKnows(g)'
  BY <1>1 DEF RowsKnown, HandlerKnows, OthersStay, KeyOf, LeaveDays
<1>4. HandlerKnows(h)'
  BY <1>1, QuietStep DEF QuietMove, RowsKnown, HandlerKnows, Answered, Decides, Withdraws,
     GoesOn, Starts, CreateSteps
<1> QED BY <1>2, <1>3, <1>4 DEF RowsKnown, DatedRow, LeaveDays

\* The row that a step of a handler writes is the one whose id it holds.
LEMMA WrittenRow ==
    ASSUME LInv, NEW h \in Handlers,
           InsertRequest(h) \/ CommitDecision(h) \/ CommitCancel(h)
    PROVE  /\ loc[h].id \in RequestIds
           /\ \A r \in RequestIds \ {loc[h].id} : leaveRequest'[r] = leaveRequest[r]
           /\ InsertRequest(h) =>
                 /\ pc[h] = "insert" /\ loc[h] \in CreateLoc
                 /\ leaveRequest[loc[h].id] = NULL
                 /\ leaveRequest'[loc[h].id] = NewRequest(loc[h].form)
           /\ CommitDecision(h) =>
                 /\ pc[h] = "decide" /\ loc[h] \in DecideLoc
                 /\ leaveRequest[loc[h].id] \in Request
                 /\ leaveRequest'[loc[h].id] =
                      Decided(leaveRequest[loc[h].id], loc[h].approver,
                              loc[h].approve)
           /\ CommitCancel(h) =>
                 /\ pc[h] = "cancel" /\ loc[h] \in CancelLoc
                 /\ leaveRequest[loc[h].id] \in Request
                 /\ leaveRequest'[loc[h].id] = Cancelled(leaveRequest[loc[h].id])
           /\ OthersStay(h)
<1>1. CASE InsertRequest(h)
  <2>1. /\ pc[h] = "insert" /\ loc[h] \in CreateLoc /\ loc[h].id \in RequestIds
        /\ leaveRequest[loc[h].id] = NULL
    BY <1>1 DEF LInv, TypeOK, InsertRequest, CreateSteps, CreateLoc, HandlerOK,
                BeforeInsert
  <2>2. leaveRequest' = [leaveRequest EXCEPT ![loc[h].id] =
                            NewRequest(loc[h].form)]
    BY <1>1 DEF InsertRequest
  <2>3. OthersStay(h)
    BY <1>1 DEF InsertRequest, Goto, LInv, TypeOK, OthersStay
  <2>4. ~CommitDecision(h) /\ ~CommitCancel(h)
    BY <2>1 DEF CommitDecision, CommitCancel
  <2> QED BY <2>1, <2>2, <2>3, <2>4 DEF LInv, TypeOK
<1>2. CASE CommitDecision(h)
  <2>1. /\ pc[h] = "decide" /\ loc[h] \in DecideLoc /\ loc[h].id \in RequestIds
        /\ leaveRequest[loc[h].id] \in Request
    BY <1>2 DEF LInv, TypeOK, CommitDecision, DecideLoc, HandlerOK
  <2>2. leaveRequest' = [leaveRequest EXCEPT ![loc[h].id] =
            Decided(leaveRequest[loc[h].id], loc[h].approver, loc[h].approve)]
    BY <1>2 DEF CommitDecision
  <2>3. OthersStay(h)
    BY <1>2, FinishMoves DEF CommitDecision
  <2>4. ~InsertRequest(h) /\ ~CommitCancel(h)
    BY <2>1 DEF InsertRequest, CommitCancel
  <2> QED BY <2>1, <2>2, <2>3, <2>4 DEF LInv, TypeOK
<1>3. CASE CommitCancel(h)
  <2>1. /\ pc[h] = "cancel" /\ loc[h] \in CancelLoc /\ loc[h].id \in RequestIds
        /\ leaveRequest[loc[h].id] \in Request
    BY <1>3 DEF LInv, TypeOK, CommitCancel, CancelLoc, HandlerOK
  <2>2. leaveRequest' = [leaveRequest EXCEPT ![loc[h].id] =
            Cancelled(leaveRequest[loc[h].id])]
    BY <1>3 DEF CommitCancel
  <2>3. OthersStay(h)
    BY <1>3, FinishMoves DEF CommitCancel
  <2>4. ~InsertRequest(h) /\ ~CommitDecision(h)
    BY <2>1 DEF InsertRequest, CommitDecision
  <2> QED BY <2>1, <2>2, <2>3, <2>4 DEF LInv, TypeOK
<1> QED BY <1>1, <1>2, <1>3

\* A decision or a cancellation keeps what the request is charged, and to
\* which balance.
SameCharge(old, new) ==
    /\ new \in Request /\ new.status # "pending"
    /\ KeyOf(new) = KeyOf(old) /\ new.days = old.days
    /\ new.employeeId = old.employeeId
    /\ new.startDate = old.startDate /\ new.endDate = old.endDate

LEMMA CommitSameCharge ==
    ASSUME LInv, NEW h \in Handlers, CommitDecision(h) \/ CommitCancel(h)
    PROVE  SameCharge(leaveRequest[loc[h].id], leaveRequest'[loc[h].id])
<1> DEFINE id == loc[h].id
<1>1. PICK r \in Request : r = leaveRequest[id]
  BY WrittenRow
<1>2. CASE CommitDecision(h)
  <2>1. PICK a \in Employees, yes \in BOOLEAN : leaveRequest'[id] = Decided(r, a, yes)
    BY <1>1, <1>2, WrittenRow DEF DecideLoc
  <2>2. Decided(r, a, yes) \in Request
    BY DecidedType
  <2> QED BY <1>1, <2>1, <2>2 DEF Decided, Request, SameCharge, KeyOf
<1>3. CASE CommitCancel(h)
  <2>1. leaveRequest'[id] = Cancelled(r)
    BY <1>1, <1>3, WrittenRow
  <2>2. Cancelled(r) \in Request
    BY CancelledType
  <2> QED BY <1>1, <2>1, <2>2 DEF Cancelled, Request, SameCharge, KeyOf
<1> QED BY <1>2, <1>3

LEMMA InsertRowsKnown ==
    ASSUME LInv, RowsKnown, NEW h \in Handlers, InsertRequest(h)
    PROVE  RowsKnown'
<1> DEFINE id == loc[h].id
           f == loc[h].form
<1>1. /\ id \in RequestIds /\ f \in Form /\ leaveRequest[id] = NULL
      /\ \A r \in RequestIds \ {id} : leaveRequest'[r] = leaveRequest[r]
      /\ leaveRequest'[id] = NewRequest(f) /\ OthersStay(h)
      /\ pc[h] = "insert"
  BY WrittenRow DEF CreateLoc
<1>2. f.startDate <= f.endDate
  BY <1>1 DEF RowsKnown, HandlerKnows, CreateSteps
<1>3. /\ NewRequest(f) \in Request /\ KeyOf(NewRequest(f)) = KeyOf(f)
      /\ NewRequest(f).days = LeaveDays(f)
      /\ NewRequest(f).startDate = f.startDate /\ NewRequest(f).endDate = f.endDate
  BY <1>1, NewRequestType DEF NewRequest
<1>4. \A r \in RequestIds : DatedRow(leaveRequest'[r])
  <2>1. DatedRow(leaveRequest'[id])
    BY <1>1, <1>2, <1>3 DEF DatedRow, LeaveDays
  <2> QED BY <1>1, <2>1 DEF RowsKnown
<1>5. ASSUME NEW g \in Handlers \ {h} PROVE HandlerKnows(g)'
  <2>1. pc[g] = "pending" => loc[g].id \in RequestIds /\ loc[g].id # id
    BY <1>1 DEF LInv, TypeOK, HandlerOK, CreateSteps, CreateLoc
  <2>2. pc[g] = "cancel" => loc[g].id \in RequestIds /\ loc[g].id # id
    BY <1>1 DEF LInv, TypeOK, HandlerOK, CancelLoc
  <2> QED BY <1>1, <2>1, <2>2
          DEF RowsKnown, HandlerKnows, OthersStay, KeyOf, LeaveDays
<1>6. HandlerKnows(h)'
  <2>1. pc'[h] = "pending" /\ loc' = loc
    BY DEF InsertRequest, Goto, LInv, TypeOK
  <2>2. leaveRequest'[id] # NULL
    BY <1>1, <1>3, LeaveAssumption
  <2> QED BY <1>1, <1>2, <1>3, <2>1, <2>2 DEF HandlerKnows, LeaveDays, KeyOf
<1> QED BY <1>4, <1>5, <1>6 DEF RowsKnown, DatedRow, LeaveDays

LEMMA CommitRowsKnown ==
    ASSUME LInv, RowsKnown, NEW h \in Handlers,
           CommitDecision(h) \/ CommitCancel(h)
    PROVE  RowsKnown'
<1> DEFINE id == loc[h].id
<1>1. /\ id \in RequestIds /\ OthersStay(h)
      /\ \A r \in RequestIds \ {id} : leaveRequest'[r] = leaveRequest[r]
      /\ leaveRequest[id] \in Request
  BY WrittenRow
<1>2. SameCharge(leaveRequest[id], leaveRequest'[id])
  BY CommitSameCharge
<1>3. pc'[h] = "idle"
  BY DEF CommitDecision, CommitCancel, Finish, Goto, LInv, TypeOK
<1>4. leaveRequest'[id] # NULL /\ leaveRequest[id] # NULL
  BY <1>1, <1>2, LeaveAssumption DEF SameCharge
<1>5. \A r \in RequestIds : DatedRow(leaveRequest'[r])
  <2>1. DatedRow(leaveRequest'[id])
    BY <1>1, <1>2, <1>4 DEF RowsKnown, DatedRow, LeaveDays, SameCharge
  <2> QED BY <1>1, <2>1 DEF RowsKnown
<1>6. ASSUME NEW g \in Handlers \ {h} PROVE HandlerKnows(g)'
  <2>1. pc[g] = "pending" => loc[g].id \in RequestIds
    BY DEF LInv, TypeOK, CreateSteps, CreateLoc
  <2>2. pc[g] = "cancel" => loc[g].id \in RequestIds
    BY DEF LInv, TypeOK, CancelLoc
  <2>3. pc'[g] = pc[g] /\ loc'[g] = loc[g]
    BY <1>1 DEF OthersStay
  <2>4. pc[g] = "pending" =>
           /\ leaveRequest'[loc[g].id] # NULL
           /\ KeyOf(leaveRequest'[loc[g].id]) = KeyOf(loc[g].form)
           /\ leaveRequest'[loc[g].id].days = LeaveDays(loc[g].form)
    BY <1>1, <1>2, <1>4, <2>1 DEF RowsKnown, HandlerKnows, SameCharge
  <2>5. pc[g] = "cancel" /\ loc[g].seen # "pending" =>
           leaveRequest'[loc[g].id].status # "pending"
    BY <1>1, <1>2, <2>2 DEF RowsKnown, HandlerKnows, SameCharge
  <2> QED BY <2>3, <2>4, <2>5 DEF RowsKnown, HandlerKnows, KeyOf, LeaveDays
<1>7. HandlerKnows(h)'
  BY <1>3 DEF HandlerKnows, CreateSteps
<1> QED BY <1>5, <1>6, <1>7 DEF RowsKnown, DatedRow, LeaveDays

LEMMA SameRowsKnown ==
    ASSUME RowsKnown, UNCHANGED <<leaveRequest, pc, loc>>
    PROVE  RowsKnown'
BY DEF RowsKnown, HandlerKnows, DatedRow, KeyOf, LeaveDays

\* Every step of the service is of one of these kinds.
LEMMA ServiceStepKinds ==
    ASSUME ServiceStep
    PROVE  \/ \E h \in Handlers : \/ Quiet(h) \/ InsertRequest(h)
                                  \/ CommitDecision(h) \/ CommitCancel(h)
           \/ UNCHANGED <<today, leaveBalance, leaveRequest, pc, loc>>
<1>1. ASSUME NEW h \in Handlers, CreateStep(h)
      PROVE  Quiet(h) \/ InsertRequest(h)
  BY <1>1 DEF CreateStep, Quiet
<1>2. ASSUME NEW h \in Handlers, DecideStep(h)
      PROVE  Quiet(h) \/ CommitDecision(h)
  BY <1>2 DEF DecideStep, Quiet
<1>3. ASSUME NEW h \in Handlers, CancelStep(h)
      PROVE  Quiet(h) \/ CommitCancel(h)
  BY <1>3 DEF CancelStep, Quiet
<1>4. ASSUME NEW h \in Handlers, Fail(h) PROVE Quiet(h)
  BY <1>4 DEF Quiet
<1>5. ASSUME NEW t \in LeaveTypes, TypeStep(t)
      PROVE  UNCHANGED <<today, leaveBalance, leaveRequest, pc, loc>>
  BY <1>5 DEF TypeStep, CreateLeaveType, UpdateLeaveType, DeleteLeaveType
<1> QED BY <1>1, <1>2, <1>3, <1>4, <1>5 DEF ServiceStep

LEMMA ServiceRowsKnown ==
    ASSUME LInv, RowsKnown, ServiceStep
    PROVE  RowsKnown'
BY ServiceStepKinds, QuietRowsKnown, InsertRowsKnown, CommitRowsKnown,
   SameRowsKnown

LEMMA InitRowsKnown == ASSUME Init PROVE RowsKnown
BY DEF Init, RowsKnown, DatedRow, HandlerKnows, CreateSteps

-----------------------------------------------------------------------------
(* What a step does to the counters of a balance. *)

\* A balance keeps its counters, or is new and has counted nothing.
KeepsCounters ==
    \A k \in Keys : leaveBalance'[k] # NULL =>
        \/ /\ leaveBalance[k] # NULL
           /\ leaveBalance'[k].pendingDays = leaveBalance[k].pendingDays
           /\ leaveBalance'[k].usedDays = leaveBalance[k].usedDays
        \/ /\ leaveBalance[k] = NULL
           /\ leaveBalance'[k].pendingDays = 0
           /\ leaveBalance'[k].usedDays = 0

\* The counters of the balance with this key move by so much, the others
\* stay.
MovesCounters(key, pending, used) ==
    \A k \in Keys : leaveBalance'[k] # NULL =>
        /\ leaveBalance[k] # NULL
        /\ leaveBalance'[k].pendingDays = leaveBalance[k].pendingDays
                + (IF k = key THEN pending ELSE 0)
        /\ leaveBalance'[k].usedDays = leaveBalance[k].usedDays
                + (IF k = key THEN used ELSE 0)

LEMMA SameCounters ==
    ASSUME LInv, leaveBalance' = leaveBalance
    PROVE  KeepsCounters
BY DEF KeepsCounters

LEMMA QuietCounters ==
    ASSUME LInv, NEW h \in Handlers, Quiet(h), ~AddPending(h)
    PROVE  KeepsCounters
<1>1. CASE leaveBalance' = leaveBalance
  BY <1>1, SameCounters
<1>2. CASE CreateBalance(h) /\ leaveBalance' # leaveBalance
  <2> DEFINE key == KeyOf(loc[h].form)
  <2>1. /\ leaveBalance[key] = NULL
        /\ leaveBalance' = [leaveBalance EXCEPT ![key] =
                               NewBalance(loc[h].limit, 0)]
    BY <1>2 DEF CreateBalance
  <2>2. \A k \in Keys : /\ k # key => leaveBalance'[k] = leaveBalance[k]
                        /\ k = key => leaveBalance'[k] = NewBalance(loc[h].limit, 0)
    BY <2>1 DEF LInv, TypeOK
  <2> QED BY <2>1, <2>2 DEF KeepsCounters, NewBalance
<1>3. leaveBalance' # leaveBalance => CreateBalance(h)
  BY DEF Quiet, Submit, CheckOverlap, ReadBalance, ReadLimit, CreateApproval,
         ReadForDecision, ReadForCancel, Fail, tables
<1> QED BY <1>1, <1>2, <1>3

\* One balance is rewritten.
LEMMA OneRewritten ==
    ASSUME LInv, NEW key \in Keys, leaveBalance[key] # NULL, NEW new,
           leaveBalance' = [leaveBalance EXCEPT ![key] = new],
           NEW d \in Int, NEW u \in Int,
           new.pendingDays = leaveBalance[key].pendingDays + d,
           new.usedDays = leaveBalance[key].usedDays + u
    PROVE  MovesCounters(key, d, u)
<1>1. \A k \in Keys : leaveBalance'[k] = IF k = key THEN new ELSE leaveBalance[k]
  BY DEF LInv, TypeOK
<1>2. \A k \in Keys : leaveBalance[k] # NULL =>
         leaveBalance[k].pendingDays \in Int /\ leaveBalance[k].usedDays \in Int
  BY DEF LInv, TypeOK, Balance
<1> QED BY <1>1, <1>2 DEF MovesCounters

LEMMA AddPendingCounters ==
    ASSUME LInv, NEW h \in Handlers, AddPending(h)
    PROVE  MovesCounters(KeyOf(loc[h].form), LeaveDays(loc[h].form), 0)
<1>1. PICK f \in Form : f = loc[h].form
  BY DEF LInv, TypeOK, AddPending, CreateSteps, CreateLoc
<1>2. PICK key \in Keys, d \in Int, u \in Int :
         key = KeyOf(f) /\ d = LeaveDays(f) /\ u = 0
  BY KeyOfType, NewRequestType
<1>3. leaveBalance[key] # NULL
  BY <1>1, <1>2 DEF LInv, HandlerOK, AddPending
<1>4. PICK b \in Balance : b = leaveBalance[key]
  BY <1>2, <1>3 DEF LInv, TypeOK
<1> DEFINE new == [b EXCEPT !.pendingDays = @ + d]
<1>5. leaveBalance' = [leaveBalance EXCEPT ![key] = new]
  BY <1>1, <1>2, <1>4 DEF AddPending, LInv, TypeOK
<1>6. new.pendingDays = b.pendingDays + d /\ new.usedDays = b.usedDays + u
  BY <1>2 DEF Balance
<1> HIDE DEF new
<1>7. MovesCounters(key, d, u)
  BY <1>3, <1>4, <1>5, <1>6, OneRewritten
<1> QED BY <1>1, <1>2, <1>7

\* The balance that a stored request is charged to.
LEMMA ChargedBalance ==
    ASSUME LInv, NEW r \in RequestIds, leaveRequest[r] # NULL
    PROVE  /\ leaveRequest[r] \in Request /\ leaveRequest[r].days \in Int
           /\ KeyOf(leaveRequest[r]) \in Keys
           /\ leaveBalance[KeyOf(leaveRequest[r])] # NULL
           /\ leaveBalance[KeyOf(leaveRequest[r])] \in Balance
BY KeyOfType DEF LInv, TypeOK, BalanceBehindRequest, Request

LEMMA DecisionCounters ==
    ASSUME LInv, NEW h \in Handlers, CommitDecision(h)
    PROVE  MovesCounters(KeyOf(leaveRequest[loc[h].id]),
                         -leaveRequest[loc[h].id].days,
                         IF loc[h].approve THEN leaveRequest[loc[h].id].days ELSE 0)
<1>1. PICK id \in RequestIds : id = loc[h].id
  BY WrittenRow
<1>2. leaveRequest[id] # NULL
  BY <1>1, WrittenRow, LeaveAssumption
<1>3. PICK row \in Request, key \in Keys, b \in Balance :
         /\ row = leaveRequest[id] /\ row.days \in Int
         /\ key = KeyOf(row) /\ b = leaveBalance[key] /\ leaveBalance[key] # NULL
  BY <1>2, ChargedBalance
<1>4. PICK yes \in BOOLEAN : yes = loc[h].approve
  BY <1>1, WrittenRow DEF DecideLoc
<1> DEFINE new == IF yes THEN Booked(b, row.days) ELSE Released(b, row.days)
           used == IF yes THEN row.days ELSE 0
<1>5. leaveBalance' = [leaveBalance EXCEPT ![key] = new]
  <2>1. leaveBalance' = IF leaveBalance[KeyOf(leaveRequest[loc[h].id])] = NULL
            THEN leaveBalance
            ELSE [leaveBalance EXCEPT ![KeyOf(leaveRequest[loc[h].id])] =
                    IF loc[h].approve
                    THEN Booked(leaveBalance[KeyOf(leaveRequest[loc[h].id])],
                                leaveRequest[loc[h].id].days)
                    ELSE Released(leaveBalance[KeyOf(leaveRequest[loc[h].id])],
                                  leaveRequest[loc[h].id].days)]
    BY DEF CommitDecision, UpdateBalance
  <2> QED BY <1>1, <1>3, <1>4, <2>1
<1>6. /\ new.pendingDays = b.pendingDays + (-row.days)
      /\ new.usedDays = b.usedDays + used
  <2>1. CASE yes
    BY <1>3, <2>1 DEF Booked, Balance
  <2>2. CASE ~yes
    BY <1>3, <2>2 DEF Released, Balance
  <2> QED BY <2>1, <2>2
<1>7. -row.days \in Int /\ used \in Int
  BY <1>3
<1> HIDE DEF new
<1>8. MovesCounters(key, -row.days, used)
  BY <1>3, <1>5, <1>6, <1>7, OneRewritten
<1> QED BY <1>1, <1>3, <1>4, <1>8

LEMMA CancelCounters ==
    ASSUME LInv, NEW h \in Handlers, CommitCancel(h)
    PROVE  MovesCounters(KeyOf(leaveRequest[loc[h].id]),
                IF loc[h].seen = "pending" THEN -leaveRequest[loc[h].id].days ELSE 0,
                0)
<1>1. PICK id \in RequestIds : id = loc[h].id
  BY WrittenRow
<1>2. leaveRequest[id] # NULL
  BY <1>1, WrittenRow, LeaveAssumption
<1>3. PICK row \in Request, key \in Keys, b \in Balance :
         /\ row = leaveRequest[id] /\ row.days \in Int
         /\ key = KeyOf(row) /\ b = leaveBalance[key] /\ leaveBalance[key] # NULL
  BY <1>2, ChargedBalance
<1>4. CASE loc[h].seen = "pending"
  <2> DEFINE new == Released(b, row.days)
  <2>1. leaveBalance' = [leaveBalance EXCEPT ![key] = new]
    <3>1. leaveBalance' = IF leaveBalance[KeyOf(leaveRequest[loc[h].id])] = NULL
            THEN leaveBalance
            ELSE [leaveBalance EXCEPT ![KeyOf(leaveRequest[loc[h].id])] =
                    Released(leaveBalance[KeyOf(leaveRequest[loc[h].id])],
                             leaveRequest[loc[h].id].days)]
      BY <1>4 DEF CommitCancel, UpdateBalance
    <3> QED BY <1>1, <1>3, <3>1
  <2>2. /\ new.pendingDays = b.pendingDays + (-row.days)
        /\ new.usedDays = b.usedDays + 0
    BY <1>3 DEF Released, Balance
  <2>3. PICK d \in Int, u \in Int : d = -row.days /\ u = 0
    BY <1>3
  <2> HIDE DEF new
  <2>4. MovesCounters(key, d, u)
    BY <1>3, <2>1, <2>2, <2>3, OneRewritten
  <2> QED BY <1>1, <1>3, <1>4, <2>3, <2>4
<1>5. CASE loc[h].seen # "pending"
  <2>1. leaveBalance' = leaveBalance
    BY <1>5 DEF CommitCancel
  <2>2. \A k \in Keys : leaveBalance[k] # NULL =>
           leaveBalance[k].pendingDays \in Int /\ leaveBalance[k].usedDays \in Int
    BY DEF LInv, TypeOK, Balance
  <2> QED BY <1>5, <2>1, <2>2 DEF MovesCounters
<1> QED BY <1>4, <1>5

-----------------------------------------------------------------------------
(* The ledger with any number of handlers. *)

\* PendingNeverOverstated, strengthened to be inductive: pendingDays leaves
\* room for the requests that their handlers have still to count.
PendingLedger ==
    \A k \in Keys : leaveBalance[k] # NULL =>
        leaveBalance[k].pendingDays + DaysOf(k, Uncounted)
            <= DaysOf(k, PendingRequests)

LedgerInv == LInv /\ RowsKnown /\ PendingLedger /\ UsedCoversApproved

\* The stored requests have well-formed rows.
LEMMA StoredRows ==
    ASSUME LInv
    PROVE  /\ PendingRequests \subseteq Stored /\ ApprovedRequests \subseteq Stored
           /\ Uncounted \subseteq Stored /\ Stored \subseteq RequestIds
           /\ EverApproved \subseteq Stored
           /\ \A r \in Stored : leaveRequest[r] \in Request
BY DEF LInv, TypeOK, Stored, PendingRequests, ApprovedRequests, Uncounted,
       EverApproved

LEMMA StoredDays ==
    ASSUME LInv, RowsKnown
    PROVE  \A r \in Stored : leaveRequest[r].days \in Int /\ leaveRequest[r].days >= 0
<1> SUFFICES ASSUME NEW r \in Stored
             PROVE  leaveRequest[r].days \in Int /\ leaveRequest[r].days >= 0
  OBVIOUS
<1>1. PICK row \in Request : row = leaveRequest[r]
  BY StoredRows
<1>2. row.startDate <= row.endDate /\ row.days = LeaveDays(row)
  BY <1>1, StoredRows DEF RowsKnown, DatedRow, Stored
<1>3. row.startDate \in Int /\ row.endDate \in Int
  BY LeaveAssumption DEF Request
<1> QED BY <1>1, <1>2, <1>3 DEF LeaveDays

\* A step that keeps the requests and the counters keeps the ledger.
LEMMA KeptLedger ==
    ASSUME LedgerInv, LInv', RowsKnown', KeepsCounters,
           leaveRequest' = leaveRequest, Uncounted' \subseteq Uncounted
    PROVE  LedgerInv'
<1> USE DEF LedgerInv
<1>1. /\ Stored' = Stored /\ PendingRequests' = PendingRequests
      /\ ApprovedRequests' = ApprovedRequests
  BY DEF Stored, PendingRequests, Pending, ApprovedRequests
<1> SUFFICES ASSUME NEW k \in Keys, leaveBalance'[k] # NULL
             PROVE  /\ leaveBalance'[k].pendingDays + DaysOf(k, Uncounted)'
                           <= DaysOf(k, PendingRequests)'
                    /\ leaveBalance'[k].usedDays >= DaysOf(k, ApprovedRequests)'
  BY DEF PendingLedger, UsedCoversApproved
<1> DEFINE u == Days(leaveRequest, k, Uncounted)
           v == Days(leaveRequest, k, Uncounted')
           p == Days(leaveRequest, k, PendingRequests)
           a == Days(leaveRequest, k, ApprovedRequests)
<1>2. /\ DaysOf(k, Uncounted)' = v /\ DaysOf(k, PendingRequests)' = p
      /\ DaysOf(k, ApprovedRequests)' = a
      /\ DaysOf(k, Uncounted) = u /\ DaysOf(k, PendingRequests) = p
      /\ DaysOf(k, ApprovedRequests) = a
  BY <1>1, DaysOfIsDays
<1>3. u \in Int /\ v \in Int /\ v <= u
  <2>1. Uncounted \subseteq RequestIds
    BY StoredRows
  <2>2. \A r \in Uncounted : leaveRequest[r] \in Request /\ leaveRequest[r].days >= 0
    BY StoredRows, StoredDays
  <2> QED BY <2>1, <2>2, FewerDays
<1>4. p \in Int /\ a \in Int
  <2>1. /\ PendingRequests \subseteq RequestIds /\ ApprovedRequests \subseteq RequestIds
    BY StoredRows
  <2>2. \A r \in PendingRequests \cup ApprovedRequests :
           leaveRequest[r] \in Request /\ leaveRequest[r].days >= 0
    BY StoredRows, StoredDays
  <2> QED BY <2>1, <2>2, FewerDays
<1> HIDE DEF u, v, p, a
<1>5. CASE leaveBalance[k] # NULL
  <2>1. /\ leaveBalance[k].pendingDays + u <= p /\ leaveBalance[k].usedDays >= a
        /\ leaveBalance'[k].pendingDays = leaveBalance[k].pendingDays
        /\ leaveBalance'[k].usedDays = leaveBalance[k].usedDays
    BY <1>2, <1>5 DEF PendingLedger, UsedCoversApproved, KeepsCounters
  <2>2. leaveBalance[k].pendingDays \in Int
    BY <1>5 DEF LInv, TypeOK, Balance
  <2> QED BY <1>2, <1>3, <1>4, <2>1, <2>2
<1>6. CASE leaveBalance[k] = NULL
  <2>1. leaveBalance'[k].pendingDays = 0 /\ leaveBalance'[k].usedDays = 0
    BY <1>6 DEF KeepsCounters
  <2>2. \A r \in Stored : KeyOf(leaveRequest[r]) # k
    BY <1>6 DEF LInv, BalanceBehindRequest, Stored
  <2>3. v = 0 /\ p = 0 /\ a = 0
    BY <2>2, StoredRows, NoDays DEF v, p, a
  <2> QED BY <1>2, <2>1, <2>3
<1> QED BY <1>5, <1>6

\* A handler whose quiet step is not the increment leaves no request
\* uncounted that was counted.
LEMMA QuietUncounted ==
    ASSUME LInv, NEW h \in Handlers, Quiet(h)
    PROVE  Uncounted' \subseteq Uncounted
BY QuietStep DEF QuietMove, OthersStay, Answered, Decides, Withdraws, GoesOn,
   Starts, Uncounted, Stored

LEMMA QuietLedger ==
    ASSUME LedgerInv, LInv', RowsKnown', NEW h \in Handlers, Quiet(h),
           ~AddPending(h)
    PROVE  LedgerInv'
BY QuietStep, QuietCounters, QuietUncounted, KeptLedger DEF LedgerInv, QuietMove

\* The increment counts the request that its handler inserted.
LEMMA AddPendingUncounted ==
    ASSUME LInv, RowsKnown, NEW h \in Handlers, AddPending(h)
    PROVE  /\ loc[h].id \in Uncounted /\ loc[h].id \notin Uncounted'
           /\ Uncounted \ {loc[h].id} = Uncounted' \ {loc[h].id}
           /\ KeyOf(leaveRequest[loc[h].id]) = KeyOf(loc[h].form)
           /\ leaveRequest[loc[h].id].days = LeaveDays(loc[h].form)
           /\ leaveRequest' = leaveRequest
<1>1. PICK id \in RequestIds : id = loc[h].id
  BY DEF LInv, TypeOK, AddPending, CreateSteps, CreateLoc
<1>2. pc[h] = "pending" /\ leaveRequest' = leaveRequest
  BY DEF AddPending
<1>3. /\ leaveRequest[id] # NULL
      /\ KeyOf(leaveRequest[id]) = KeyOf(loc[h].form)
      /\ leaveRequest[id].days = LeaveDays(loc[h].form)
  BY <1>1, <1>2 DEF RowsKnown, HandlerKnows
<1>4. OthersStay(h) /\ pc'[h] # "pending"
  BY DEF AddPending, Goto, Finish, LInv, TypeOK, OthersStay
<1>5. \A g \in Handlers \ {h} : pc[g] = "pending" => loc[g].id # id
  BY <1>1, <1>2 DEF LInv, HandlerOK, CreateSteps
<1>6. id \in Uncounted
  BY <1>1, <1>2, <1>3 DEF Uncounted, Stored
<1>7. id \notin Uncounted'
  BY <1>4, <1>5 DEF Uncounted, OthersStay
<1>8. Uncounted \ {id} = Uncounted' \ {id}
  BY <1>1, <1>2, <1>4 DEF Uncounted, Stored, OthersStay
<1> QED BY <1>1, <1>2, <1>3, <1>6, <1>7, <1>8

LEMMA AddPendingLedger ==
    ASSUME LedgerInv, LInv', RowsKnown', NEW h \in Handlers, AddPending(h)
    PROVE  LedgerInv'
<1> USE DEF LedgerInv
<1>1. /\ leaveRequest' = leaveRequest /\ Stored' = Stored
      /\ PendingRequests' = PendingRequests
      /\ ApprovedRequests' = ApprovedRequests
  BY AddPendingUncounted DEF Stored, PendingRequests, Pending, ApprovedRequests
<1>2. PICK z \in RequestIds, key \in Keys, d \in Int :
         /\ z = loc[h].id /\ key = KeyOf(loc[h].form)
         /\ d = LeaveDays(loc[h].form)
  BY KeyOfType, NewRequestType DEF LInv, TypeOK, AddPending, CreateSteps, CreateLoc
<1>3. /\ z \in Uncounted /\ z \notin Uncounted'
      /\ Uncounted \ {z} = Uncounted' \ {z}
      /\ KeyOf(leaveRequest[z]) = key /\ leaveRequest[z].days = d
  BY <1>2, AddPendingUncounted
<1>4. MovesCounters(key, d, 0)
  BY <1>2, AddPendingCounters
<1> SUFFICES ASSUME NEW k \in Keys, leaveBalance'[k] # NULL
             PROVE  /\ leaveBalance'[k].pendingDays + DaysOf(k, Uncounted)'
                           <= DaysOf(k, PendingRequests)'
                    /\ leaveBalance'[k].usedDays >= DaysOf(k, ApprovedRequests)'
  BY DEF PendingLedger, UsedCoversApproved
<1> DEFINE u == Days(leaveRequest, k, Uncounted)
           v == Days(leaveRequest, k, Uncounted')
           p == Days(leaveRequest, k, PendingRequests)
           a == Days(leaveRequest, k, ApprovedRequests)
           c == IF k = key THEN d ELSE 0
<1>5. /\ DaysOf(k, Uncounted)' = v /\ DaysOf(k, PendingRequests)' = p
      /\ DaysOf(k, ApprovedRequests)' = a
      /\ DaysOf(k, Uncounted) = u /\ DaysOf(k, PendingRequests) = p
      /\ DaysOf(k, ApprovedRequests) = a
  BY <1>1, DaysOfIsDays
<1>6. u \in Int /\ v = u - c
  <2>1. Uncounted \subseteq RequestIds /\ Uncounted' \subseteq RequestIds
    BY <1>1, StoredRows DEF Uncounted, Stored
  <2>2. \A r \in Uncounted \cup Uncounted' : leaveRequest[r] \in Request
    BY <1>1, StoredRows DEF Uncounted, Stored
  <2>6. Differ(leaveRequest, leaveRequest, Uncounted, Uncounted', z)
    BY <1>3, <2>1, <2>2 DEF Differ
  <2>3. /\ u \in Int
        /\ v = u - Share(leaveRequest, k, Uncounted, z)
                 + Share(leaveRequest, k, Uncounted', z)
    BY <2>6, DaysChange
  <2>4. /\ Share(leaveRequest, k, Uncounted, z) = c
        /\ Share(leaveRequest, k, Uncounted', z) = 0
    BY <1>3 DEF Share
  <2>5. c \in Int
    OBVIOUS
  <2> QED BY <2>3, <2>4, <2>5
<1>7. p \in Int /\ a \in Int
  <2>1. PendingRequests \subseteq RequestIds /\ ApprovedRequests \subseteq RequestIds
    BY StoredRows
  <2>2. \A r \in PendingRequests \cup ApprovedRequests :
           leaveRequest[r] \in Request /\ leaveRequest[r].days >= 0
    BY StoredRows, StoredDays
  <2> QED BY <2>1, <2>2, FewerDays
<1> HIDE DEF u, v, p, a
<1>8. /\ leaveBalance[k].pendingDays \in Int /\ leaveBalance[k].usedDays \in Int
      /\ leaveBalance[k].pendingDays + u <= p /\ leaveBalance[k].usedDays >= a
      /\ leaveBalance'[k].pendingDays = leaveBalance[k].pendingDays + c
      /\ leaveBalance'[k].usedDays = leaveBalance[k].usedDays + 0
  BY <1>4, <1>5 DEF PendingLedger, UsedCoversApproved, MovesCounters,
                    LInv, TypeOK, Balance
<1>9. c \in Int
  OBVIOUS
<1> HIDE DEF c
<1> QED BY <1>5, <1>6, <1>7, <1>8, <1>9

\* Inserting a request adds its days to those pending and those uncounted.
LEMMA InsertLedger ==
    ASSUME LedgerInv, LInv', RowsKnown', NEW h \in Handlers, InsertRequest(h)
    PROVE  LedgerInv'
<1> USE DEF LedgerInv
<1>1. PICK z \in RequestIds, row \in Request :
         /\ z = loc[h].id /\ leaveRequest'[z] = row
         /\ row.status = "pending" /\ leaveRequest[z] = NULL
         /\ \A r \in RequestIds \ {z} : leaveRequest'[r] = leaveRequest[r]
         /\ pc[h] = "insert" /\ OthersStay(h)
  <2>1. PICK f \in Form : f = loc[h].form
    BY WrittenRow DEF CreateLoc
  <2>2. NewRequest(f) \in Request /\ NewRequest(f).status = "pending"
    BY NewRequestType DEF NewRequest
  <2> QED BY <2>1, <2>2, WrittenRow
<1>2. pc'[h] = "pending" /\ loc'[h] = loc[h] /\ leaveBalance' = leaveBalance
  BY DEF InsertRequest, Goto, LInv, TypeOK
<1>3. row # NULL
  BY LeaveAssumption
<1>4. /\ Stored' = Stored \cup {z} /\ z \notin Stored
      /\ \A r \in Stored : leaveRequest'[r] = leaveRequest[r]
  BY <1>1, <1>3 DEF Stored
<1>5. /\ PendingRequests' = PendingRequests \cup {z} /\ z \notin PendingRequests
      /\ ApprovedRequests' = ApprovedRequests
  BY <1>1, <1>4 DEF PendingRequests, Pending, ApprovedRequests
<1>6. Uncounted' = Uncounted \cup {z} /\ z \notin Uncounted
  <2>1. \A g \in Handlers \ {h} : pc'[g] = pc[g] /\ loc'[g] = loc[g]
    BY <1>1 DEF OthersStay
  <2> QED BY <1>1, <1>2, <1>4, <2>1 DEF Uncounted
<1> SUFFICES ASSUME NEW k \in Keys, leaveBalance'[k] # NULL
             PROVE  /\ leaveBalance'[k].pendingDays + DaysOf(k, Uncounted)'
                           <= DaysOf(k, PendingRequests)'
                    /\ leaveBalance'[k].usedDays >= DaysOf(k, ApprovedRequests)'
  BY DEF PendingLedger, UsedCoversApproved
<1> DEFINE u == Days(leaveRequest, k, Uncounted)
           v == Days(leaveRequest', k, Uncounted')
           p == Days(leaveRequest, k, PendingRequests)
           q == Days(leaveRequest', k, PendingRequests')
           a == Days(leaveRequest, k, ApprovedRequests)
           b == Days(leaveRequest', k, ApprovedRequests')
           c == IF KeyOf(row) = k THEN row.days ELSE 0
<1>7. /\ DaysOf(k, Uncounted)' = v /\ DaysOf(k, PendingRequests)' = q
      /\ DaysOf(k, ApprovedRequests)' = b
      /\ DaysOf(k, Uncounted) = u /\ DaysOf(k, PendingRequests) = p
      /\ DaysOf(k, ApprovedRequests) = a
  BY DaysOfIsDays
<1>8. \A r \in Stored' : r \in RequestIds /\ leaveRequest'[r] \in Request
  BY <1>1, <1>4, StoredRows
<1>9. u \in Int /\ v = u + c
  <2>1. Differ(leaveRequest, leaveRequest', Uncounted, Uncounted', z)
    BY <1>1, <1>4, <1>6, <1>8, StoredRows DEF Differ
  <2>2. /\ Share(leaveRequest', k, Uncounted', z) = c
        /\ Share(leaveRequest, k, Uncounted, z) = 0
    BY <1>1, <1>6 DEF Share
  <2>3. u \in Int /\ v = u - 0 + c
    BY <2>1, <2>2, DaysChange
  <2> QED BY <2>3
<1>10. p \in Int /\ q = p + c
  <2>1. Differ(leaveRequest, leaveRequest', PendingRequests, PendingRequests', z)
    BY <1>1, <1>4, <1>5, <1>8, StoredRows DEF Differ
  <2>2. /\ Share(leaveRequest', k, PendingRequests', z) = c
        /\ Share(leaveRequest, k, PendingRequests, z) = 0
    BY <1>1, <1>5 DEF Share
  <2>3. p \in Int /\ q = p - 0 + c
    BY <2>1, <2>2, DaysChange
  <2> QED BY <2>3
<1>11. a \in Int /\ b = a
  <2>1. /\ Differ(leaveRequest, leaveRequest', ApprovedRequests, ApprovedRequests', z)
        /\ z \notin ApprovedRequests /\ z \notin ApprovedRequests'
    BY <1>1, <1>4, <1>5, <1>8, StoredRows DEF Differ
  <2>2. /\ Share(leaveRequest', k, ApprovedRequests', z) = 0
        /\ Share(leaveRequest, k, ApprovedRequests, z) = 0
    BY <2>1 DEF Share
  <2>3. a \in Int /\ b = a - 0 + 0
    BY <2>1, <2>2, DaysChange
  <2> QED BY <2>3
<1>12. /\ leaveBalance[k].pendingDays \in Int /\ leaveBalance'[k] = leaveBalance[k]
       /\ leaveBalance[k].pendingDays + u <= p /\ leaveBalance[k].usedDays >= a
  BY <1>2, <1>7 DEF PendingLedger, UsedCoversApproved, LInv, TypeOK, Balance
<1>13. c \in Int
  BY DEF Request
<1> HIDE DEF u, v, p, q, a, b, c
<1> QED BY <1>7, <1>9, <1>10, <1>11, <1>12, <1>13

\* What a decision or a cancellation does to the sets of requests.
LEMMA CommitSets ==
    ASSUME LInv, NEW h \in Handlers, CommitDecision(h) \/ CommitCancel(h)
    PROVE  /\ Stored' = Stored /\ loc[h].id \in Stored
           /\ \A r \in Stored \ {loc[h].id} : leaveRequest'[r] = leaveRequest[r]
           /\ Uncounted' = Uncounted
           /\ PendingRequests' = PendingRequests \ {loc[h].id}
           /\ ApprovedRequests' \ {loc[h].id} = ApprovedRequests \ {loc[h].id}
           /\ loc[h].id \in ApprovedRequests' <=>
                  CommitDecision(h) /\ loc[h].approve
<1>1. PICK z \in RequestIds, row \in Request :
         /\ z = loc[h].id /\ row = leaveRequest[z]
         /\ \A r \in RequestIds \ {z} : leaveRequest'[r] = leaveRequest[r]
         /\ OthersStay(h) /\ pc[h] \in {"decide", "cancel"}
         /\ SameCharge(row, leaveRequest'[z])
  BY WrittenRow, CommitSameCharge
<1>2. row # NULL /\ leaveRequest'[z] # NULL /\ leaveRequest'[z].status # "pending"
  BY <1>1, LeaveAssumption DEF SameCharge
<1>3. pc'[h] = "idle"
  BY DEF CommitDecision, CommitCancel, Finish, Goto, LInv, TypeOK
<1>4. Stored' = Stored /\ z \in Stored
  BY <1>1, <1>2 DEF Stored
<1>5. \A r \in Stored \ {z} : leaveRequest'[r] = leaveRequest[r]
  BY <1>1 DEF Stored
<1>6. Uncounted' = Uncounted
  BY <1>1, <1>3, <1>4 DEF Uncounted, OthersStay
<1>7. PendingRequests' = PendingRequests \ {z}
  BY <1>2, <1>4, <1>5 DEF PendingRequests, Pending
<1>8. ApprovedRequests' \ {z} = ApprovedRequests \ {z}
  BY <1>4, <1>5 DEF ApprovedRequests
<1>9. leaveRequest'[z].status = "approved" <=> CommitDecision(h) /\ loc[h].approve
  <2>1. CASE CommitDecision(h)
    <3>1. PICK a \in Employees, yes \in BOOLEAN :
             yes = loc[h].approve /\ leaveRequest'[z] = Decided(row, a, yes)
      BY <1>1, <2>1, WrittenRow DEF DecideLoc
    <3> QED BY <2>1, <3>1 DEF Decided, Request
  <2>2. CASE CommitCancel(h)
    <3>1. leaveRequest'[z] = Cancelled(row) /\ ~CommitDecision(h)
      BY <1>1, <2>2, WrittenRow DEF CommitDecision
    <3> QED BY <3>1 DEF Cancelled, Request
  <2> QED BY <2>1, <2>2
<1>10. z \in ApprovedRequests' <=> CommitDecision(h) /\ loc[h].approve
  BY <1>4, <1>9 DEF ApprovedRequests
<1> QED BY <1>1, <1>4, <1>5, <1>6, <1>7, <1>8, <1>10

\* A decision or a cancellation takes at least as much from pendingDays as
\* it takes from the pending requests, and adds the days it approves.
LEMMA CommitCounters ==
    ASSUME LInv, RowsKnown, NEW h \in Handlers,
           CommitDecision(h) \/ CommitCancel(h), NEW row,
           row = leaveRequest[loc[h].id]
    PROVE  \E d \in {0, -row.days} : \E w \in {0, row.days} :
              /\ MovesCounters(KeyOf(row), d, w)
              /\ loc[h].id \in PendingRequests => d = -row.days
              /\ loc[h].id \in ApprovedRequests' => w = row.days
<1>1. CASE CommitDecision(h)
  <2>1. PICK yes \in BOOLEAN : yes = loc[h].approve
    BY <1>1, WrittenRow DEF DecideLoc
  <2>2. MovesCounters(KeyOf(row), -row.days, IF yes THEN row.days ELSE 0)
    BY <1>1, <2>1, DecisionCounters
  <2>3. loc[h].id \in ApprovedRequests' => yes
    BY <1>1, <2>1, CommitSets
  <2> QED BY <2>2, <2>3
<1>2. CASE CommitCancel(h)
  <2>1. loc[h].id \notin ApprovedRequests'
    <3>1. ~CommitDecision(h)
      BY <1>2 DEF CommitDecision, CommitCancel
    <3> QED BY <1>2, <3>1, CommitSets
  <2>2. MovesCounters(KeyOf(row),
                      IF loc[h].seen = "pending" THEN -row.days ELSE 0, 0)
    BY <1>2, CancelCounters
  <2>3. loc[h].id \in PendingRequests => loc[h].seen = "pending"
    BY <1>2 DEF RowsKnown, HandlerKnows, CommitCancel, PendingRequests, Pending
  <2> QED BY <2>1, <2>2, <2>3
<1> QED BY <1>1, <1>2

LEMMA CommitLedger ==
    ASSUME LedgerInv, LInv', RowsKnown', NEW h \in Handlers,
           CommitDecision(h) \/ CommitCancel(h)
    PROVE  LedgerInv'
<1> USE DEF LedgerInv
<1>1. PICK z \in Stored : z = loc[h].id
  BY CommitSets
<1>2. PICK row \in Request, new \in Request :
         row = leaveRequest[z] /\ new = leaveRequest'[z]
         /\ KeyOf(new) = KeyOf(row) /\ new.days = row.days
         /\ row.days \in Int /\ row.days >= 0
  BY <1>1, StoredRows, StoredDays, CommitSameCharge DEF SameCharge
<1>3. /\ Stored' = Stored
      /\ \A r \in Stored \ {z} : leaveRequest'[r] = leaveRequest[r]
      /\ Uncounted' = Uncounted
      /\ PendingRequests' = PendingRequests \ {z}
      /\ ApprovedRequests' \ {z} = ApprovedRequests \ {z}
  BY <1>1, CommitSets
<1>4. PICK d \in {0, -row.days}, w \in {0, row.days} :
         /\ MovesCounters(KeyOf(row), d, w)
         /\ z \in PendingRequests => d = -row.days
         /\ z \in ApprovedRequests' => w = row.days
  <2>1. \E d \in {0, -row.days} : \E w \in {0, row.days} :
           /\ MovesCounters(KeyOf(row), d, w)
           /\ loc[h].id \in PendingRequests => d = -row.days
           /\ loc[h].id \in ApprovedRequests' => w = row.days
    BY <1>1, <1>2, CommitCounters
  <2> QED BY <1>1, <2>1
<1> SUFFICES ASSUME NEW k \in Keys, leaveBalance'[k] # NULL
             PROVE  /\ leaveBalance'[k].pendingDays + DaysOf(k, Uncounted)'
                           <= DaysOf(k, PendingRequests)'
                    /\ leaveBalance'[k].usedDays >= DaysOf(k, ApprovedRequests)'
  BY DEF PendingLedger, UsedCoversApproved
<1> DEFINE u == Days(leaveRequest, k, Uncounted)
           v == Days(leaveRequest', k, Uncounted')
           p == Days(leaveRequest, k, PendingRequests)
           q == Days(leaveRequest', k, PendingRequests')
           a == Days(leaveRequest, k, ApprovedRequests)
           b == Days(leaveRequest', k, ApprovedRequests')
           c == IF KeyOf(row) = k THEN row.days ELSE 0
<1>5. /\ DaysOf(k, Uncounted)' = v /\ DaysOf(k, PendingRequests)' = q
      /\ DaysOf(k, ApprovedRequests)' = b
      /\ DaysOf(k, Uncounted) = u /\ DaysOf(k, PendingRequests) = p
      /\ DaysOf(k, ApprovedRequests) = a
  BY DaysOfIsDays
<1>6. \A S, T \in SUBSET Stored : S \ {z} = T \ {z} =>
            /\ Days(leaveRequest, k, S) \in Int
            /\ Days(leaveRequest', k, T) = Days(leaveRequest, k, S)
                  - (IF z \in S THEN c ELSE 0) + (IF z \in T THEN c ELSE 0)
  <2> SUFFICES ASSUME NEW S \in SUBSET Stored, NEW T \in SUBSET Stored,
                      S \ {z} = T \ {z}
               PROVE  /\ Days(leaveRequest, k, S) \in Int
                      /\ Days(leaveRequest', k, T) = Days(leaveRequest, k, S)
                            - (IF z \in S THEN c ELSE 0)
                            + (IF z \in T THEN c ELSE 0)
    OBVIOUS
  <2>1. S \subseteq RequestIds /\ T \subseteq RequestIds
    BY StoredRows
  <2>2. \A r \in S : leaveRequest[r] \in Request
    BY StoredRows
  <2>3. \A r \in T : leaveRequest'[r] \in Request
    BY <1>2, <1>3, StoredRows
  <2>4. \A r \in S \ {z} : leaveRequest'[r] = leaveRequest[r]
    BY <1>3
  <2>5. /\ Days(leaveRequest, k, S) \in Int
        /\ Days(leaveRequest', k, T) = Days(leaveRequest, k, S)
               - Share(leaveRequest, k, S, z) + Share(leaveRequest', k, T, z)
    <3>1. Differ(leaveRequest, leaveRequest', S, T, z)
      BY <2>1, <2>2, <2>3, <2>4 DEF Differ
    <3> QED BY <3>1, DaysChange
  <2>6. /\ Share(leaveRequest, k, S, z) = IF z \in S THEN c ELSE 0
        /\ Share(leaveRequest', k, T, z) = IF z \in T THEN c ELSE 0
    BY <1>2 DEF Share
  <2> QED BY <2>5, <2>6
<1>7. c \in Int /\ c >= 0
  BY <1>2
<1>8. u \in Int /\ v = u
  <2>1. Uncounted \in SUBSET Stored /\ Uncounted' \in SUBSET Stored
    BY <1>3, StoredRows
  <2>2. /\ u \in Int
        /\ v = u - (IF z \in Uncounted THEN c ELSE 0)
                 + (IF z \in Uncounted THEN c ELSE 0)
    BY <1>3, <1>6, <2>1
  <2> HIDE DEF u, v, c
  <2> QED BY <1>7, <2>2
<1>9. p \in Int /\ q = p - (IF z \in PendingRequests THEN c ELSE 0)
  <2>1. /\ PendingRequests \in SUBSET Stored /\ PendingRequests' \in SUBSET Stored
        /\ PendingRequests \ {z} = PendingRequests' \ {z}
        /\ z \notin PendingRequests'
    BY <1>3, StoredRows
  <2>2. p \in Int /\ q = p - (IF z \in PendingRequests THEN c ELSE 0) + 0
    BY <1>6, <2>1
  <2> HIDE DEF p, q, c
  <2> QED BY <1>7, <2>2
<1>10. /\ a \in Int
       /\ b = a - (IF z \in ApprovedRequests THEN c ELSE 0)
                + (IF z \in ApprovedRequests' THEN c ELSE 0)
  <2>1. /\ ApprovedRequests \in SUBSET Stored /\ ApprovedRequests' \in SUBSET Stored
    BY <1>3, StoredRows DEF ApprovedRequests
  <2> QED BY <1>3, <1>6, <2>1
<1>11. /\ leaveBalance[k].pendingDays \in Int /\ leaveBalance[k].usedDays \in Int
       /\ leaveBalance[k].pendingDays + u <= p /\ leaveBalance[k].usedDays >= a
       /\ leaveBalance'[k].pendingDays = leaveBalance[k].pendingDays
              + (IF k = KeyOf(row) THEN d ELSE 0)
       /\ leaveBalance'[k].usedDays = leaveBalance[k].usedDays
              + (IF k = KeyOf(row) THEN w ELSE 0)
  BY <1>4, <1>5 DEF PendingLedger, UsedCoversApproved, MovesCounters,
                    LInv, TypeOK, Balance
<1> DEFINE dd == IF k = KeyOf(row) THEN d ELSE 0
           ww == IF k = KeyOf(row) THEN w ELSE 0
<1>12. /\ dd \in Int /\ dd <= 0 /\ ww \in Int /\ ww >= 0
       /\ z \in PendingRequests => dd = -c
       /\ z \in ApprovedRequests' => ww = c
  BY <1>2, <1>4
<1> HIDE DEF u, v, p, q, a, b, c, dd, ww
<1>13. leaveBalance'[k].pendingDays + v <= q
  <2>1. leaveBalance'[k].pendingDays = leaveBalance[k].pendingDays + dd
    BY <1>11 DEF dd
  <2> QED BY <1>7, <1>8, <1>9, <1>11, <1>12, <2>1
<1>14. leaveBalance'[k].usedDays >= b
  <2>1. leaveBalance'[k].usedDays = leaveBalance[k].usedDays + ww
    BY <1>11 DEF ww
  <2> QED BY <1>7, <1>10, <1>11, <1>12, <2>1
<1> QED BY <1>5, <1>13, <1>14

LEMMA ServiceLedger ==
    ASSUME LedgerInv, ServiceStep
    PROVE  LedgerInv'
<1>1. LInv' /\ RowsKnown'
  BY ServiceStepLInv, ServiceRowsKnown DEF LedgerInv
<1>2. CASE UNCHANGED <<today, leaveBalance, leaveRequest, pc, loc>>
  <2>1. KeepsCounters
    BY <1>2, SameCounters DEF LedgerInv
  <2>2. Uncounted' = Uncounted
    BY <1>2 DEF Uncounted, Stored
  <2> QED BY <1>1, <1>2, <2>1, <2>2, KeptLedger
<1>3. ASSUME NEW h \in Handlers, Quiet(h) PROVE LedgerInv'
  BY <1>1, <1>3, QuietLedger, AddPendingLedger
<1>4. ASSUME NEW h \in Handlers,
             InsertRequest(h) \/ CommitDecision(h) \/ CommitCancel(h)
      PROVE  LedgerInv'
  BY <1>1, <1>4, InsertLedger, CommitLedger
<1> QED BY <1>2, <1>3, <1>4, ServiceStepKinds

LEMMA InitLedger == ASSUME Init PROVE LedgerInv
<1>1. LInv /\ RowsKnown
  BY InitLInv, InitRowsKnown
<1>2. PendingLedger /\ UsedCoversApproved
  BY DEF Init, PendingLedger, UsedCoversApproved
<1> QED BY <1>1, <1>2 DEF LedgerInv

\* The inductive invariant of the ledger: the rows of LInv, what the handlers
\* of createLeaveRequest and cancelLeaveRequest know of them, and room in
\* pendingDays for the requests still to be counted.
THEOREM LedgerInductive == Spec => []LedgerInv
<1>1. Init => LedgerInv
  BY InitLedger
<1>2. LedgerInv /\ [Next]_leaveVars => LedgerInv'
  <2> SUFFICES ASSUME LedgerInv, [Next]_leaveVars PROVE LedgerInv'
    OBVIOUS
  <2>1. CASE ServiceStep
    BY <2>1, ServiceLedger
  <2>2. CASE NextDay \/ UNCHANGED leaveVars
    <3>1. UNCHANGED <<leaveBalance, leaveRequest, pc, loc>>
      BY <2>2 DEF NextDay, leaveVars, tables
    <3>2. LInv'
      BY <2>2, LInvNext DEF LedgerInv, Next
    <3>3. RowsKnown' /\ KeepsCounters
      BY <3>1, SameRowsKnown, SameCounters DEF LedgerInv
    <3>4. Uncounted' = Uncounted
      BY <3>1 DEF Uncounted, Stored
    <3> QED BY <3>1, <3>2, <3>3, <3>4, KeptLedger
  <2> QED BY <2>1, <2>2 DEF Next
<1> QED BY <1>1, <1>2, PTL DEF Spec

LEMMA LedgerOverstatesNothing == ASSUME LedgerInv PROVE PendingNeverOverstated
<1> SUFFICES ASSUME NEW k \in Keys, leaveBalance[k] # NULL
             PROVE  leaveBalance[k].pendingDays <= DaysOf(k, PendingRequests)
  BY DEF PendingNeverOverstated
<1> DEFINE u == Days(leaveRequest, k, Uncounted)
           p == Days(leaveRequest, k, PendingRequests)
<1>1. DaysOf(k, Uncounted) = u /\ DaysOf(k, PendingRequests) = p
  BY DaysOfIsDays
<1>2. /\ Uncounted \subseteq RequestIds /\ PendingRequests \subseteq RequestIds
      /\ \A r \in Uncounted \cup PendingRequests :
             leaveRequest[r] \in Request /\ leaveRequest[r].days >= 0
  BY StoredRows, StoredDays DEF LedgerInv
<1>3. u \in Int /\ p \in Int /\ Days(leaveRequest, k, {}) <= u
  BY <1>2, FewerDays
<1>4. Days(leaveRequest, k, {}) = 0
  BY NoDays
<1>5. leaveBalance[k].pendingDays \in Int /\ leaveBalance[k].pendingDays + u <= p
  BY <1>1 DEF LedgerInv, PendingLedger, LInv, TypeOK, Balance
<1> HIDE DEF u, p
<1> QED BY <1>1, <1>3, <1>4, <1>5

\* pendingDays never counts a day that no pending request accounts for,
\* for any number of handlers racing, and wherever they fail.
THEOREM PendingDaysBacked == Spec => []PendingNeverOverstated
BY LedgerOverstatesNothing, LedgerInductive, PTL

\* No approved leave is free, for any number of handlers racing.
THEOREM ApprovedLeaveIsUsed == Spec => []UsedCoversApproved
BY LedgerInductive, PTL DEF LedgerInv

-----------------------------------------------------------------------------
(* One request at a time: what no other handler can get in between of. *)

\* No two requests are served at the same time.
OneHandler == \A g, h \in Handlers : g = h

\* The steps of createLeaveRequest behind the overlap check.
Checked == {"balance", "limit", "mkBalance", "insert"}

\* What a handler alone with the database read is still true when it acts.
SerialKnows(h) ==
    /\ pc[h] \in {"pending", "decide"} => loc[h].id \in PendingRequests
    /\ pc[h] \in Checked => ~Overlaps(loc[h].form)
    /\ pc[h] = "cancel" => loc[h].seen = leaveRequest[loc[h].id].status

Undecided == \A r \in PendingRequests : leaveRequest[r].approvedBy = NULL

SerialRows ==
    /\ LInv /\ RowsKnown
    /\ \A h \in Handlers : SerialKnows(h)
    /\ Undecided

\* Only the overlap check, passed, leads behind the overlap check.
LEMMA QuietChecked ==
    ASSUME LInv, NEW h \in Handlers, Quiet(h), SerialKnows(h),
           pc'[h] \in Checked
    PROVE  loc'[h].form = loc[h].form /\ ~Overlaps(loc[h].form)
<1> USE DEF Checked
<1>1. loc'[h].form = loc[h].form
  BY QuietStep DEF QuietMove, Answered, Decides, Withdraws, GoesOn, Starts
<1>2. pc[h] \in Checked \/ CheckOverlap(h)
  <2>1. pc'[h] \notin {"idle", "overlap", "decide", "cancel", "approval"}
    OBVIOUS
  <2> QED BY <2>1 DEF Quiet, Submit, ReadBalance, ReadLimit, CreateBalance,
             AddPending, CreateApproval, ReadForDecision, ReadForCancel, Fail,
             Finish, Goto, LInv, TypeOK
<1>3. CASE CheckOverlap(h)
  BY <1>1, <1>3 DEF CheckOverlap, Finish, Goto, LInv, TypeOK
<1>4. CASE pc[h] \in Checked
  BY <1>1, <1>4 DEF SerialKnows
<1> QED BY <1>2, <1>3, <1>4

LEMMA QuietSerial ==
    ASSUME OneHandler, SerialRows, NEW h \in Handlers, Quiet(h)
    PROVE  (\A g \in Handlers : SerialKnows(g)') /\ Undecided'
<1> USE DEF SerialRows
<1>1. leaveRequest' = leaveRequest
  BY QuietStep DEF QuietMove
<1>2. PendingRequests' = PendingRequests
  BY <1>1 DEF PendingRequests, Stored, Pending
<1>3. pc'[h] \in Checked => (~Overlaps(loc[h].form))'
  <2> SUFFICES ASSUME pc'[h] \in Checked PROVE ~Overlaps(loc[h].form)'
    OBVIOUS
  <2>1. loc'[h].form = loc[h].form /\ ~Overlaps(loc[h].form)
    BY QuietChecked
  <2> QED BY <1>1, <2>1 DEF Overlaps
<1>4. pc'[h] \in {"pending", "decide"} => loc'[h].id \in PendingRequests'
  BY <1>1, <1>2, QuietStep DEF QuietMove, Answered, Decides, Withdraws, GoesOn, Starts,
                         PendingRequests, Stored, Pending, CreateSteps
<1>5. pc'[h] = "cancel" => loc'[h].seen = leaveRequest'[loc'[h].id].status
  BY <1>1, QuietStep DEF QuietMove, Answered, Decides, Withdraws, GoesOn, Starts,
                         CreateSteps
<1>6. SerialKnows(h)'
  BY <1>3, <1>4, <1>5 DEF SerialKnows
<1>7. Undecided'
  BY <1>1, <1>2 DEF Undecided
<1> QED BY <1>6, <1>7 DEF OneHandler

LEMMA InsertSerial ==
    ASSUME OneHandler, SerialRows, NEW h \in Handlers, InsertRequest(h)
    PROVE  (\A g \in Handlers : SerialKnows(g)') /\ Undecided'
<1> USE DEF SerialRows
<1>1. PICK z \in RequestIds, f \in Form :
         /\ z = loc[h].id /\ f = loc[h].form
         /\ leaveRequest'[z] = NewRequest(f)
         /\ \A r \in RequestIds \ {z} : leaveRequest'[r] = leaveRequest[r]
  BY WrittenRow DEF CreateLoc
<1>2. pc'[h] = "pending" /\ loc'[h] = loc[h]
  BY DEF InsertRequest, Goto, LInv, TypeOK
<1>3. /\ NewRequest(f) # NULL /\ NewRequest(f).status = "pending"
      /\ NewRequest(f).approvedBy = NULL
  BY NewRequestType, LeaveAssumption DEF NewRequest
<1>4. PendingRequests' = PendingRequests \cup {z}
  BY <1>1, <1>3 DEF PendingRequests, Stored, Pending
<1>5. SerialKnows(h)'
  BY <1>1, <1>2, <1>4 DEF SerialKnows, Checked
<1>6. Undecided'
  BY <1>1, <1>3, <1>4 DEF Undecided, PendingRequests, Stored
<1> QED BY <1>5, <1>6 DEF OneHandler

LEMMA CommitSerial ==
    ASSUME OneHandler, SerialRows, NEW h \in Handlers,
           CommitDecision(h) \/ CommitCancel(h)
    PROVE  (\A g \in Handlers : SerialKnows(g)') /\ Undecided'
<1> USE DEF SerialRows
<1>1. pc'[h] = "idle"
  BY DEF CommitDecision, CommitCancel, Finish, Goto, LInv, TypeOK
<1>2. PICK z \in Stored :
         /\ z = loc[h].id
         /\ \A r \in Stored \ {z} : leaveRequest'[r] = leaveRequest[r]
         /\ PendingRequests' = PendingRequests \ {z}
  BY CommitSets
<1>3. SerialKnows(h)'
  BY <1>1 DEF SerialKnows, Checked
<1>4. Undecided'
  BY <1>2 DEF Undecided, PendingRequests
<1> QED BY <1>3, <1>4 DEF OneHandler

LEMMA ServiceSerial ==
    ASSUME OneHandler, SerialRows, ServiceStep
    PROVE  SerialRows'
<1>1. LInv' /\ RowsKnown'
  BY ServiceStepLInv, ServiceRowsKnown DEF SerialRows
<1>2. CASE UNCHANGED <<today, leaveBalance, leaveRequest, pc, loc>>
  BY <1>1, <1>2 DEF SerialRows, SerialKnows, Undecided, PendingRequests, Stored,
                    Pending, Overlaps
<1>3. ASSUME NEW h \in Handlers,
             \/ Quiet(h) \/ InsertRequest(h)
             \/ CommitDecision(h) \/ CommitCancel(h)
      PROVE  SerialRows'
  BY <1>1, <1>3, QuietSerial, InsertSerial, CommitSerial DEF SerialRows
<1> QED BY <1>2, <1>3, ServiceStepKinds

\* What holds of the rows when requests are served one at a time: the
\* handler finds the request it decides, withdraws or counts as it read it.
THEOREM SerialInductive == ASSUME OneHandler PROVE Spec => []SerialRows
<1>1. Init => SerialRows
  BY InitLInv, InitRowsKnown
     DEF Init, SerialRows, SerialKnows, Checked, Undecided, PendingRequests, Stored
<1>2. SerialRows /\ [Next]_leaveVars => SerialRows'
  <2> SUFFICES ASSUME SerialRows, [Next]_leaveVars PROVE SerialRows'
    OBVIOUS
  <2>1. CASE ServiceStep
    BY <2>1, ServiceSerial
  <2>2. CASE NextDay \/ UNCHANGED leaveVars
    <3>1. UNCHANGED <<leaveRequest, pc, loc>>
      BY <2>2 DEF NextDay, leaveVars, tables
    <3>2. LInv'
      BY <2>2, LInvNext DEF SerialRows, Next
    <3>3. RowsKnown'
      BY <3>1, SameRowsKnown DEF SerialRows
    <3> QED BY <3>1, <3>2, <3>3 DEF SerialRows, SerialKnows, Undecided,
               PendingRequests, Stored, Pending, Overlaps
  <2> QED BY <2>1, <2>2 DEF Next
<1> QED BY <1>1, <1>2, PTL DEF Spec

\* Two requests of an employee that both stand and share a day.
Clash(r, q) ==
    /\ r # NULL /\ q # NULL /\ r.employeeId = q.employeeId
    /\ r.status # "cancelled" /\ q.status # "cancelled"
    /\ ~(r.endDate < q.startDate) /\ ~(q.endDate < r.startDate)

LEMMA NoOverlapIsNoClash ==
    /\ NoOverlap <=> \A r, q \in RequestIds :
                        r # q => ~Clash(leaveRequest[r], leaveRequest[q])
    /\ NoOverlap' <=> \A r, q \in RequestIds :
                        r # q => ~Clash(leaveRequest'[r], leaveRequest'[q])
BY DEF NoOverlap, Clash

\* The request that is inserted clashes with none: nothing was written since
\* the overlap check.
LEMMA InsertNoOverlap ==
    ASSUME SerialRows, NoOverlap, NEW h \in Handlers, InsertRequest(h)
    PROVE  NoOverlap'
<1>1. PICK z \in RequestIds, f \in Form :
         /\ f = loc[h].form /\ pc[h] = "insert"
         /\ leaveRequest'[z] = NewRequest(f)
         /\ \A r \in RequestIds \ {z} : leaveRequest'[r] = leaveRequest[r]
  BY WrittenRow DEF CreateLoc, SerialRows
<1>2. ~Overlaps(f)
  BY <1>1 DEF SerialRows, SerialKnows, Checked
<1>3. /\ NewRequest(f).employeeId = f.employeeId
      /\ NewRequest(f).startDate = f.startDate /\ f.startDate \in Int
      /\ NewRequest(f).endDate = f.endDate /\ f.endDate \in Int
  BY LeaveAssumption DEF NewRequest, Form
<1>4. ASSUME NEW r \in RequestIds \ {z}
      PROVE  /\ ~Clash(leaveRequest[r], NewRequest(f))
             /\ ~Clash(NewRequest(f), leaveRequest[r])
  <2> SUFFICES ASSUME leaveRequest[r] # NULL,
                      leaveRequest[r].employeeId = f.employeeId,
                      leaveRequest[r].status # "cancelled"
               PROVE  \/ leaveRequest[r].endDate < f.startDate
                      \/ f.endDate < leaveRequest[r].startDate
    BY <1>3 DEF Clash
  <2>1. leaveRequest[r].startDate \in Int /\ leaveRequest[r].endDate \in Int
    BY LeaveAssumption DEF SerialRows, LInv, TypeOK, Request
  <2>2. ~(leaveRequest[r].startDate <= f.endDate
            /\ leaveRequest[r].endDate >= f.startDate)
    BY <1>2 DEF Overlaps
  <2> QED BY <1>3, <2>1, <2>2
<1>5. ASSUME NEW r \in RequestIds, NEW q \in RequestIds, r # q
      PROVE  ~Clash(leaveRequest'[r], leaveRequest'[q])
  <2>1. CASE r = z
    BY <1>1, <1>4, <1>5, <2>1
  <2>2. CASE q = z
    BY <1>1, <1>4, <1>5, <2>2
  <2>3. CASE r # z /\ q # z
    BY <1>1, <1>5, <2>3, NoOverlapIsNoClash
  <2> QED BY <2>1, <2>2, <2>3
<1> QED BY <1>5, NoOverlapIsNoClash

\* A decision finds its request standing, so it revives none.
LEMMA CommitNoOverlap ==
    ASSUME SerialRows, NoOverlap, NEW h \in Handlers,
           CommitDecision(h) \/ CommitCancel(h)
    PROVE  NoOverlap'
<1>1. PICK z \in RequestIds :
         /\ z = loc[h].id /\ leaveRequest[z] \in Request
         /\ \A r \in RequestIds \ {z} : leaveRequest'[r] = leaveRequest[r]
  BY WrittenRow DEF SerialRows
<1>2. SameCharge(leaveRequest[z], leaveRequest'[z])
  BY <1>1, CommitSameCharge DEF SerialRows
<1>3. leaveRequest[z].status = "cancelled" => leaveRequest'[z].status = "cancelled"
  <2>1. CASE CommitDecision(h)
    BY <1>1, <2>1 DEF CommitDecision, SerialRows, SerialKnows, PendingRequests, Pending
  <2>2. CASE CommitCancel(h)
    <3>1. leaveRequest'[z] = Cancelled(leaveRequest[z])
      BY <1>1, <2>2, WrittenRow DEF SerialRows
    <3> QED BY <1>1, <3>1 DEF Cancelled, Request
  <2> QED BY <2>1, <2>2
<1>4. ASSUME NEW r \in RequestIds
      PROVE  /\ Clash(leaveRequest'[z], leaveRequest[r]) =>
                    Clash(leaveRequest[z], leaveRequest[r])
             /\ Clash(leaveRequest[r], leaveRequest'[z]) =>
                    Clash(leaveRequest[r], leaveRequest[z])
  BY <1>1, <1>2, <1>3, LeaveAssumption DEF Clash, SameCharge
<1>5. ASSUME NEW r \in RequestIds, NEW q \in RequestIds, r # q
      PROVE  ~Clash(leaveRequest'[r], leaveRequest'[q])
  <2>1. ~Clash(leaveRequest[r], leaveRequest[q])
    BY <1>5, NoOverlapIsNoClash
  <2>2. CASE r = z
    BY <1>1, <1>4, <1>5, <2>1, <2>2
  <2>3. CASE q = z
    BY <1>1, <1>4, <1>5, <2>1, <2>3
  <2>4. CASE r # z /\ q # z
    BY <1>1, <2>1, <2>4
  <2> QED BY <2>2, <2>3, <2>4
<1> QED BY <1>5, NoOverlapIsNoClash

\* One request at a time, an employee never holds two live requests for the
\* same day, whatever fails in between.
THEOREM SerialNoOverlap == ASSUME OneHandler PROVE Spec => []NoOverlap
<1>1. Init => NoOverlap
  BY DEF Init, NoOverlap
<1>2. SerialRows /\ NoOverlap /\ [Next]_leaveVars => NoOverlap'
  <2> SUFFICES ASSUME SerialRows, NoOverlap, [Next]_leaveVars PROVE NoOverlap'
    OBVIOUS
  <2>1. CASE leaveRequest' = leaveRequest
    BY <2>1 DEF NoOverlap
  <2>2. CASE \E h \in Handlers : \/ InsertRequest(h)
                                 \/ CommitDecision(h) \/ CommitCancel(h)
    BY <2>2, InsertNoOverlap, CommitNoOverlap
  <2>3. CASE \E h \in Handlers : Quiet(h)
    BY <2>1, <2>3, QuietStep DEF QuietMove, SerialRows
  <2>4. CASE NextDay \/ UNCHANGED leaveVars
    BY <2>1, <2>4 DEF NextDay, leaveVars, tables
  <2> QED BY <2>1, <2>2, <2>3, <2>4, ServiceStepKinds DEF Next
<1> QED BY <1>1, <1>2, SerialInductive, PTL DEF Spec

\* One request at a time, a decision stands: it can be withdrawn, and who
\* took it is never overwritten.
THEOREM SerialDecisionFinal == ASSUME OneHandler PROVE Spec => DecisionFinal
<1>1. ASSUME SerialRows, [Next]_leaveVars, NEW r \in RequestIds,
             leaveRequest[r] # NULL, ~Pending(r)
      PROVE  /\ leaveRequest'[r].status \in {leaveRequest[r].status, "cancelled"}
             /\ leaveRequest'[r].approvedBy = leaveRequest[r].approvedBy
  <2>1. CASE leaveRequest' = leaveRequest
    BY <2>1
  <2>2. ASSUME NEW h \in Handlers, InsertRequest(h)
        PROVE  leaveRequest'[r] = leaveRequest[r]
    <3>1. loc[h].id # r
      BY <1>1, <2>2, WrittenRow DEF SerialRows
    <3> QED BY <1>1, <2>2, <3>1, WrittenRow DEF SerialRows
  <2>3. ASSUME NEW h \in Handlers, CommitDecision(h)
        PROVE  leaveRequest'[r] = leaveRequest[r]
    <3>1. loc[h].id # r
      BY <1>1, <2>3 DEF CommitDecision, SerialRows, SerialKnows, PendingRequests
    <3> QED BY <1>1, <2>3, <3>1, WrittenRow DEF SerialRows
  <2>4. ASSUME NEW h \in Handlers, CommitCancel(h)
        PROVE  leaveRequest'[r] \in {leaveRequest[r], Cancelled(leaveRequest[r])}
    BY <1>1, <2>4, WrittenRow DEF SerialRows
  <2>5. /\ Cancelled(leaveRequest[r]).status = "cancelled"
        /\ Cancelled(leaveRequest[r]).approvedBy = leaveRequest[r].approvedBy
    BY <1>1 DEF SerialRows, LInv, TypeOK, Cancelled, Request
  <2>6. ASSUME NEW h \in Handlers, Quiet(h) PROVE leaveRequest' = leaveRequest
    BY <1>1, <2>6, QuietStep DEF QuietMove, SerialRows
  <2>7. CASE ServiceStep
    BY <2>2, <2>3, <2>4, <2>5, <2>6, <2>7, ServiceStepKinds
  <2>8. CASE NextDay \/ UNCHANGED leaveVars
    BY <2>1, <2>8 DEF NextDay, leaveVars, tables
  <2> QED BY <1>1, <2>7, <2>8 DEF Next
<1>2. SerialRows /\ [Next]_leaveVars =>
         [\A r \in RequestIds :
             (leaveRequest[r] # NULL /\ ~Pending(r)) =>
                 /\ leaveRequest'[r].status \in {leaveRequest[r].status, "cancelled"}
                 /\ leaveRequest'[r].approvedBy = leaveRequest[r].approvedBy]_leaveVars
  BY <1>1
<1> QED BY <1>2, SerialInductive, PTL DEF Spec, DecisionFinal

-----------------------------------------------------------------------------
(* One request at a time: the exact ledger. *)

\* The pending requests that pendingDays should count.
Counted == PendingRequests \ Uncounted

\* From the requests S to the requests T the days of this one balance move
\* by d.
DaysMove(S, T, key, d) ==
    \A k \in Keys :
        /\ Days(leaveRequest, k, S) \in Int
        /\ Days(leaveRequest', k, T) =
              Days(leaveRequest, k, S) + (IF k = key THEN d ELSE 0)

\* One request enters the set.
LEMMA DaysEnter ==
    ASSUME NEW S, NEW T, NEW z, Differ(leaveRequest, leaveRequest', S, T, z),
           z \notin S, z \in T, NEW key, KeyOf(leaveRequest'[z]) = key,
           NEW d \in Int, leaveRequest'[z].days = d
    PROVE  DaysMove(S, T, key, d)
<1> SUFFICES ASSUME NEW k \in Keys
             PROVE  /\ Days(leaveRequest, k, S) \in Int
                    /\ Days(leaveRequest', k, T) =
                          Days(leaveRequest, k, S) + (IF k = key THEN d ELSE 0)
  BY DEF DaysMove
<1> DEFINE c == IF k = key THEN d ELSE 0
<1>1. Share(leaveRequest, k, S, z) = 0 /\ Share(leaveRequest', k, T, z) = c
  BY DEF Share
<1>2. c \in Int
  OBVIOUS
<1> HIDE DEF c
<1>3. /\ Days(leaveRequest, k, S) \in Int
      /\ Days(leaveRequest', k, T) = Days(leaveRequest, k, S) - 0 + c
  BY <1>1, DaysChange
<1>4. Days(leaveRequest', k, T) = Days(leaveRequest, k, S) + c
  BY <1>2, <1>3
<1> QED BY <1>3, <1>4 DEF c

\* One request leaves the set.
LEMMA DaysLeave ==
    ASSUME NEW S, NEW T, NEW z, Differ(leaveRequest, leaveRequest', S, T, z),
           z \in S, z \notin T, NEW key, KeyOf(leaveRequest[z]) = key,
           NEW d \in Int, leaveRequest[z].days = d
    PROVE  DaysMove(S, T, key, -d)
<1> SUFFICES ASSUME NEW k \in Keys
             PROVE  /\ Days(leaveRequest, k, S) \in Int
                    /\ Days(leaveRequest', k, T) =
                          Days(leaveRequest, k, S) + (IF k = key THEN -d ELSE 0)
  BY DEF DaysMove
<1> DEFINE c == IF k = key THEN d ELSE 0
<1>1. Share(leaveRequest, k, S, z) = c /\ Share(leaveRequest', k, T, z) = 0
  BY DEF Share
<1>2. c \in Int /\ -c = IF k = key THEN -d ELSE 0
  OBVIOUS
<1> HIDE DEF c
<1>3. /\ Days(leaveRequest, k, S) \in Int
      /\ Days(leaveRequest', k, T) = Days(leaveRequest, k, S) - c + 0
  BY <1>1, DaysChange
<1>4. Days(leaveRequest', k, T) = Days(leaveRequest, k, S) + (-c)
  BY <1>2, <1>3
<1> QED BY <1>2, <1>3, <1>4

\* The set keeps its requests, and they what they are charged.
LEMMA DaysStay ==
    ASSUME NEW S, NEW z, Differ(leaveRequest, leaveRequest', S, S, z), NEW key,
           z \in S => /\ KeyOf(leaveRequest'[z]) = KeyOf(leaveRequest[z])
                      /\ leaveRequest'[z].days = leaveRequest[z].days
    PROVE  DaysMove(S, S, key, 0)
<1> SUFFICES ASSUME NEW k \in Keys
             PROVE  /\ Days(leaveRequest, k, S) \in Int
                    /\ Days(leaveRequest', k, S) = Days(leaveRequest, k, S) + 0
  BY DEF DaysMove
<1>1. Share(leaveRequest', k, S, z) = Share(leaveRequest, k, S, z)
  BY DEF Share
<1>2. /\ Days(leaveRequest, k, S) \in Int /\ Share(leaveRequest, k, S, z) \in Int
      /\ Days(leaveRequest', k, S) = Days(leaveRequest, k, S)
             - Share(leaveRequest, k, S, z) + Share(leaveRequest, k, S, z)
  BY <1>1, DaysChange
<1> HIDE DEF Share
<1> QED BY <1>2

\* A balance that is not there yet has no requests.
LEMMA NoBalanceNoDays ==
    ASSUME LInv, NEW S, S \subseteq Stored, NEW k \in Keys, leaveBalance[k] = NULL
    PROVE  Days(leaveRequest, k, S) = 0
<1>1. \A r \in S : KeyOf(leaveRequest[r]) # k
  BY DEF LInv, BalanceBehindRequest, Stored
<1> QED BY <1>1, NoDays

\* usedDays and the days of the approved requests move together.
LEMMA UsedFollows ==
    ASSUME LInv, UsedExact, NEW key, NEW d, NEW w \in Int,
           MovesCounters(key, d, w) \/ (KeepsCounters /\ w = 0),
           DaysMove(EverApproved, EverApproved', key, w)
    PROVE  UsedExact'
<1> SUFFICES ASSUME NEW k \in Keys, leaveBalance'[k] # NULL
             PROVE  leaveBalance'[k].usedDays = DaysOf(k, EverApproved)'
  BY DEF UsedExact
<1> DEFINE a == Days(leaveRequest, k, EverApproved)
           b == Days(leaveRequest', k, EverApproved')
           c == IF k = key THEN w ELSE 0
<1>1. DaysOf(k, EverApproved)' = b /\ DaysOf(k, EverApproved) = a
  BY DaysOfIsDays
<1>2. a \in Int /\ b = a + c /\ c \in Int
  BY DEF DaysMove
<1>3. CASE leaveBalance[k] # NULL
  <2>1. leaveBalance[k].usedDays = a /\ leaveBalance[k].usedDays \in Int
    BY <1>1, <1>3 DEF UsedExact, LInv, TypeOK, Balance
  <2>2. \/ leaveBalance'[k].usedDays = leaveBalance[k].usedDays + c
        \/ leaveBalance'[k].usedDays = leaveBalance[k].usedDays /\ c = 0
    BY <1>3 DEF MovesCounters, KeepsCounters
  <2> HIDE DEF a, b, c
  <2> QED BY <1>1, <1>2, <2>1, <2>2
<1>4. CASE leaveBalance[k] = NULL
  <2>1. leaveBalance'[k].usedDays = 0 /\ c = 0
    BY <1>4 DEF MovesCounters, KeepsCounters
  <2>2. a = 0
    BY <1>4, NoBalanceNoDays, StoredRows
  <2> HIDE DEF a, b, c
  <2> QED BY <1>1, <1>2, <2>1, <2>2
<1> QED BY <1>3, <1>4

\* So do pendingDays and the days of the requests counted.
LEMMA PendingFollows ==
    ASSUME LInv, PendingExact, NEW key, NEW d \in Int, NEW w,
           MovesCounters(key, d, w) \/ (KeepsCounters /\ d = 0),
           DaysMove(Counted, Counted', key, d)
    PROVE  PendingExact'
<1> SUFFICES ASSUME NEW k \in Keys, leaveBalance'[k] # NULL
             PROVE  leaveBalance'[k].pendingDays =
                        DaysOf(k, PendingRequests \ Uncounted)'
  BY DEF PendingExact
<1> DEFINE a == Days(leaveRequest, k, Counted)
           b == Days(leaveRequest', k, Counted')
           c == IF k = key THEN d ELSE 0
<1>1. /\ DaysOf(k, PendingRequests \ Uncounted)' = b
      /\ DaysOf(k, PendingRequests \ Uncounted) = a
  BY DaysOfIsDays DEF Counted
<1>2. a \in Int /\ b = a + c /\ c \in Int
  BY DEF DaysMove
<1>3. CASE leaveBalance[k] # NULL
  <2>1. leaveBalance[k].pendingDays = a /\ leaveBalance[k].pendingDays \in Int
    BY <1>1, <1>3 DEF PendingExact, LInv, TypeOK, Balance
  <2>2. \/ leaveBalance'[k].pendingDays = leaveBalance[k].pendingDays + c
        \/ leaveBalance'[k].pendingDays = leaveBalance[k].pendingDays /\ c = 0
    BY <1>3 DEF MovesCounters, KeepsCounters
  <2> HIDE DEF a, b, c
  <2> QED BY <1>1, <1>2, <2>1, <2>2
<1>4. CASE leaveBalance[k] = NULL
  <2>1. leaveBalance'[k].pendingDays = 0 /\ c = 0
    BY <1>4 DEF MovesCounters, KeepsCounters
  <2>2. a = 0
    BY <1>4, NoBalanceNoDays, StoredRows DEF Counted
  <2> HIDE DEF a, b, c
  <2> QED BY <1>1, <1>2, <2>1, <2>2
<1> QED BY <1>3, <1>4

\* A step that leaves the requests alone and keeps the counters.
LEMMA KeptUsed ==
    ASSUME LInv, UsedExact, leaveRequest' = leaveRequest, KeepsCounters
    PROVE  UsedExact'
<1>1. EverApproved' = EverApproved
  BY DEF EverApproved, Stored
<1>2. PICK z \in {0} : z = 0
  OBVIOUS
<1>3. Differ(leaveRequest, leaveRequest', EverApproved, EverApproved, z)
  BY StoredRows DEF Differ
<1>4. PICK w \in Int, key \in {z} : w = 0
  OBVIOUS
<1>5. DaysMove(EverApproved, EverApproved', key, w)
  BY <1>1, <1>3, <1>4, DaysStay
<1> QED BY <1>4, <1>5, UsedFollows

\* Counting a request as pending is no use of days.
LEMMA AddPendingUsed ==
    ASSUME LInv, UsedExact, NEW h \in Handlers, AddPending(h)
    PROVE  UsedExact'
<1>1. leaveRequest' = leaveRequest /\ EverApproved' = EverApproved
  BY DEF AddPending, EverApproved, Stored
<1>2. PICK key \in {KeyOf(loc[h].form)}, d \in {LeaveDays(loc[h].form)},
           w \in Int : w = 0
  OBVIOUS
<1>3. MovesCounters(key, d, w)
  BY <1>2, AddPendingCounters
<1>4. Differ(leaveRequest, leaveRequest', EverApproved, EverApproved, key)
  BY <1>1, StoredRows DEF Differ
<1>5. DaysMove(EverApproved, EverApproved', key, w)
  BY <1>1, <1>2, <1>4, DaysStay
<1> QED BY <1>3, <1>5, UsedFollows

\* What InsertRequest does to the sets of requests.
LEMMA InsertSets ==
    ASSUME LInv, NEW h \in Handlers, InsertRequest(h)
    PROVE  /\ loc[h].id \in RequestIds \ Stored
           /\ \A r \in Stored : leaveRequest'[r] = leaveRequest[r]
           /\ EverApproved' = EverApproved
           /\ Counted' = Counted
           /\ leaveBalance' = leaveBalance
<1>1. PICK z \in RequestIds, f \in Form :
         /\ z = loc[h].id /\ f = loc[h].form /\ pc[h] = "insert"
         /\ leaveRequest[z] = NULL /\ leaveRequest'[z] = NewRequest(f)
         /\ \A r \in RequestIds \ {z} : leaveRequest'[r] = leaveRequest[r]
  BY WrittenRow DEF CreateLoc
<1>2. /\ NewRequest(f) # NULL /\ NewRequest(f).status = "pending"
      /\ NewRequest(f).approvedBy = NULL
  BY NewRequestType, LeaveAssumption DEF NewRequest
<1>3. Stored' = Stored \cup {z} /\ z \notin Stored
  BY <1>1, <1>2 DEF Stored
<1>4. \A r \in Stored : leaveRequest'[r] = leaveRequest[r]
  BY <1>1, <1>3 DEF Stored
<1>5. EverApproved' = EverApproved
  BY <1>1, <1>2, <1>3, <1>4 DEF EverApproved
<1>6. PendingRequests' = PendingRequests \cup {z}
  BY <1>1, <1>2, <1>3, <1>4 DEF PendingRequests, Pending
<1>7. /\ pc'[h] = "pending" /\ loc' = loc /\ leaveBalance' = leaveBalance
      /\ \A g \in Handlers \ {h} : pc'[g] = pc[g]
  BY DEF InsertRequest, Goto, LInv, TypeOK
<1>8. Uncounted' = Uncounted \cup {z}
  BY <1>1, <1>3, <1>7 DEF Uncounted
<1>9. Counted' = Counted
  BY <1>3, <1>6, <1>8, StoredRows DEF Counted
<1> QED BY <1>1, <1>3, <1>4, <1>5, <1>7, <1>9

LEMMA InsertUsed ==
    ASSUME LInv, UsedExact, NEW h \in Handlers, InsertRequest(h)
    PROVE  UsedExact'
<1>1. PICK z \in {loc[h].id}, w \in Int : w = 0
  OBVIOUS
<1>2. Differ(leaveRequest, leaveRequest', EverApproved, EverApproved, z)
  BY <1>1, InsertSets, StoredRows DEF Differ
<1>3. z \notin EverApproved
  BY <1>1, InsertSets, StoredRows
<1>4. DaysMove(EverApproved, EverApproved', z, w)
  BY <1>1, <1>2, <1>3, InsertSets, DaysStay
<1>5. KeepsCounters
  BY InsertSets, SameCounters
<1> QED BY <1>1, <1>4, <1>5, UsedFollows

\* What a decision does: the request was undecided and pending.
LEMMA DecisionUsed ==
    ASSUME SerialRows, UsedExact, NEW h \in Handlers, CommitDecision(h)
    PROVE  UsedExact'
<1> USE DEF SerialRows
<1>1. PICK z \in PendingRequests : z = loc[h].id
  BY DEF SerialKnows, CommitDecision
<1>2. PICK row \in Request, a \in Employees, yes \in BOOLEAN :
         /\ row = leaveRequest[z] /\ row # NULL /\ row.approvedBy = NULL
         /\ yes = loc[h].approve
         /\ leaveRequest'[z] = Decided(row, a, yes)
  BY <1>1, WrittenRow DEF DecideLoc, Undecided, PendingRequests, Stored
<1>3. PICK d \in Int, key \in Keys : d = row.days /\ key = KeyOf(row)
  BY KeyOfType DEF Request
<1>4. /\ Decided(row, a, yes) \in Request /\ Decided(row, a, yes) # NULL
      /\ KeyOf(Decided(row, a, yes)) = key /\ Decided(row, a, yes).days = d
      /\ Decided(row, a, yes).approvedBy # NULL
      /\ Decided(row, a, yes).rejected = ~yes
  <2>1. Decided(row, a, yes) \in Request /\ KeyOf(Decided(row, a, yes)) = KeyOf(row)
    BY DecidedType
  <2>2. /\ Decided(row, a, yes).days = row.days
        /\ Decided(row, a, yes).approvedBy = a
        /\ Decided(row, a, yes).rejected = ~yes
    BY DEF Decided, Request
  <2>3. a # NULL /\ NULL \notin Request
    BY LeaveAssumption
  <2> QED BY <1>3, <2>1, <2>2, <2>3
<1>5. /\ Stored' = Stored
      /\ \A r \in Stored \ {z} : leaveRequest'[r] = leaveRequest[r]
      /\ z \in Stored
  BY <1>1, CommitSets
<1>6. /\ EverApproved' = IF yes THEN EverApproved \cup {z} ELSE EverApproved
      /\ z \notin EverApproved
  BY <1>2, <1>4, <1>5 DEF EverApproved
<1>7. Differ(leaveRequest, leaveRequest', EverApproved, EverApproved', z)
  BY <1>2, <1>4, <1>5, <1>6, StoredRows DEF Differ
<1>8. CASE yes
  <2>1. MovesCounters(key, -d, d)
    BY <1>1, <1>2, <1>3, <1>8, DecisionCounters
  <2>2. DaysMove(EverApproved, EverApproved', key, d)
    BY <1>2, <1>4, <1>6, <1>7, <1>8, DaysEnter
  <2> QED BY <2>1, <2>2, UsedFollows
<1>9. CASE ~yes
  <2>1. PICK w \in Int : w = 0
    OBVIOUS
  <2>2. MovesCounters(key, -d, w)
    BY <1>1, <1>2, <1>3, <1>9, <2>1, DecisionCounters
  <2>3. DaysMove(EverApproved, EverApproved', key, w)
    BY <1>6, <1>7, <1>9, <2>1, DaysStay
  <2> QED BY <2>2, <2>3, UsedFollows
<1> QED BY <1>8, <1>9

\* A withdrawal gives no used day back, and the request it withdraws keeps
\* the approval it may have had.
LEMMA CancelUsed ==
    ASSUME LInv, UsedExact, NEW h \in Handlers, CommitCancel(h)
    PROVE  UsedExact'
<1>1. PICK z \in Stored : z = loc[h].id
  BY CommitSets
<1>2. PICK row \in Request : row = leaveRequest[z] /\ leaveRequest'[z] = Cancelled(row)
  BY <1>1, WrittenRow
<1>3. /\ Cancelled(row) \in Request /\ KeyOf(Cancelled(row)) = KeyOf(row)
      /\ Cancelled(row).days = row.days
      /\ Cancelled(row).approvedBy = row.approvedBy
      /\ Cancelled(row).rejected = row.rejected
  BY CancelledType DEF Cancelled, Request
<1>4. /\ Stored' = Stored
      /\ \A r \in Stored \ {z} : leaveRequest'[r] = leaveRequest[r]
  BY <1>1, CommitSets
<1>5. EverApproved' = EverApproved
  BY <1>2, <1>3, <1>4 DEF EverApproved
<1>6. Differ(leaveRequest, leaveRequest', EverApproved, EverApproved, z)
  BY <1>2, <1>3, <1>4, StoredRows DEF Differ
<1>7. PICK key \in {KeyOf(row)}, w \in Int,
           d \in {IF loc[h].seen = "pending" THEN -row.days ELSE 0} : w = 0
  OBVIOUS
<1>8. MovesCounters(key, d, w)
  BY <1>1, <1>2, <1>7, CancelCounters
<1>9. DaysMove(EverApproved, EverApproved', key, w)
  BY <1>2, <1>3, <1>5, <1>6, <1>7, DaysStay
<1> QED BY <1>8, <1>9, UsedFollows

\* One request at a time, usedDays is the sum of the requests that were
\* approved, those withdrawn afterwards included, whatever fails.
THEOREM SerialUsedExact == ASSUME OneHandler PROVE Spec => []UsedExact
<1>1. Init => UsedExact
  BY DEF Init, UsedExact
<1>2. SerialRows /\ UsedExact /\ [Next]_leaveVars => UsedExact'
  <2> SUFFICES ASSUME SerialRows, UsedExact, [Next]_leaveVars PROVE UsedExact'
    OBVIOUS
  <2> USE DEF SerialRows
  <2>1. CASE UNCHANGED <<leaveBalance, leaveRequest>>
    BY <2>1, SameCounters, KeptUsed
  <2>2. ASSUME NEW h \in Handlers, Quiet(h) PROVE UsedExact'
    BY <2>2, QuietStep, QuietCounters, KeptUsed, AddPendingUsed DEF QuietMove
  <2>3. ASSUME NEW h \in Handlers,
               InsertRequest(h) \/ CommitDecision(h) \/ CommitCancel(h)
        PROVE  UsedExact'
    BY <2>3, InsertUsed, DecisionUsed, CancelUsed
  <2>4. CASE NextDay \/ UNCHANGED leaveVars
    BY <2>1, <2>4 DEF NextDay, leaveVars, tables
  <2> QED BY <2>1, <2>2, <2>3, <2>4, ServiceStepKinds DEF Next
<1> QED BY <1>1, <1>2, SerialInductive, PTL DEF Spec

\* No statement throws and no connection is lost.
NoFailure == MaxFailures = 0

\* A quiet step that keeps the counters keeps what is counted, unless the
\* handler fails.
LEMMA QuietCounted ==
    ASSUME SerialRows, NoFailure, NEW h \in Handlers, Quiet(h), ~AddPending(h)
    PROVE  Counted' = Counted
<1> USE DEF SerialRows
<1>1. leaveRequest' = leaveRequest /\ OthersStay(h)
  BY QuietStep DEF QuietMove
<1>2. PendingRequests' = PendingRequests /\ Stored' = Stored
  BY <1>1 DEF PendingRequests, Stored, Pending
<1>3. ~Fail(h)
  BY DEF Fail, NoFailure, LInv, TypeOK
<1>4. pc[h] # "pending"
  BY <1>3 DEF Quiet, Submit, CheckOverlap, ReadBalance, ReadLimit, CreateBalance,
              CreateApproval, ReadForDecision, ReadForCancel
<1>5. pc'[h] # "pending"
  BY QuietStep DEF QuietMove, Answered, Decides, Withdraws, GoesOn, Starts
<1>6. Uncounted' = Uncounted
  BY <1>1, <1>2, <1>4, <1>5 DEF Uncounted, OthersStay
<1> QED BY <1>2, <1>6 DEF Counted

LEMMA KeptPending ==
    ASSUME LInv, PendingExact, leaveRequest' = leaveRequest, KeepsCounters,
           Counted' = Counted
    PROVE  PendingExact'
<1>1. PICK z \in {0} : z = 0
  OBVIOUS
<1>2. Differ(leaveRequest, leaveRequest', Counted, Counted, z)
  BY StoredRows DEF Differ, Counted
<1>3. PICK d \in Int, key \in {z} : d = 0
  OBVIOUS
<1>4. DaysMove(Counted, Counted', key, d)
  BY <1>2, <1>3, DaysStay
<1> QED BY <1>3, <1>4, PendingFollows

\* The increment counts its request: it is still pending.
LEMMA AddPendingExact ==
    ASSUME SerialRows, PendingExact, NEW h \in Handlers, AddPending(h)
    PROVE  PendingExact'
<1> USE DEF SerialRows
<1>1. PICK z \in PendingRequests : z = loc[h].id
  BY DEF SerialKnows, AddPending
<1>2. PICK d \in Int, key \in Keys :
         key = KeyOf(loc[h].form) /\ d = LeaveDays(loc[h].form)
  BY KeyOfType, NewRequestType DEF LInv, TypeOK, AddPending, CreateSteps, CreateLoc
<1>3. /\ z \in Uncounted /\ z \notin Uncounted'
      /\ Uncounted \ {z} = Uncounted' \ {z}
      /\ KeyOf(leaveRequest[z]) = key /\ leaveRequest[z].days = d
      /\ leaveRequest' = leaveRequest
  BY <1>1, <1>2, AddPendingUncounted
<1>4. PendingRequests' = PendingRequests
  BY <1>3 DEF PendingRequests, Stored, Pending
<1>5. z \notin Counted /\ z \in Counted' /\ Counted \ {z} = Counted' \ {z}
  BY <1>1, <1>3, <1>4 DEF Counted
<1>6. Differ(leaveRequest, leaveRequest', Counted, Counted', z)
  BY <1>3, <1>4, <1>5, StoredRows DEF Differ, Counted
<1>7. DaysMove(Counted, Counted', key, d)
  BY <1>3, <1>5, <1>6, DaysEnter
<1>8. PICK w \in {0} : w = 0
  OBVIOUS
<1>9. MovesCounters(key, d, w)
  BY <1>2, <1>8, AddPendingCounters
<1> QED BY <1>7, <1>9, PendingFollows

LEMMA InsertPending ==
    ASSUME LInv, PendingExact, NEW h \in Handlers, InsertRequest(h)
    PROVE  PendingExact'
<1>1. PICK z \in {loc[h].id}, d \in Int : d = 0
  OBVIOUS
<1>2. Counted \subseteq Stored
  BY StoredRows DEF Counted
<1>3. Differ(leaveRequest, leaveRequest', Counted, Counted, z)
  BY <1>1, <1>2, InsertSets, StoredRows DEF Differ
<1>4. z \notin Counted
  BY <1>1, <1>2, InsertSets
<1>5. DaysMove(Counted, Counted', z, d)
  BY <1>1, <1>3, <1>4, InsertSets, DaysStay
<1>6. KeepsCounters
  BY InsertSets, SameCounters
<1> QED BY <1>1, <1>5, <1>6, PendingFollows

\* A decision or a withdrawal releases the request that it finds pending, and
\* nothing when it finds none.
LEMMA CommitPending ==
    ASSUME OneHandler, SerialRows, PendingExact, NEW h \in Handlers,
           CommitDecision(h) \/ CommitCancel(h)
    PROVE  PendingExact'
<1> USE DEF SerialRows
<1>1. PICK z \in Stored :
         /\ z = loc[h].id
         /\ \A r \in Stored \ {z} : leaveRequest'[r] = leaveRequest[r]
         /\ PendingRequests' = PendingRequests \ {z}
         /\ Uncounted' = Uncounted
  BY CommitSets
<1>2. PICK row \in Request : row = leaveRequest[z]
  BY <1>1, StoredRows
<1>3. PICK d \in Int, key \in Keys : d = row.days /\ key = KeyOf(row)
  BY KeyOfType DEF Request
<1>4. pc[h] \in {"decide", "cancel"}
  BY DEF CommitDecision, CommitCancel
<1>5. Uncounted = {}
  BY <1>4 DEF Uncounted, OneHandler
<1>6. Counted = PendingRequests /\ Counted' = PendingRequests \ {z}
  BY <1>1, <1>5 DEF Counted
<1>7. Differ(leaveRequest, leaveRequest', Counted, Counted', z)
  BY <1>1, <1>6, StoredRows DEF Differ
<1>8. CASE z \in PendingRequests
  <2>1. DaysMove(Counted, Counted', key, -d)
    BY <1>2, <1>3, <1>6, <1>7, <1>8, DaysLeave
  <2>2. \E w : MovesCounters(key, -d, w)
    <3>1. CASE CommitDecision(h)
      BY <1>1, <1>2, <1>3, <3>1, DecisionCounters
    <3>2. CASE CommitCancel(h)
      <4>1. loc[h].seen = "pending"
        BY <1>1, <1>8, <3>2 DEF SerialKnows, CommitCancel, PendingRequests, Pending
      <4> QED BY <1>1, <1>2, <1>3, <3>2, <4>1, CancelCounters
    <3> QED BY <3>1, <3>2
  <2>3. PICK e \in Int : e = -d
    BY <1>3
  <2> QED BY <2>1, <2>2, <2>3, PendingFollows
<1>9. CASE z \notin PendingRequests
  <2>1. PICK e \in Int, w \in {0} : e = 0
    OBVIOUS
  <2>2. CommitCancel(h) /\ loc[h].seen # "pending"
    BY <1>1, <1>9 DEF SerialKnows, CommitDecision, CommitCancel, PendingRequests,
                      Pending
  <2>3. MovesCounters(key, e, w)
    BY <1>1, <1>2, <1>3, <2>1, <2>2, CancelCounters
  <2>4. Counted' = Counted /\ z \notin Counted
    BY <1>6, <1>9
  <2>5. DaysMove(Counted, Counted', key, e)
    BY <1>7, <2>1, <2>4, DaysStay
  <2> QED BY <2>3, <2>5, PendingFollows
<1> QED BY <1>8, <1>9

\* One request at a time and no failure, pendingDays is the sum of the
\* pending requests, but for the one that its handler has still to count.
THEOREM SerialPendingExact ==
    ASSUME OneHandler, NoFailure PROVE Spec => []PendingExact
<1>1. Init => PendingExact
  BY DEF Init, PendingExact
<1>2. SerialRows /\ PendingExact /\ [Next]_leaveVars => PendingExact'
  <2> SUFFICES ASSUME SerialRows, PendingExact, [Next]_leaveVars
               PROVE  PendingExact'
    OBVIOUS
  <2> USE DEF SerialRows
  <2>1. CASE UNCHANGED <<leaveBalance, leaveRequest, pc, loc>>
    <3>1. Counted' = Counted
      BY <2>1 DEF Counted, PendingRequests, Uncounted, Stored, Pending
    <3> QED BY <2>1, <3>1, SameCounters, KeptPending
  <2>2. ASSUME NEW h \in Handlers, Quiet(h) PROVE PendingExact'
    BY <2>2, QuietStep, QuietCounters, QuietCounted, KeptPending, AddPendingExact
       DEF QuietMove
  <2>3. ASSUME NEW h \in Handlers,
               InsertRequest(h) \/ CommitDecision(h) \/ CommitCancel(h)
        PROVE  PendingExact'
    BY <2>3, InsertPending, CommitPending
  <2>4. CASE NextDay \/ UNCHANGED leaveVars
    BY <2>1, <2>4 DEF NextDay, leaveVars, tables
  <2> QED BY <2>1, <2>2, <2>3, <2>4, ServiceStepKinds DEF Next
<1> QED BY <1>1, <1>2, SerialInductive, PTL DEF Spec
=============================================================================
