----------------------------- MODULE BooksProofs -----------------------------
(***************************************************************************)
(* Theorems about the money, under the two assumptions of SerialProofs     *)
(* (no two requests on one transaction at a time, no manual reversal):     *)
(* every balance is the sum of what the rows put on the account and of the *)
(* direct settlements, and the reports agree with the ledger.  For one     *)
(* request at a time over all transactions (Alone): nobody is charged      *)
(* beyond the limit, and the handlers with their journal implement         *)
(* OfficeBooks.  The runs credit_race, double_payment and manual_reversal  *)
(* show how these fail without the assumptions.                            *)
(*                                                                         *)
(* The parts, each resting on those before it: sums over a finite set;     *)
(* balances as sums of lines; the invariant BInv, by which a row tells     *)
(* what it has on each account; the balances explained; the reports; the   *)
(* credit limit; the refinement of OfficeBooks.                            *)
(***************************************************************************)
EXTENDS SerialProofs, TransactionsRefinement, Reports, FiniteSetTheorems

(***************************************************************************)
(* Sums over a finite set.  SumFunction is a fold: its value is any sum    *)
(* taken in some order, and what all of them have in common is shown of a  *)
(* smallest set that would break it.                                       *)
(***************************************************************************)
(* What a minimal counterexample looks like among the subsets of a finite  *)
(* set: this stands in for induction over the set.                         *)
LEMMA SmallestSubset ==
    ASSUME NEW S, IsFiniteSet(S), NEW B \in SUBSET SUBSET S, B # {}
    PROVE  \E s \in B : \A x \in s : s \ {x} \notin B
<1>1. IsWellFoundedOn(StrictSubsetOrdering(S), FiniteSubsetsOf(S)) /\ FiniteSubsetsOf(S) = SUBSET S
  BY FS_StrictSubsetOrderingWellFounded, FS_FiniteSubsetsOfFinite
<1>2. PICK s \in B : \A y \in B : ~(<<y, s>> \in StrictSubsetOrdering(S))
  BY <1>1, WFMin
<1>3. ASSUME NEW x \in s, s \ {x} \in B
      PROVE  <<s \ {x}, s>> \in StrictSubsetOrdering(S)
  BY <1>3 DEF StrictSubsetOrdering
<1> QED
  BY <1>2, <1>3

(***************************************************************************)
(* The sum of the community modules is the value at S of a function on the *)
(* subsets of S that takes one element away at a time.                     *)
(***************************************************************************)
SumOn(f, S) == SumFunctionOnSet(f, S)

Picked(s) == CHOOSE x \in s : TRUE

Summing(f, S, g) ==
    g = [s \in SUBSET S |-> IF s = {} THEN 0 ELSE f[Picked(s)] + g[s \ {Picked(s)}]]

LEMMA PickedIn == ASSUME NEW s, s # {} PROVE Picked(s) \in s
  BY DEF Picked

LEMMA SumIsChosen ==
    ASSUME NEW f, NEW S
    PROVE  SumOn(f, S) = (CHOOSE g : Summing(f, S, g))[S]
  BY DEF SumOn, SumFunctionOnSet, FoldFunctionOnSet, MapThenFoldSet, Summing, Picked

LEMMA SummingSteps ==
    ASSUME NEW f, NEW S, NEW g, Summing(f, S, g), NEW s \in SUBSET S
    PROVE  g[s] = IF s = {} THEN 0 ELSE f[Picked(s)] + g[s \ {Picked(s)}]
<1>1. g = [u \in SUBSET S |-> IF u = {} THEN 0 ELSE f[Picked(u)] + g[u \ {Picked(u)}]]
  BY DEF Summing
<1> QED
  BY <1>1, Zenon

LEMMA SummingUnique ==
    ASSUME NEW f, NEW S, NEW T, IsFiniteSet(S), NEW g, NEW h,
           Summing(f, S, g), Summing(f, T, h), NEW s \in SUBSET S, s \in SUBSET T
    PROVE  g[s] = h[s]
<1> DEFINE B == {u \in SUBSET s : g[u] # h[u]}
<1> SUFFICES ASSUME B # {} PROVE FALSE
  OBVIOUS
<1>1. IsFiniteSet(s)
  BY FS_Subset
<1>2. PICK u \in B : \A x \in u : u \ {x} \notin B
  BY <1>1, SmallestSubset
<1>3. CASE u = {}
  BY <1>2, <1>3, SummingSteps
<1>4. CASE u # {}
  <2>1. Picked(u) \in u
    BY <1>4, PickedIn
  <2>2. g[u \ {Picked(u)}] = h[u \ {Picked(u)}]
    BY <1>2, <2>1
  <2> QED
    BY <1>2, <1>4, <2>2, SummingSteps
<1> QED
  BY <1>3, <1>4

LEMMA SummingExists ==
    ASSUME NEW f, NEW S, IsFiniteSet(S)
    PROVE  \E g : Summing(f, S, g)
<1> DEFINE B == {s \in SUBSET S : ~\E g : Summing(f, s, g)}
<1> SUFFICES ASSUME B # {} PROVE FALSE
  OBVIOUS
<1>1. PICK s \in B : \A x \in s : s \ {x} \notin B
  BY SmallestSubset
<1>2. s \in SUBSET S /\ ~\E g : Summing(f, s, g)
  OBVIOUS
<1> DEFINE G(x) == CHOOSE g : Summing(f, s \ {x}, g)
           h == [u \in SUBSET s |->
                   IF u = {} THEN 0 ELSE f[Picked(u)] + G(Picked(u))[u \ {Picked(u)}]]
<1>3. ASSUME NEW x \in s PROVE Summing(f, s \ {x}, G(x)) /\ IsFiniteSet(s \ {x})
  <2>1. s \ {x} \in SUBSET S /\ s \ {x} \notin B
    BY <1>1
  <2> QED
    BY <2>1, FS_Subset
<1> HIDE DEF G, B
<1>4. ASSUME NEW u \in SUBSET s, u # {}
      PROVE  G(Picked(u))[u \ {Picked(u)}] = h[u \ {Picked(u)}]
  <2> DEFINE p == Picked(u)  v == u \ {p}  q == Picked(v)
  <2>1. p \in u /\ p \in s /\ v \in SUBSET s /\ v \in SUBSET (s \ {p})
    BY <1>4, PickedIn
  <2>a. Summing(f, s \ {p}, G(p)) /\ IsFiniteSet(s \ {p})
    BY <1>3, <2>1
  <2>2. G(p)[v] = IF v = {} THEN 0 ELSE f[q] + G(p)[v \ {q}]
    <3> HIDE DEF p, v
    <3> QED
      BY <2>1, <2>a, SummingSteps
  <2>3. h[v] = IF v = {} THEN 0 ELSE f[q] + G(q)[v \ {q}]
    BY <2>1
  <2>4. CASE v # {}
    <3>1. q \in v /\ q \in s /\ v \ {q} \in SUBSET (s \ {p}) /\ v \ {q} \in SUBSET (s \ {q})
      BY <2>1, <2>4, PickedIn
    <3>a. Summing(f, s \ {q}, G(q))
      BY <1>3, <3>1
    <3>2. G(p)[v \ {q}] = G(q)[v \ {q}]
      <4> HIDE DEF p, v, q
      <4> QED
        BY <2>a, <3>1, <3>a, SummingUnique
    <3> QED
      BY <2>2, <2>3, <3>2
  <2> QED
    BY <2>2, <2>3, <2>4
<1>5. h = [u \in SUBSET s |-> IF u = {} THEN 0 ELSE f[Picked(u)] + h[u \ {Picked(u)}]]
  BY <1>4
<1>6. Summing(f, s, h)
  BY <1>5 DEF Summing
<1> QED
  BY <1>2, <1>6

LEMMA SumSteps ==
    ASSUME NEW f, NEW S, IsFiniteSet(S)
    PROVE  /\ SumOn(f, {}) = 0
           /\ S # {} => SumOn(f, S) = f[Picked(S)] + SumOn(f, S \ {Picked(S)})
<1>1. ASSUME NEW T, IsFiniteSet(T)
      PROVE  \E g : Summing(f, T, g) /\ SumOn(f, T) = g[T]
  BY <1>1, SummingExists, SumIsChosen
<1>2. SumOn(f, {}) = 0
  BY <1>1, FS_EmptySet, SummingSteps
<1>3. CASE S # {}
  <2> DEFINE p == Picked(S)
  <2>1. IsFiniteSet(S \ {p})
    BY FS_RemoveElement
  <2>2. PICK g : Summing(f, S, g) /\ SumOn(f, S) = g[S]
    BY <1>1
  <2>3. PICK h : Summing(f, S \ {p}, h) /\ SumOn(f, S \ {p}) = h[S \ {p}]
    BY <1>1, <2>1
  <2>4. g[S] = f[p] + g[S \ {p}]
    BY <1>3, <2>2, SummingSteps
  <2>5. g[S \ {p}] = h[S \ {p}]
    BY <2>2, <2>3, SummingUnique
  <2> QED
    BY <2>2, <2>3, <2>4, <2>5, <1>2
<1> QED
  BY <1>2, <1>3

LEMMA SumEmpty == ASSUME NEW f PROVE SumOn(f, {}) = 0
  BY SumSteps, FS_EmptySet

(***************************************************************************)
(* Sums of integers over a finite set.                                     *)
(***************************************************************************)
LEMMA SumType ==
    ASSUME NEW f, NEW S, IsFiniteSet(S), \A x \in S : f[x] \in Int
    PROVE  SumOn(f, S) \in Int
<1> DEFINE B == {s \in SUBSET S : SumOn(f, s) \notin Int}
<1> SUFFICES ASSUME B # {} PROVE FALSE
  OBVIOUS
<1>1. PICK s \in B : \A x \in s : s \ {x} \notin B
  BY SmallestSubset
<1>2. IsFiniteSet(s) /\ s \in SUBSET S /\ SumOn(f, s) \notin Int
  BY FS_Subset
<1>3. CASE s = {}
  BY <1>2, <1>3, SumEmpty
<1>4. CASE s # {}
  <2>1. Picked(s) \in s
    BY <1>4, PickedIn
  <2>2. SumOn(f, s \ {Picked(s)}) \in Int /\ f[Picked(s)] \in Int
    BY <1>1, <1>2, <2>1
  <2> QED
    BY <1>2, <1>4, <2>2, SumSteps
<1> QED
  BY <1>3, <1>4

LEMMA SumWithout ==
    ASSUME NEW f, NEW S, IsFiniteSet(S), \A x \in S : f[x] \in Int, NEW x \in S
    PROVE  SumOn(f, S) = f[x] + SumOn(f, S \ {x})
<1> DEFINE B == {s \in SUBSET S : \E y \in s : SumOn(f, s) # f[y] + SumOn(f, s \ {y})}
<1> SUFFICES ASSUME B # {} PROVE FALSE
  OBVIOUS
<1>1. PICK s \in B : \A y \in s : s \ {y} \notin B
  BY SmallestSubset
<1>2. PICK y \in s : SumOn(f, s) # f[y] + SumOn(f, s \ {y})
  OBVIOUS
<1> DEFINE p == Picked(s)
<1>3. p \in s /\ s \in SUBSET S /\ s # {}
  BY PickedIn
<1>4. IsFiniteSet(s) /\ IsFiniteSet(s \ {p}) /\ IsFiniteSet((s \ {p}) \ {y})
  BY <1>3, FS_Subset, FS_RemoveElement
<1>a. \A v \in SUBSET S : v \notin B => \A z \in v : SumOn(f, v) = f[z] + SumOn(f, v \ {z})
  OBVIOUS
<1> HIDE DEF p, B
<1>5. SumOn(f, s) = f[p] + SumOn(f, s \ {p})
  BY <1>3, <1>4, SumSteps DEF p
<1>6. y # p
  BY <1>2, <1>5
<1>7. SumOn(f, s \ {p}) = f[y] + SumOn(f, (s \ {p}) \ {y})
  BY <1>1, <1>3, <1>6, <1>a
<1>8. SumOn(f, s \ {y}) = f[p] + SumOn(f, (s \ {y}) \ {p})
  BY <1>1, <1>3, <1>6, <1>a
<1>9. (s \ {y}) \ {p} = (s \ {p}) \ {y}
  OBVIOUS
<1>10. SumOn(f, (s \ {p}) \ {y}) \in Int /\ f[p] \in Int /\ f[y] \in Int
  BY <1>3, <1>4, SumType
<1>11. f[p] + (f[y] + SumOn(f, (s \ {p}) \ {y})) = f[y] + (f[p] + SumOn(f, (s \ {p}) \ {y}))
  BY <1>10
<1> QED
  BY <1>2, <1>5, <1>7, <1>8, <1>9, <1>11

LEMMA SumSame ==
    ASSUME NEW f, NEW g, NEW S, IsFiniteSet(S), \A x \in S : f[x] = g[x]
    PROVE  SumOn(f, S) = SumOn(g, S)
<1> DEFINE B == {s \in SUBSET S : SumOn(f, s) # SumOn(g, s)}
<1> SUFFICES ASSUME B # {} PROVE FALSE
  OBVIOUS
<1>1. PICK s \in B : \A x \in s : s \ {x} \notin B
  BY SmallestSubset
<1>2. IsFiniteSet(s) /\ s \in SUBSET S /\ SumOn(f, s) # SumOn(g, s)
  BY FS_Subset
<1>3. CASE s = {}
  BY <1>2, <1>3, SumEmpty
<1>4. CASE s # {}
  <2>1. Picked(s) \in s
    BY <1>4, PickedIn
  <2>2. SumOn(f, s \ {Picked(s)}) = SumOn(g, s \ {Picked(s)}) /\ f[Picked(s)] = g[Picked(s)]
    BY <1>1, <1>2, <2>1
  <2> QED
    BY <1>2, <1>4, <2>2, SumSteps
<1> QED
  BY <1>3, <1>4

LEMMA SumPlus ==
    ASSUME NEW f, NEW g, NEW h, NEW S, IsFiniteSet(S),
           \A x \in S : f[x] \in Int /\ g[x] \in Int /\ h[x] = f[x] + g[x]
    PROVE  SumOn(h, S) = SumOn(f, S) + SumOn(g, S)
<1> DEFINE B == {s \in SUBSET S : SumOn(h, s) # SumOn(f, s) + SumOn(g, s)}
<1> SUFFICES ASSUME B # {} PROVE FALSE
  OBVIOUS
<1>1. PICK s \in B : \A x \in s : s \ {x} \notin B
  BY SmallestSubset
<1>2. IsFiniteSet(s) /\ s \in SUBSET S /\ SumOn(h, s) # SumOn(f, s) + SumOn(g, s)
  BY FS_Subset
<1>3. CASE s = {}
  BY <1>2, <1>3, SumEmpty
<1>4. CASE s # {}
  <2> DEFINE p == Picked(s)
  <2>1. p \in s
    BY <1>4, PickedIn
  <2>2. SumOn(h, s \ {p}) = SumOn(f, s \ {p}) + SumOn(g, s \ {p})
    BY <1>1, <1>2, <2>1
  <2>3. f[p] \in Int /\ g[p] \in Int /\ h[p] = f[p] + g[p]
    BY <1>2, <2>1
  <2>4. IsFiniteSet(s \ {p})
    BY <1>2, FS_RemoveElement
  <2>5. SumOn(f, s \ {p}) \in Int /\ SumOn(g, s \ {p}) \in Int
    BY <1>2, <2>4, SumType
  <2>6. /\ SumOn(h, s) = h[p] + SumOn(h, s \ {p})
        /\ SumOn(f, s) = f[p] + SumOn(f, s \ {p})
        /\ SumOn(g, s) = g[p] + SumOn(g, s \ {p})
    BY <1>2, <1>4, SumSteps
  <2> HIDE DEF p
  <2> QED
    BY <1>2, <2>2, <2>3, <2>5, <2>6
<1> QED
  BY <1>3, <1>4

LEMMA SumZero ==
    ASSUME NEW f, NEW S, IsFiniteSet(S), \A x \in S : f[x] = 0
    PROVE  SumOn(f, S) = 0
<1>1. SumOn(f, S) = SumOn(f, S) + SumOn(f, S)
  BY SumPlus
<1>2. SumOn(f, S) \in Int
  BY SumType
<1> QED
  BY <1>1, <1>2, SMTT(30)

LEMMA SumNegated ==
    ASSUME NEW f, NEW g, NEW S, IsFiniteSet(S), \A x \in S : f[x] \in Int /\ g[x] = -f[x]
    PROVE  SumOn(g, S) = -SumOn(f, S)
<1> DEFINE z == [x \in S |-> 0]
<1>1. SumOn(z, S) = SumOn(f, S) + SumOn(g, S)
  BY SumPlus
<1>2. SumOn(z, S) = 0
  BY SumZero
<1>3. SumOn(f, S) \in Int /\ SumOn(g, S) \in Int
  BY SumType
<1> HIDE DEF z
<1> QED
  BY <1>1, <1>2, <1>3

LEMMA SumMinus ==
    ASSUME NEW f, NEW g, NEW h, NEW S, IsFiniteSet(S),
           \A x \in S : f[x] \in Int /\ g[x] \in Int /\ h[x] = f[x] - g[x]
    PROVE  SumOn(h, S) = SumOn(f, S) - SumOn(g, S)
<1>1. \A x \in S : h[x] \in Int /\ f[x] = h[x] + g[x]
  OBVIOUS
<1>2. SumOn(f, S) = SumOn(h, S) + SumOn(g, S)
  BY <1>1, SumPlus
<1>3. SumOn(f, S) \in Int /\ SumOn(g, S) \in Int /\ SumOn(h, S) \in Int
  BY <1>1, SumType
<1> QED
  BY <1>2, <1>3

LEMMA SumBelow ==
    ASSUME NEW f, NEW g, NEW S, IsFiniteSet(S),
           \A x \in S : f[x] \in Int /\ g[x] \in Int /\ f[x] <= g[x]
    PROVE  SumOn(f, S) <= SumOn(g, S)
<1> DEFINE B == {s \in SUBSET S : ~(SumOn(f, s) <= SumOn(g, s))}
<1> SUFFICES ASSUME B # {} PROVE FALSE
  OBVIOUS
<1>1. PICK s \in B : \A x \in s : s \ {x} \notin B
  BY SmallestSubset
<1>2. IsFiniteSet(s) /\ s \in SUBSET S /\ ~(SumOn(f, s) <= SumOn(g, s))
  BY FS_Subset
<1>3. CASE s = {}
  BY <1>2, <1>3, SumEmpty
<1>4. CASE s # {}
  <2> DEFINE p == Picked(s)
  <2>1. p \in s
    BY <1>4, PickedIn
  <2>2. SumOn(f, s \ {p}) <= SumOn(g, s \ {p})
    BY <1>1, <1>2, <2>1
  <2>3. f[p] \in Int /\ g[p] \in Int /\ f[p] <= g[p]
    BY <1>2, <2>1
  <2>4. IsFiniteSet(s \ {p})
    BY <1>2, FS_RemoveElement
  <2>5. SumOn(f, s \ {p}) \in Int /\ SumOn(g, s \ {p}) \in Int
    BY <1>2, <2>4, SumType
  <2>6. SumOn(f, s) = f[p] + SumOn(f, s \ {p}) /\ SumOn(g, s) = g[p] + SumOn(g, s \ {p})
    BY <1>2, <1>4, SumSteps
  <2> HIDE DEF p
  <2> QED
    BY <1>2, <2>2, <2>3, <2>5, <2>6
<1> QED
  BY <1>3, <1>4

(* Sums of figures that lie within a doubt of one another.                 *)
LEMMA SumWithin ==
    ASSUME NEW f, NEW g, NEW d, NEW S, IsFiniteSet(S),
           \A x \in S : f[x] \in Int /\ g[x] \in Int /\ d[x] \in Int /\ Within(f[x], g[x], d[x])
    PROVE  Within(SumOn(f, S), SumOn(g, S), SumOn(d, S))
<1> DEFINE u == [x \in S |-> f[x] - g[x]]
           v == [x \in S |-> g[x] - f[x]]
<1>1. \A x \in S : /\ f[x] \in Int /\ g[x] \in Int /\ d[x] \in Int
                   /\ u[x] = f[x] - g[x] /\ v[x] = g[x] - f[x]
                   /\ u[x] \in Int /\ v[x] \in Int /\ u[x] <= d[x] /\ v[x] <= d[x]
  BY DEF Within
<1> HIDE DEF u, v
<1>2. SumOn(u, S) = SumOn(f, S) - SumOn(g, S) /\ SumOn(v, S) = SumOn(g, S) - SumOn(f, S)
  BY <1>1, SumMinus
<1>3. SumOn(u, S) <= SumOn(d, S) /\ SumOn(v, S) <= SumOn(d, S)
  BY <1>1, SumBelow
<1> QED
  BY <1>2, <1>3 DEF Within

(* Two functions that differ at one point.                                 *)
LEMMA SumChanged ==
    ASSUME NEW f, NEW g, NEW S, IsFiniteSet(S), NEW x \in S,
           \A y \in S : f[y] \in Int, g[x] \in Int, \A y \in S \ {x} : g[y] = f[y]
    PROVE  SumOn(g, S) = SumOn(f, S) - f[x] + g[x]
<1>1. IsFiniteSet(S \ {x})
  BY FS_RemoveElement
<1>2. SumOn(g, S \ {x}) = SumOn(f, S \ {x})
  BY <1>1, SumSame
<1>3. \A y \in S : g[y] \in Int
  OBVIOUS
<1>4. SumOn(f, S \ {x}) \in Int
  BY <1>1, SumType
<1>5. SumOn(f, S) = f[x] + SumOn(f, S \ {x}) /\ SumOn(g, S) = g[x] + SumOn(g, S \ {x})
  BY <1>3, SumWithout
<1> QED
  BY <1>2, <1>4, <1>5

(* Points where the function is zero do not count.                         *)
LEMMA SumWhere ==
    ASSUME NEW f, NEW S, NEW T \in SUBSET S, IsFiniteSet(S),
           \A x \in S : f[x] \in Int, \A x \in S \ T : f[x] = 0
    PROVE  SumOn(f, S) = SumOn(f, T)
<1> DEFINE B == {s \in SUBSET S : SumOn(f, s) # SumOn(f, s \cap T)}
<1> SUFFICES B = {}
  <2>1. S \cap T = T
    OBVIOUS
  <2> QED
    BY <2>1
<1> SUFFICES ASSUME B # {} PROVE FALSE
  OBVIOUS
<1>1. PICK s \in B : \A x \in s : s \ {x} \notin B
  BY SmallestSubset
<1>2. IsFiniteSet(s) /\ s \in SUBSET S /\ SumOn(f, s) # SumOn(f, s \cap T)
  BY FS_Subset
<1>3. PICK x \in s : x \notin T
  <2>1. s \cap T # s
    BY <1>2
  <2> QED
    BY <2>1
<1>4. SumOn(f, s) = f[x] + SumOn(f, s \ {x})
  BY <1>2, SumWithout
<1>5. f[x] = 0 /\ (s \ {x}) \cap T = s \cap T
  BY <1>2, <1>3
<1>6. SumOn(f, s \ {x}) = SumOn(f, s \cap T)
  BY <1>1, <1>2, <1>5
<1>7. IsFiniteSet(s \ {x})
  BY <1>2, FS_RemoveElement
<1>8. SumOn(f, s \ {x}) \in Int
  BY <1>2, <1>7, SumType
<1> QED
  BY <1>2, <1>4, <1>5, <1>6, <1>8

(* A sum may be taken apart by the value of a key, class by class.         *)
LEMMA SumByKey ==
    ASSUME NEW f, NEW S, NEW K, NEW key \in [S -> K], IsFiniteSet(S), IsFiniteSet(K),
           \A x \in S : f[x] \in Int
    PROVE  SumOn(f, S)
             = SumOn([k \in K |-> SumOn([x \in S |-> IF key[x] = k THEN f[x] ELSE 0], S)], K)
<1> DEFINE part(k) == [x \in S |-> IF key[x] = k THEN f[x] ELSE 0]
           parts(s) == [k \in K |-> SumOn(part(k), s)]
           B == {s \in SUBSET S : SumOn(f, s) # SumOn(parts(s), K)}
<1> SUFFICES ASSUME B # {} PROVE FALSE
  OBVIOUS
<1>1. PICK s \in B : \A x \in s : s \ {x} \notin B
  BY SmallestSubset
<1>2. IsFiniteSet(s) /\ s \in SUBSET S /\ SumOn(f, s) # SumOn(parts(s), K)
  BY FS_Subset
<1>a. \A k \in K : \A x \in S : part(k)[x] = IF key[x] = k THEN f[x] ELSE 0
  OBVIOUS
<1>b. \A u \in SUBSET S : \A k \in K : parts(u)[k] = SumOn(part(k), u)
  OBVIOUS
<1> HIDE DEF B, part, parts
<1>3. CASE s = {}
  <2>1. \A k \in K : parts(s)[k] = 0
    BY <1>2, <1>3, <1>b, SumEmpty
  <2>2. SumOn(parts(s), K) = 0
    BY <2>1, SumZero
  <2>3. SumOn(f, {}) = 0
    BY SumEmpty
  <2> QED
    BY <1>2, <1>3, <2>2, <2>3
<1>4. ASSUME NEW x \in s
      PROVE  FALSE
  <2> DEFINE r == s \ {x}
  <2>1. IsFiniteSet(r) /\ r \in SUBSET S /\ x \in S /\ key[x] \in K /\ f[x] \in Int
    BY <1>2, FS_RemoveElement
  <2>2. SumOn(f, r) = SumOn(parts(r), K)
    BY <1>1, <2>1 DEF B
  <2>3. ASSUME NEW k \in K
        PROVE  /\ parts(s)[k] = (IF key[x] = k THEN f[x] ELSE 0) + parts(r)[k]
               /\ parts(r)[k] \in Int
    <3>1. \A y \in S : part(k)[y] \in Int
      BY <1>a
    <3>2. SumOn(part(k), s) = part(k)[x] + SumOn(part(k), r)
      BY <1>2, <3>1, SumWithout
    <3>3. SumOn(part(k), r) \in Int
      BY <2>1, <3>1, SumType
    <3> QED
      BY <1>2, <1>a, <1>b, <2>1, <3>2, <3>3
  <2> HIDE DEF r
  <2>4. SumOn(parts(s), K) = SumOn(parts(r), K) - parts(r)[key[x]] + parts(s)[key[x]]
    BY <2>1, <2>3, SumChanged
  <2>5. SumOn(parts(r), K) \in Int
    BY <2>3, SumType
  <2>6. SumOn(f, s) = f[x] + SumOn(f, r)
    BY <1>2, SumWithout DEF r
  <2> QED
    BY <1>2, <2>1, <2>2, <2>3, <2>4, <2>5, <2>6
<1> QED
  BY <1>3, <1>4

LEMMA SumOfOnes ==
    ASSUME NEW f, NEW S, IsFiniteSet(S), \A x \in S : f[x] = 1
    PROVE  SumOn(f, S) = Cardinality(S)
<1> DEFINE B == {s \in SUBSET S : SumOn(f, s) # Cardinality(s)}
<1> SUFFICES ASSUME B # {} PROVE FALSE
  OBVIOUS
<1>1. PICK s \in B : \A x \in s : s \ {x} \notin B
  BY SmallestSubset
<1>2. IsFiniteSet(s) /\ s \in SUBSET S /\ SumOn(f, s) # Cardinality(s)
  BY FS_Subset
<1>3. CASE s = {}
  BY <1>2, <1>3, SumEmpty, FS_EmptySet
<1>4. ASSUME NEW x \in s
      PROVE  FALSE
  <2>1. SumOn(f, s \ {x}) = Cardinality(s \ {x}) /\ f[x] = 1
    BY <1>1, <1>2
  <2>2. Cardinality(s \ {x}) = Cardinality(s) - 1 /\ Cardinality(s) \in Nat
    BY <1>2, FS_RemoveElement, FS_CardinalityType
  <2>3. SumOn(f, s) = f[x] + SumOn(f, s \ {x})
    BY <1>2, SumWithout
  <2> QED
    BY <1>2, <2>1, <2>2, <2>3
<1> QED
  BY <1>3, <1>4

(***************************************************************************)
(* What a column keeps of a figure.                                        *)
(***************************************************************************)
LEMMA Division ==
    ASSUME NEW n \in Int, NEW d \in Nat \ {0}
    PROVE  \E q, r \in Int : /\ n \div d = q /\ n % d = r
                            /\ n = d * q + r /\ 0 <= r /\ r < d
<1> DEFINE q == n \div d
           r == n % d
<1>1. q \in Int /\ r \in Int /\ 0 <= r /\ r < d
  OBVIOUS
<1>2. r = n - d * q
  OBVIOUS
<1>3. n \div d = q /\ n % d = r
  OBVIOUS
<1> HIDE DEF q, r
<1>4. d * q \in Int
  BY <1>1
<1>5. n = d * q + r
  BY <1>1, <1>2, <1>4
<1> QED
  BY <1>1, <1>3, <1>5

LEMMA Quotient ==
    ASSUME NEW d \in Nat \ {0}, NEW p \in Int, NEW q \in Int,
           NEW r \in Int, NEW s \in Int, 0 <= r, r < d, 0 <= s, s < d, d * p + r = d * q + s
    PROVE  p = q /\ r = s
<1>1. CASE p >= q + 1
  <2>1. d * p >= d * q + d
    BY <1>1
  <2> QED
    BY <2>1
<1>2. CASE q >= p + 1
  <2>1. d * q >= d * p + d
    BY <1>2
  <2> QED
    BY <2>1
<1> QED
  BY <1>1, <1>2

LEMMA Multiple ==
    ASSUME NEW x \in Int
    PROVE  IsAmount(x) <=> \E k \in Int : x = Unit * k
<1>1. PICK q, r \in Int : x % Unit = r /\ x = Unit * q + r /\ 0 <= r /\ r < Unit
  BY UnitAssumption, Division
<1>2. ASSUME NEW k \in Int, x = Unit * k PROVE r = 0
  <2>1. Unit * q + r = Unit * k + 0 /\ 0 < Unit
    BY <1>1, <1>2, UnitAssumption
  <2> QED
    BY <1>1, <2>1, UnitAssumption, Quotient
<1>3. r = 0 => x = Unit * q
  BY <1>1, UnitAssumption
<1> QED
  BY <1>1, <1>2, <1>3 DEF IsAmount

LEMMA NearestRounds ==
    ASSUME NEW x \in Int
    PROVE  /\ Nearest(x) \in Int /\ IsAmount(Nearest(x))
           /\ 2 * Nearest(x) <= 2 * x + Unit /\ 2 * x - Unit <= 2 * Nearest(x)
           /\ IsAmount(x) => Nearest(x) = x
<1>1. 2 * x + Unit \in Int /\ 2 * Unit \in Nat \ {0} /\ Unit \in Nat \ {0}
  BY UnitAssumption
<1>2. PICK q, r \in Int : /\ (2 * x + Unit) \div (2 * Unit) = q
                         /\ 2 * x + Unit = (2 * Unit) * q + r /\ 0 <= r /\ r < 2 * Unit
  BY <1>1, Division
<1>3. Nearest(x) = Unit * q
  BY <1>2 DEF Nearest
<1>4. Unit * q \in Int /\ (2 * Unit) * q = 2 * (Unit * q)
  BY <1>1, <1>2
<1>5. ASSUME NEW k \in Int, x = Unit * k
      PROVE  Unit * q = x
  <2>1. (2 * Unit) * k + Unit = (2 * Unit) * q + r
    BY <1>1, <1>2, <1>5
  <2>2. k = q
    BY <1>1, <1>2, <2>1, Quotient
  <2> QED
    BY <1>5, <2>2
<1>6. IsAmount(Unit * q)
  BY <1>2, <1>4, Multiple
<1>7. IsAmount(x) => Unit * q = x
  BY <1>5, Multiple
<1> DEFINE n == Unit * q
<1>8. /\ n \in Int /\ IsAmount(n) /\ 2 * x + Unit = 2 * n + r /\ Nearest(x) = n
      /\ IsAmount(x) => n = x
  BY <1>1, <1>2, <1>3, <1>4, <1>6, <1>7
<1> HIDE DEF n
<1> QED
  BY <1>1, <1>2, <1>8

LEMMA AmountsAdd ==
    ASSUME NEW x \in Int, NEW y \in Int, IsAmount(x), IsAmount(y)
    PROVE  IsAmount(x + y) /\ IsAmount(x - y) /\ IsAmount(-x)
<1>1. PICK i \in Int : x = Unit * i
  BY Multiple
<1>2. PICK j \in Int : y = Unit * j
  BY Multiple
<1>3. x + y = Unit * (i + j) /\ x - y = Unit * (i - j) /\ -x = Unit * (-i)
  BY <1>1, <1>2, UnitAssumption
<1>4. i + j \in Int /\ i - j \in Int /\ -i \in Int
  BY <1>1, <1>2
<1> QED
  BY <1>3, <1>4, Multiple

LEMMA AmountsApart ==
    ASSUME NEW x \in Int, NEW y \in Int, IsAmount(x), IsAmount(y), x < y
    PROVE  x + Unit <= y
<1>1. PICK i \in Int : x = Unit * i
  BY Multiple
<1>2. PICK j \in Int : y = Unit * j
  BY Multiple
<1>3. i < j
  <2>1. CASE i >= j
    <3>1. Unit * i >= Unit * j
      BY <1>1, <1>2, <2>1, UnitAssumption
    <3> QED
      BY <1>1, <1>2, <3>1
  <2> QED
    BY <1>1, <1>2, <2>1
<1>4. Unit * j >= Unit * i + Unit
  BY <1>1, <1>2, <1>3, UnitAssumption
<1> QED
  BY <1>1, <1>2, <1>4

LEMMA StoredRounds ==
    ASSUME NEW x \in Int
    PROVE  /\ Stored(x) \in Int /\ IsAmount(Stored(x))
           /\ 2 * Stored(x) <= 2 * x + Unit /\ 2 * x - Unit <= 2 * Stored(x)
           /\ IsAmount(x) => Stored(x) = x
<1>1. CASE x >= 0
  BY <1>1, NearestRounds DEF Stored
<1>2. CASE ~(x >= 0)
  <2> DEFINE n == Nearest(-x)
  <2>1. -x \in Int /\ Stored(x) = -n /\ Unit \in Int
    BY <1>2, UnitAssumption DEF Stored
  <2>2. /\ n \in Int /\ IsAmount(n)
        /\ 2 * n <= 2 * (-x) + Unit /\ 2 * (-x) - Unit <= 2 * n
        /\ IsAmount(-x) => n = -x
    BY <2>1, NearestRounds
  <2> HIDE DEF n
  <2>3. IsAmount(-n) /\ (IsAmount(x) => IsAmount(-x))
    BY <2>2, AmountsAdd
  <2> QED
    BY <2>1, <2>2, <2>3
<1> QED
  BY <1>1, <1>2

(* A limit that holds of a figure holds of what the column keeps of it.    *)
LEMMA StoredBelow ==
    ASSUME NEW x \in Int, NEW y \in Int, IsAmount(y), x <= y
    PROVE  Stored(x) <= y
<1>1. /\ Stored(x) \in Int /\ IsAmount(Stored(x)) /\ 2 * Stored(x) <= 2 * x + Unit
      /\ Unit \in Nat \ {0}
  BY StoredRounds, UnitAssumption
<1>2. CASE y < Stored(x)
  <2>1. y + Unit <= Stored(x)
    BY <1>1, <1>2, AmountsApart
  <2> QED
    BY <1>1, <2>1
<1> QED
  BY <1>1, <1>2

(* A figure that lies less than two Units from another of the columns is   *)
(* at most one away from it; with whole figures they are the same.         *)
LEMMA NearAmounts ==
    ASSUME NEW x \in Int, NEW y \in Int, IsAmount(x), IsAmount(y),
           2 * x - 2 * y <= 3 * Unit, 2 * y - 2 * x <= 3 * Unit
    PROVE  Within(x, y, Unit)
<1>1. Unit \in Nat \ {0}
  BY UnitAssumption
<1>2. x + Unit \in Int /\ y + Unit \in Int /\ IsAmount(x + Unit) /\ IsAmount(y + Unit)
  <2>1. IsAmount(Unit)
    <3>1. Unit = Unit * 1
      BY <1>1
    <3> QED
      BY <1>1, <3>1, Multiple
  <2> QED
    BY <1>1, <2>1, AmountsAdd
<1>3. CASE y + Unit < x
  <2>1. (y + Unit) + Unit <= x
    BY <1>2, <1>3, AmountsApart
  <2> QED
    BY <1>1, <2>1
<1>4. CASE x + Unit < y
  <2>1. (x + Unit) + Unit <= y
    BY <1>2, <1>4, AmountsApart
  <2> QED
    BY <1>1, <2>1
<1>5. CASE ~(y + Unit < x) /\ ~(x + Unit < y)
  BY <1>1, <1>5 DEF Within
<1> QED
  BY <1>3, <1>4, <1>5

LEMMA SlackType == Slack \in Nat
  BY UnitAssumption DEF Slack

(* A sum that is rounded, and the sum of what was rounded.                 *)
LEMMA SumsRound ==
    ASSUME NEW x \in Int, NEW y \in Int
    PROVE  /\ Within(Stored(x + y), Stored(x) + Stored(y), Slack)
           /\ Within(Stored(x - y), Stored(x) - Stored(y), Slack)
<1> DEFINE sx == Stored(x)
           sy == Stored(y)
           sp == Stored(x + y)
           sm == Stored(x - y)
<1>1. /\ x + y \in Int /\ x - y \in Int /\ Unit \in Nat \ {0}
  BY UnitAssumption
<1>2. /\ sx \in Int /\ IsAmount(sx) /\ 2 * sx <= 2 * x + Unit /\ 2 * x - Unit <= 2 * sx
      /\ sy \in Int /\ IsAmount(sy) /\ 2 * sy <= 2 * y + Unit /\ 2 * y - Unit <= 2 * sy
      /\ IsAmount(x) => sx = x
      /\ IsAmount(y) => sy = y
  BY StoredRounds
<1>3. /\ sp \in Int /\ IsAmount(sp)
      /\ 2 * sp <= 2 * (x + y) + Unit /\ 2 * (x + y) - Unit <= 2 * sp
      /\ sm \in Int /\ IsAmount(sm)
      /\ 2 * sm <= 2 * (x - y) + Unit /\ 2 * (x - y) - Unit <= 2 * sm
      /\ IsAmount(x + y) => sp = x + y
      /\ IsAmount(x - y) => sm = x - y
  BY <1>1, StoredRounds
<1> HIDE DEF sx, sy, sp, sm
<1>4. sx + sy \in Int /\ IsAmount(sx + sy) /\ sx - sy \in Int /\ IsAmount(sx - sy)
  BY <1>2, AmountsAdd
<1>5. /\ 2 * sp - 2 * (sx + sy) <= 3 * Unit /\ 2 * (sx + sy) - 2 * sp <= 3 * Unit
      /\ 2 * sm - 2 * (sx - sy) <= 3 * Unit /\ 2 * (sx - sy) - 2 * sm <= 3 * Unit
  BY <1>1, <1>2, <1>3
<1>6. Within(sp, sx + sy, Unit) /\ Within(sm, sx - sy, Unit)
  BY <1>3, <1>4, <1>5, NearAmounts
<1>7. CASE Unit = 1
  <2>1. \A z \in Int : IsAmount(z)
    BY <1>7 DEF IsAmount
  <2>2. sx = x /\ sy = y /\ sp = x + y /\ sm = x - y
    BY <1>1, <1>2, <1>3, <2>1
  <2> QED
    BY <1>7, <2>2 DEF Within, Slack, sx, sy, sp, sm
<1>8. CASE Unit # 1
  BY <1>6, <1>8 DEF Slack, sx, sy, sp, sm
<1> QED
  BY <1>7, <1>8

(***************************************************************************)
(* What a line, a list of lines and a posting do to a balance.             *)
(***************************************************************************)
Part(line, a) == IF line.account = a THEN line.debit - line.credit ELSE 0

LEMMA PartType ==
    ASSUME NEW line \in Line, NEW a
    PROVE  Part(line, a) \in Int
  BY DEF Part, Line

LEMMA SumExtended ==
    ASSUME NEW n \in Nat, NEW f, NEW g, DOMAIN f = 1 .. n, DOMAIN g = 1 .. n + 1,
           \A i \in 1 .. n : g[i] = f[i], \A i \in 1 .. n + 1 : g[i] \in Int
    PROVE  SumFunction(g) = SumFunction(f) + g[n + 1]
<1>1. IsFiniteSet(1 .. n) /\ IsFiniteSet(1 .. n + 1)
  BY FS_Interval
<1>2. n + 1 \in 1 .. n + 1 /\ (1 .. n + 1) \ {n + 1} = 1 .. n
  OBVIOUS
<1>3. SumOn(g, 1 .. n + 1) = g[n + 1] + SumOn(g, 1 .. n)
  BY <1>1, <1>2, SumWithout
<1>4. SumOn(g, 1 .. n) = SumOn(f, 1 .. n)
  BY <1>1, SumSame
<1>5. \A i \in 1 .. n : g[i] \in Int
  OBVIOUS
<1>6. SumOn(g, 1 .. n) \in Int /\ g[n + 1] \in Int
  BY <1>1, <1>2, <1>5, SumType
<1>7. SumFunction(g) = SumOn(g, 1 .. n + 1) /\ SumFunction(f) = SumOn(f, 1 .. n)
  BY DEF SumFunction, SumOn
<1> QED
  BY <1>3, <1>4, <1>6, <1>7

LEMMA SumFunctionType ==
    ASSUME NEW n \in Nat, NEW f, DOMAIN f = 1 .. n, \A i \in 1 .. n : f[i] \in Int
    PROVE  SumFunction(f) \in Int
<1>1. IsFiniteSet(1 .. n)
  BY FS_Interval
<1> QED
  BY <1>1, SumType DEF SumFunction, SumOn

Parts(lines, a) == [i \in DOMAIN lines |-> Part(lines[i], a)]

LEMMA NetIsSum == ASSUME NEW lines, NEW a PROVE Net(lines, a) = SumFunction(Parts(lines, a))
  BY DEF Net, Parts, Part

LEMMA PartsType ==
    ASSUME NEW lines \in Seq(Line), NEW a
    PROVE  /\ DOMAIN Parts(lines, a) = 1 .. Len(lines)
           /\ \A i \in 1 .. Len(lines) :
                 Parts(lines, a)[i] = Part(lines[i], a) /\ Parts(lines, a)[i] \in Int
<1>1. \A i \in 1 .. Len(lines) : lines[i] \in Line
  OBVIOUS
<1> QED
  BY <1>1, PartType DEF Parts

LEMMA NetType == ASSUME NEW lines \in Seq(Line), NEW a PROVE Net(lines, a) \in Int
  BY NetIsSum, PartsType, SumFunctionType

LEMMA NetEmpty == ASSUME NEW a PROVE Net(<< >>, a) = 0
<1>1. DOMAIN Parts(<< >>, a) = {}
  BY DEF Parts
<1> QED
  BY <1>1, NetIsSum, SumEmpty DEF SumFunction, SumOn

LEMMA NetAppend ==
    ASSUME NEW lines \in Seq(Line), NEW line \in Line, NEW a
    PROVE  Net(Append(lines, line), a) = Net(lines, a) + Part(line, a)
<1> DEFINE more == Append(lines, line)
           n    == Len(lines)
<1>1. /\ more \in Seq(Line) /\ Len(more) = n + 1 /\ n \in Nat /\ more[n + 1] = line
      /\ \A i \in 1 .. n : more[i] = lines[i]
  OBVIOUS
<1> HIDE DEF more, n
<1>2. /\ DOMAIN Parts(more, a) = 1 .. n + 1 /\ DOMAIN Parts(lines, a) = 1 .. n
      /\ \A i \in 1 .. n : Parts(more, a)[i] = Parts(lines, a)[i]
      /\ \A i \in 1 .. n + 1 : Parts(more, a)[i] \in Int
      /\ Parts(more, a)[n + 1] = Part(line, a)
  BY <1>1, PartsType DEF n
<1>3. SumFunction(Parts(more, a)) = SumFunction(Parts(lines, a)) + Part(line, a)
  BY <1>1, <1>2, SumExtended
<1> QED
  BY <1>3, NetIsSum DEF more

LEMMA NetOfTwo ==
    ASSUME NEW x \in Line, NEW y \in Line, NEW a
    PROVE  Net(<<x, y>>, a) = Part(x, a) + Part(y, a)
<1> DEFINE none == << >>
           one  == <<x>>
           two  == <<x, y>>
<1>1. /\ one = Append(none, x) /\ two = Append(one, y)
      /\ none \in Seq(Line) /\ one \in Seq(Line)
  OBVIOUS
<1>2. Net(none, a) = 0
  BY NetEmpty
<1> HIDE DEF none, one, two
<1>3. Net(one, a) = 0 + Part(x, a) /\ Net(two, a) = Net(one, a) + Part(y, a)
  BY <1>1, <1>2, NetAppend
<1>4. Net(two, a) = Part(x, a) + Part(y, a)
  BY <1>3, PartType
<1> QED
  BY <1>4 DEF two

LEMMA NetOfThree ==
    ASSUME NEW x \in Line, NEW y \in Line, NEW z \in Line, NEW a
    PROVE  Net(<<x, y, z>>, a) = Part(x, a) + Part(y, a) + Part(z, a)
<1> DEFINE two   == <<x, y>>
           three == <<x, y, z>>
<1>1. three = Append(two, z) /\ two \in Seq(Line)
  OBVIOUS
<1>2. Net(two, a) = Part(x, a) + Part(y, a)
  BY NetOfTwo
<1> HIDE DEF two, three
<1>3. Net(three, a) = Net(two, a) + Part(z, a)
  BY <1>1, NetAppend
<1>4. Net(three, a) = Part(x, a) + Part(y, a) + Part(z, a)
  BY <1>2, <1>3
<1> QED
  BY <1>4 DEF three

LEMMA NetOfFive ==
    ASSUME NEW x \in Line, NEW y \in Line, NEW z \in Line, NEW u \in Line, NEW v \in Line, NEW a
    PROVE  Net(<<x, y, z, u, v>>, a)
              = Part(x, a) + Part(y, a) + Part(z, a) + Part(u, a) + Part(v, a)
<1> DEFINE three == <<x, y, z>>
           four  == <<x, y, z, u>>
           five  == <<x, y, z, u, v>>
<1>1. /\ four = Append(three, u) /\ three \in Seq(Line)
      /\ five = Append(four, v) /\ four \in Seq(Line)
  OBVIOUS
<1>2. Net(three, a) = Part(x, a) + Part(y, a) + Part(z, a)
  BY NetOfThree
<1> HIDE DEF three, four, five
<1>3. Net(four, a) = Net(three, a) + Part(u, a) /\ Net(five, a) = Net(four, a) + Part(v, a)
  BY <1>1, NetAppend
<1>4. Net(five, a) = Part(x, a) + Part(y, a) + Part(z, a) + Part(u, a) + Part(v, a)
  BY <1>2, <1>3
<1> QED
  BY <1>4 DEF five

(* reverse_entry takes back on every account exactly what the entry did.   *)
LEMMA NetMirror ==
    ASSUME NEW lines \in Seq(Line), NEW a
    PROVE  Net(MirrorLines(lines), a) = -Net(lines, a)
<1> DEFINE f == Parts(lines, a)
           g == Parts(MirrorLines(lines), a)
           S == 1 .. Len(lines)
<1>1. DOMAIN f = S /\ DOMAIN g = S /\ IsFiniteSet(S)
  BY FS_Interval DEF Parts, MirrorLines
<1>2. ASSUME NEW i \in S
      PROVE  f[i] \in Int /\ g[i] = -f[i]
  <2>1. lines[i] \in Line
    OBVIOUS
  <2>2. f[i] = Part(lines[i], a) /\ g[i] = Part(MirrorLines(lines)[i], a)
    BY <1>1 DEF Parts
  <2>3. MirrorLines(lines)[i]
          = [account |-> lines[i].account, debit |-> lines[i].credit, credit |-> lines[i].debit]
    BY DEF MirrorLines
  <2> QED
    BY <2>1, <2>2, <2>3 DEF Part, Line
<1> HIDE DEF f, g, S
<1>3. SumOn(g, S) = -SumOn(f, S)
  BY <1>1, <1>2, SumNegated
<1> QED
  BY <1>1, <1>3, NetIsSum DEF SumFunction, SumOn, f, g

(***************************************************************************)
(* The balance after a posting, and the part of it that direct settlements *)
(* explain.                                                                *)
(***************************************************************************)
DirectPart(entry, a) ==
    IF entry.type = "settlement" /\ entry.ref = NoRef THEN Net(entry.lines, a) ELSE 0

DirectIn(history, a) == SumFunction([e \in DOMAIN history |-> DirectPart(history[e], a)])

LEMMA EntryLines ==
    ASSUME NEW history \in Seq(Entry), NEW e \in 1 .. Len(history)
    PROVE  history[e] \in Entry /\ history[e].lines \in Seq(Line)
<1>1. history[e] \in Entry
  OBVIOUS
<1> QED
  BY <1>1 DEF Entry

LEMMA BalanceType ==
    ASSUME NEW history \in Seq(Entry), NEW a
    PROVE  Balance(history, a) \in Int /\ DirectIn(history, a) \in Int
<1> DEFINE f == [e \in DOMAIN history |-> Net(history[e].lines, a)]
           g == [e \in DOMAIN history |-> DirectPart(history[e], a)]
<1>1. \A e \in 1 .. Len(history) : f[e] \in Int /\ g[e] \in Int
  BY EntryLines, NetType DEF DirectPart
<1>2. DOMAIN f = 1 .. Len(history) /\ DOMAIN g = 1 .. Len(history) /\ Len(history) \in Nat
  OBVIOUS
<1> HIDE DEF f, g
<1>3. SumFunction(f) \in Int /\ SumFunction(g) \in Int
  BY <1>1, <1>2, SumFunctionType
<1> QED
  BY <1>3 DEF Balance, DirectIn, f, g

LEMMA BalanceAppend ==
    ASSUME NEW history \in Seq(Entry), NEW entry \in Entry, NEW a
    PROVE  /\ Balance(Append(history, entry), a) = Balance(history, a) + Net(entry.lines, a)
           /\ DirectIn(Append(history, entry), a) = DirectIn(history, a) + DirectPart(entry, a)
<1> DEFINE more == Append(history, entry)
           n    == Len(history)
           f(h) == [e \in DOMAIN h |-> Net(h[e].lines, a)]
           g(h) == [e \in DOMAIN h |-> DirectPart(h[e], a)]
<1>1. /\ more \in Seq(Entry) /\ Len(more) = n + 1 /\ n \in Nat /\ more[n + 1] = entry
      /\ \A i \in 1 .. n : more[i] = history[i]
      /\ DOMAIN more = 1 .. n + 1 /\ DOMAIN history = 1 .. n
  OBVIOUS
<1> HIDE DEF more, n
<1>2. ASSUME NEW e \in 1 .. n + 1
      PROVE  Net(more[e].lines, a) \in Int /\ DirectPart(more[e], a) \in Int
  BY <1>1, EntryLines, NetType DEF DirectPart
<1>3. /\ DOMAIN f(more) = 1 .. n + 1 /\ DOMAIN f(history) = 1 .. n
      /\ \A e \in 1 .. n : f(more)[e] = f(history)[e]
      /\ \A e \in 1 .. n + 1 : f(more)[e] \in Int
      /\ f(more)[n + 1] = Net(entry.lines, a)
  BY <1>1, <1>2
<1>4. /\ DOMAIN g(more) = 1 .. n + 1 /\ DOMAIN g(history) = 1 .. n
      /\ \A e \in 1 .. n : g(more)[e] = g(history)[e]
      /\ \A e \in 1 .. n + 1 : g(more)[e] \in Int
      /\ g(more)[n + 1] = DirectPart(entry, a)
  BY <1>1, <1>2
<1> HIDE DEF f, g
<1>5. /\ SumFunction(f(more)) = SumFunction(f(history)) + Net(entry.lines, a)
      /\ SumFunction(g(more)) = SumFunction(g(history)) + DirectPart(entry, a)
  BY <1>1, <1>3, <1>4, SumExtended, SMTT(30)
<1> QED
  BY <1>5 DEF Balance, DirectIn, f, g, more

LEMMA PostOne ==
    ASSUME TypeOK, NEW entry \in Entry, Post(<<entry>>)
    PROVE  /\ journal' = Append(journal, entry) /\ journal \in Seq(Entry)
           /\ \A a : /\ Balance(journal', a) = Balance(journal, a) + Net(entry.lines, a)
                     /\ DirectIn(journal', a) = DirectIn(journal, a) + DirectPart(entry, a)
<1>1. journal' = Append(journal, entry) /\ journal \in Seq(Entry)
  BY DEF Post, TypeOK
<1> QED
  BY <1>1, BalanceAppend

LEMMA PostTwo ==
    ASSUME TypeOK, NEW entries \in Seq(Entry), Len(entries) = 2, Post(entries)
    PROVE  \A a : /\ Balance(journal', a)
                       = Balance(journal, a) + Net(entries[1].lines, a) + Net(entries[2].lines, a)
                  /\ DirectIn(journal', a)
                       = DirectIn(journal, a) + DirectPart(entries[1], a) + DirectPart(entries[2], a)
<1> DEFINE x == entries[1]
           y == entries[2]
<1>1. journal \in Seq(Entry) /\ x \in Entry /\ y \in Entry
  <2>1. \A i \in 1 .. Len(entries) : entries[i] \in Entry
    OBVIOUS
  <2>2. 1 \in 1 .. Len(entries) /\ 2 \in 1 .. Len(entries)
    OBVIOUS
  <2>3. journal \in Seq(Entry)
    BY DEF TypeOK
  <2> QED
    BY <2>1, <2>2, <2>3
<1>2. entries = <<x, y>> /\ journal' = journal \o entries
  BY DEF Post
<1> HIDE DEF x, y
<1>3. journal' = Append(Append(journal, x), y) /\ Append(journal, x) \in Seq(Entry)
  BY <1>1, <1>2
<1> DEFINE mid == Append(journal, x)
<1>4. \A a : /\ Balance(mid, a) = Balance(journal, a) + Net(x.lines, a)
             /\ DirectIn(mid, a) = DirectIn(journal, a) + DirectPart(x, a)
  BY <1>1, BalanceAppend
<1>5. mid \in Seq(Entry) /\ journal' = Append(mid, y)
  BY <1>3
<1> HIDE DEF mid
<1>6. \A a : /\ Balance(journal', a) = Balance(mid, a) + Net(y.lines, a)
             /\ DirectIn(journal', a) = DirectIn(mid, a) + DirectPart(y, a)
  BY <1>1, <1>5, BalanceAppend
<1> QED
  BY <1>4, <1>6 DEF x, y

(***************************************************************************)
(* The invariant that ties the journal to the rows.  What a row has on an  *)
(* account is what the entries it names put there.  The approval entry was *)
(* written from figures whose roundings are the columns of the row; when   *)
(* no edit wrote it, these figures are the columns themselves.             *)
(***************************************************************************)
EffectOn(history, row, a) ==
    IF row = NoRow THEN 0
    ELSE (IF row.approval = "accepted" THEN Net(history[row.approval_entry].lines, a) ELSE 0)
         + (IF row.payment = "paid" THEN Net(history[row.payment_entry].lines, a) ELSE 0)

Exact(row) ==
    /\ IsAmount(row.amount) /\ IsAmount(row.amount_delivered)
    /\ IsAmount(row.fee_cost) /\ IsAmount(row.fee_charged)

(* A rate only between two currencies; in one the amount is passed on.     *)
Figures(row) ==
    /\ IsDual(row) => row.exchange_rate >= 0 /\ IsAmount(row.amount_delivered)
    /\ ~IsDual(row) => row.exchange_rate = NoRate /\ row.amount_delivered = row.amount

(* The columns that decide what a row puts on the accounts.                *)
SameTerms(row, next) ==
    /\ next.by = row.by /\ next.box = row.box
    /\ next.currency_received = row.currency_received
    /\ next.currency_delivered = row.currency_delivered
    /\ next.amount = row.amount /\ next.amount_delivered = row.amount_delivered
    /\ next.exchange_rate = row.exchange_rate
    /\ next.fee_cost = row.fee_cost /\ next.fee_charged = row.fee_charged

EditedIn(history, t, row) ==
    \E e \in DOMAIN history :
       history[e].type = "transaction" /\ history[e].ref = t /\ e # row.approval_entry

PostedAs(history, t, row, was) ==
    /\ was \in Row /\ was.box \in Boxes /\ Figures(was)
    /\ SameTerms(Columns(was), row)
    /\ Exact(was) \/ EditedIn(history, t, row)
    /\ history[row.approval_entry].lines = Saved(ApprovalLines(was))

Booked(history, t, row) ==
    /\ Exact(row)
    /\ row.payment = "paid" => row.approval = "accepted"
    /\ row.payment_entry # NoEntry => row.approval \in {"accepted", "reversed"}
    /\ row.approval = "accepted" =>
          /\ \E was : PostedAs(history, t, row, was)
          /\ row.payment_entry # NoEntry => row.payment = "paid"
          /\ Figures(row)
    /\ row.payment = "paid" => history[row.payment_entry].lines = PaymentLines(row)

(* Between the credit check and the commit: the copy has no payment, and   *)
(* for a single worker the check still holds of the journal, with the      *)
(* reversal an edit adds (for several it may not: the run credit_race).    *)
Alone == \A v, w \in Workers : v = w

Seen(history, x) ==
    IF x.op = "edit" THEN Append(history, Mirror(history, x.undo)) ELSE history

Priced(history, lim, x) ==
    x # Idle /\ x.pc = "checked" =>
       /\ x.copy.payment_entry = NoEntry
       /\ Figures(x.copy)
       /\ x.op = "approve" => Exact(x.copy)
       /\ Alone => Balance(Seen(history, x), MemberAccount(x.copy)) + Owed(x.copy)
                      <= lim[x.copy.by, x.copy.currency_received]

BInv ==
    /\ SInv
    /\ \A t \in Txns : Created(t) => Booked(journal, t, txns[t])
    /\ \A w \in Workers : Priced(journal, limits, workers[w])

(* A step that writes the row of t, and may post for it: every balance     *)
(* moves by what the row gains, and direct settlements stay as they are.   *)
Rebooked(t) ==
    /\ \A u \in Txns \ {t} : txns'[u] = txns[u]
    /\ txns'[t] # NoRow /\ Booked(journal', t, txns'[t])
    /\ \A a : /\ Balance(journal', a)
                   = Balance(journal, a) - EffectOn(journal, txns[t], a)
                        + EffectOn(journal', txns'[t], a)
              /\ DirectIn(journal', a) = DirectIn(journal, a)

(* A step that writes no row: only direct settlements move balances.       *)
Settles ==
    /\ UNCHANGED txns
    /\ \A a : Balance(journal', a) - DirectIn(journal', a) = Balance(journal, a) - DirectIn(journal, a)

BookStep(w) ==
    /\ Settles \/ \E t \in Txns : Rebooked(t)
    /\ \E x : Priced(journal', limits', x) /\ workers' = [workers EXCEPT ![w] = x]

(* A row whose columns stay as they are keeps its entries and their effect.*)
LEMMA BookedGrows ==
    ASSUME NEW t, NEW row, NamesPosted(journal, t, row), Booked(journal, t, row),
           Grows(journal, journal')
    PROVE  /\ Booked(journal', t, row)
           /\ \A a : EffectOn(journal', row, a) = EffectOn(journal, row, a)
<1>1. /\ row.approval = "accepted" =>
            journal'[row.approval_entry] = journal[row.approval_entry]
      /\ row.payment = "paid" =>
            journal'[row.payment_entry] = journal[row.payment_entry]
  BY DEF NamesPosted, Grows
<1>2. EditedIn(journal, t, row) => EditedIn(journal', t, row)
  BY DEF EditedIn, Grows
<1>3. ASSUME row.approval = "accepted"
      PROVE  \E was : PostedAs(journal', t, row, was)
  <2>1. PICK was : PostedAs(journal, t, row, was)
    BY <1>3 DEF Booked
  <2>2. PostedAs(journal', t, row, was)
    BY <1>1, <1>2, <1>3, <2>1 DEF PostedAs
  <2> QED
    BY <2>2
<1>4. Booked(journal', t, row)
  BY <1>1, <1>3 DEF Booked
<1> QED
  BY <1>1, <1>4 DEF EffectOn

LEMMA KeptTerms ==
    ASSUME NEW history, NEW t, NEW row, NEW next, SameTerms(row, next),
           next.approval_entry = row.approval_entry, NEW was, PostedAs(history, t, row, was)
    PROVE  PostedAs(history, t, next, was)
<1>1. SameTerms(Columns(was), next)
  BY DEF PostedAs, SameTerms
<1> QED
  BY <1>1 DEF PostedAs, EditedIn

LEMMA BookStepKeeps ==
    ASSUME BInv, SInv', NEW w \in Workers, GoodStep(w), BookStep(w)
    PROVE  BInv'
<1>1. ASSUME NEW v \in Workers
      PROVE  Priced(journal', limits', workers'[v])
  <2>1. workers \in [Workers -> {Idle} \cup Busy]
    BY DEF BInv, SInv, IInv, TypeOK
  <2>2. CASE v = w
    BY <2>1, <2>2 DEF BookStep
  <2>3. CASE v # w
    <3>1. workers'[v] = workers[v] /\ Priced(journal, limits, workers[v])
      BY <2>1, <2>3 DEF BookStep, BInv
    <3>2. ~Alone
      BY <2>3 DEF Alone
    <3> QED
      BY <3>1, <3>2 DEF Priced
  <2> QED
    BY <2>2, <2>3
<1>2. ASSUME NEW u \in Txns, Created(u), txns'[u] = txns[u]
      PROVE  Booked(journal', u, txns'[u])
  <2>1. RowFits(journal, u, txns[u]) /\ Booked(journal, u, txns[u]) /\ Grows(journal, journal')
    BY <1>2 DEF BInv, SInv, IInv, GoodStep
  <2> QED
    BY <1>2, <2>1, BookedGrows DEF RowFits
<1>3. ASSUME NEW u \in Txns, txns'[u] # NoRow
      PROVE  Booked(journal', u, txns'[u])
  BY <1>2, <1>3 DEF BookStep, Settles, Rebooked, Created
<1> QED
  BY <1>1, <1>3 DEF BInv, Created

(***************************************************************************)
(* What the rows put on the accounts.                                      *)
(***************************************************************************)
LEMMA ApprovalLinesType ==
    ASSUME NEW row \in Row, row.box \in Boxes
    PROVE  ApprovalLines(row) \in Seq(Line)
<1> DEFINE member == Debit(MemberAccount(row), Owed(row))
           profit == Credit(TenantAccount("fees_profit", row.currency_received), Margin(row))
           box(x) == Credit(BoxAccount(row.box, row.currency_delivered), x)
           fx(c)  == TenantAccount("fx_clearing", c)
           one    == <<member, box(OutCost(row)), profit>>
           two    == <<member, Credit(fx(row.currency_received), OutCost(row)), profit,
                       Debit(fx(row.currency_delivered), row.amount_delivered),
                       box(row.amount_delivered)>>
<1>1. /\ TenantAccount("fees_profit", row.currency_received) \in Account
      /\ BoxAccount(row.box, row.currency_delivered) \in Account
      /\ fx(row.currency_received) \in Account /\ fx(row.currency_delivered) \in Account
  BY RowNumbers, AccountType DEF TenantKinds
<1>2. /\ member \in Line /\ profit \in Line
      /\ box(OutCost(row)) \in Line /\ box(row.amount_delivered) \in Line
      /\ Credit(fx(row.currency_received), OutCost(row)) \in Line
      /\ Debit(fx(row.currency_delivered), row.amount_delivered) \in Line
  BY <1>1, RowNumbers, LineType
<1>3. one \in Seq(Line) /\ two \in Seq(Line)
  BY <1>2
<1>4. ApprovalLines(row) = one \/ ApprovalLines(row) = two
  BY DEF ApprovalLines
<1> QED
  BY <1>3, <1>4

LEMMA EffectType ==
    ASSUME NEW history \in Seq(Entry), NEW t, NEW row, NEW a, row # NoRow => NamesPosted(history, t, row)
    PROVE  /\ EffectOn(history, row, a) \in Int
           /\ row # NoRow /\ row.approval = "accepted" =>
                 Net(history[row.approval_entry].lines, a) \in Int
           /\ row # NoRow /\ row.payment = "paid" =>
                 Net(history[row.payment_entry].lines, a) \in Int
<1>1. \A e \in DOMAIN history : Net(history[e].lines, a) \in Int
  BY EntryLines, NetType
<1> QED
  BY <1>1 DEF EffectOn, NamesPosted

LEMMA SameLines ==
    ASSUME NEW row, NEW next, SameTerms(row, next)
    PROVE  /\ ApprovalLines(next) = ApprovalLines(row)
           /\ PaymentLines(next) = PaymentLines(row)
           /\ MemberAccount(next) = MemberAccount(row)
           /\ Owed(next) = Owed(row) /\ Margin(next) = Margin(row)
           /\ Figures(row) => Figures(next)
<1>1. /\ MemberAccount(next) = MemberAccount(row) /\ IsDual(next) = IsDual(row)
      /\ Owed(next) = Owed(row) /\ Margin(next) = Margin(row) /\ OutCost(next) = OutCost(row)
  BY DEF SameTerms, MemberAccount, IsDual, Owed, Margin, OutCost
<1> QED
  BY <1>1 DEF SameTerms, ApprovalLines, PaymentLines, Figures

(* The row an approval or an edit writes, from the copy it posted.         *)
LEMMA AcceptedTerms ==
    ASSUME NEW row \in Row, NEW e \in Nat, Figures(row)
    PROVE  /\ SameTerms(Columns(row), Accepted(row, e))
           /\ Exact(Accepted(row, e))
           /\ Figures(Accepted(row, e))
<1> DEFINE new == Accepted(row, e)
           rate == IF IsDual(row) THEN Stored(row.exchange_rate) ELSE NoRate
<1>1. /\ row.amount \in Int /\ row.fee_cost \in Int /\ row.fee_charged \in Int
      /\ row.amount_delivered \in Int /\ row.exchange_rate \in Int
  BY DEF Row
<1>2. /\ SameTerms(Columns(row), new)
      /\ new.amount = Stored(row.amount) /\ new.fee_cost = Stored(row.fee_cost)
      /\ new.fee_charged = Stored(row.fee_charged)
      /\ new.amount_delivered = Stored(row.amount_delivered)
      /\ new.exchange_rate = rate
      /\ new.currency_received = row.currency_received
      /\ new.currency_delivered = row.currency_delivered
  BY DEF Accepted, Columns, Row, SameTerms
<1>3. IsDual(row) => Stored(row.exchange_rate) >= 0
  <2>1. IsAmount(0)
    BY UnitAssumption DEF IsAmount
  <2>2. CASE row.exchange_rate >= 0
    <3>1. /\ Stored(row.exchange_rate) \in Int /\ IsAmount(Stored(row.exchange_rate))
          /\ 2 * row.exchange_rate - Unit <= 2 * Stored(row.exchange_rate)
      BY <1>1, StoredRounds
    <3>2. ~(Stored(row.exchange_rate) < 0)
      <4>1. SUFFICES ASSUME Stored(row.exchange_rate) < 0 PROVE FALSE
        OBVIOUS
      <4>2. Stored(row.exchange_rate) + Unit <= 0
        BY <2>1, <3>1, <4>1, AmountsApart
      <4> QED
        BY <1>1, <2>2, <3>1, <4>2, UnitAssumption
    <3> QED
      BY <3>1, <3>2
  <2> QED
    BY <2>2 DEF Figures
<1> HIDE DEF new
<1>4. IsDual(new) <=> IsDual(row)
  BY <1>2 DEF IsDual
<1>5. Exact(new)
  BY <1>1, <1>2, StoredRounds DEF Exact
<1>6. Figures(new)
  <2>1. IsDual(new) => new.exchange_rate >= 0
    BY <1>2, <1>3, <1>4
  <2>2. IsAmount(new.amount_delivered)
    BY <1>5 DEF Exact
  <2>3. ~IsDual(new) => new.exchange_rate = NoRate /\ new.amount_delivered = new.amount
    BY <1>2, <1>4 DEF Figures
  <2> QED
    BY <2>1, <2>2, <2>3 DEF Figures
<1> QED
  BY <1>2, <1>5, <1>6 DEF new

(* The conversion is rounded to the columns by the service itself.         *)
LEMMA ConvertedIsAmount ==
    ASSUME NEW x \in Int, NEW rate \in Int
    PROVE  IsAmount(Converted(x, rate))
<1>1. RateScale * Unit \in Nat \ {0} /\ x * rate \in Int
  BY UnitAssumption, ConfigurationAssumption
<1>2. PICK q, r \in Int : /\ (x * rate) \div (RateScale * Unit) = q
                          /\ (x * rate) % (RateScale * Unit) = r
  BY <1>1, Division
<1>3. HalfEven(x * rate, RateScale * Unit) \in Int
  BY <1>2 DEF HalfEven
<1> DEFINE k == HalfEven(x * rate, RateScale * Unit)
<1>4. Converted(x, rate) = Unit * k
  BY DEF Converted
<1> HIDE DEF k
<1>5. k \in Int /\ Unit * k \in Int
  BY <1>3, UnitAssumption DEF k
<1> QED
  BY <1>4, <1>5, Multiple

LEMMA QuotedFigures ==
    ASSUME NEW row \in Row, NEW q \in Quote, IsDual(row) => q.exchange_rate > 0,
           IsAmount(q.amount_delivered)
    PROVE  /\ Figures(Quoted(row, q))
           /\ IsAmount(row.amount) /\ IsAmount(q.fee_cost) /\ IsAmount(q.fee_charged)
                 => Exact(Quoted(row, q))
<1> DEFINE new == Quoted(row, q)
           out == IF q.amount_delivered # 0 THEN q.amount_delivered
                  ELSE Converted(row.amount, q.exchange_rate)
<1>1. /\ new.currency_received = row.currency_received
      /\ new.currency_delivered = row.currency_delivered /\ new.amount = row.amount
      /\ new.exchange_rate = IF IsDual(row) THEN q.exchange_rate ELSE NoRate
      /\ new.amount_delivered = IF ~IsDual(row) THEN row.amount ELSE out
      /\ new.fee_cost = q.fee_cost /\ new.fee_charged = q.fee_charged
  BY DEF Quoted, Row
<1>2. q.exchange_rate \in Int /\ row.amount \in Int
  BY DEF Quote, Row
<1>3. IsAmount(out)
  BY <1>2, ConvertedIsAmount
<1>4. IsDual(new) <=> IsDual(row)
  <2> HIDE DEF new
  <2> QED
    BY <1>1 DEF IsDual
<1> HIDE DEF new, out
<1>5. Figures(new)
  BY <1>1, <1>2, <1>3, <1>4 DEF Figures
<1>6. IsAmount(row.amount) /\ IsAmount(q.fee_cost) /\ IsAmount(q.fee_charged) => Exact(new)
  BY <1>1, <1>3 DEF Exact
<1> QED
  BY <1>5, <1>6 DEF new

(***************************************************************************)
(* Every action, when it is the only request, is a step of the books.      *)
(***************************************************************************)
LEMMA IdlePriced == \A history, lim : Priced(history, lim, Idle)
  BY DEF Priced

LEMMA AnsweredPriced ==
    ASSUME NEW w \in Workers, Answer(w)
    PROVE  \E x : Priced(journal', limits', x) /\ workers' = [workers EXCEPT ![w] = x]
  BY IdlePriced DEF Answer

LEMMA IdleWorkerPriced ==
    ASSUME BInv, NEW w \in Workers, IsIdle(w), UNCHANGED workers
    PROVE  \E x : Priced(journal', limits', x) /\ workers' = [workers EXCEPT ![w] = x]
<1>1. workers[w] = Idle
  BY DEF IsIdle, Busy, BInv, SInv, IInv, TypeOK
<1>2. workers' = [workers EXCEPT ![w] = Idle]
  BY <1>1 DEF BInv, SInv, IInv, TypeOK
<1> QED
  BY <1>2, IdlePriced

LEMMA BusyPriced ==
    ASSUME BInv, NEW w \in Workers, workers[w].pc = "checked"
    PROVE  /\ workers[w].copy.payment_entry = NoEntry
           /\ Figures(workers[w].copy)
           /\ workers[w].op = "approve" => Exact(workers[w].copy)
           /\ Alone => Balance(Seen(journal, workers[w]), MemberAccount(workers[w].copy))
                          + Owed(workers[w].copy)
                          <= limits[workers[w].copy.by, workers[w].copy.currency_received]
<1>1. workers[w] # Idle
  BY DEF Idle
<1> QED
  BY <1>1 DEF BInv, Priced

LEMMA QuietSettles ==
    ASSUME UNCHANGED <<journal, txns>>
    PROVE  Settles
  BY DEF Settles

(* A row written without a posting, whose statuses put on the accounts     *)
(* what they put before.                                                   *)
LEMMA QuietRebooked ==
    ASSUME BInv, UNCHANGED journal, NEW t \in Txns, NEW new, new # NoRow,
           txns' = [txns EXCEPT ![t] = new], Booked(journal, t, new),
           \A a : EffectOn(journal, new, a) = EffectOn(journal, txns[t], a)
    PROVE  Rebooked(t)
<1>1. txns'[t] = new /\ \A u \in Txns \ {t} : txns'[u] = txns[u]
  BY DEF BInv, SInv, IInv, TypeOK
<1>2. ASSUME NEW a
      PROVE  Balance(journal', a)
                = Balance(journal, a) - EffectOn(journal, txns[t], a) + EffectOn(journal', txns'[t], a)
  <2>1. journal \in Seq(Entry)
    BY DEF BInv, SInv, IInv, TypeOK
  <2>2. Balance(journal, a) \in Int
    BY <2>1, BalanceType
  <2>3. EffectOn(journal, txns[t], a) \in Int
    <3>1. txns[t] # NoRow => NamesPosted(journal, t, txns[t])
      BY DEF BInv, SInv, IInv, RowFits, Created
    <3> QED
      BY <2>1, <3>1, EffectType
  <2> QED
    BY <1>1, <2>2, <2>3
<1> QED
  BY <1>1, <1>2 DEF Rebooked

LEMMA CreateBooks ==
    ASSUME BInv, NEW w \in Workers, NEW t \in Txns, NEW d \in Drafts, Create(w, t, d)
    PROVE  Rebooked(t)
<1> DEFINE new == NewRow(d)
<1>1. /\ new \in Row /\ new.approval = "pending" /\ new.payment = "unpaid"
      /\ new.payment_entry = NoEntry
      /\ new.amount = d.amount /\ new.fee_cost = 0 /\ new.fee_charged = 0 /\ new.amount_delivered = 0
  BY InputAssumption DEF NewRow, NoRate, Draft, Row, NoEntry
<1>2. txns' = [txns EXCEPT ![t] = new] /\ txns[t] = NoRow /\ UNCHANGED journal
  BY DEF Create, Created
<1> HIDE DEF new
<1>3. new # NoRow
  BY <1>1, NoRowIsNoRow
<1>4. Exact(new)
  <2>1. IsAmount(0) /\ IsAmount(d.amount)
    BY InputAssumption, UnitAssumption DEF IsAmount
  <2> QED
    BY <1>1, <2>1 DEF Exact
<1>5. Booked(journal, t, new)
  BY <1>1, <1>4 DEF Booked
<1>6. \A a : EffectOn(journal, new, a) = EffectOn(journal, txns[t], a)
  BY <1>1, <1>2 DEF EffectOn
<1> QED
  BY <1>2, <1>3, <1>5, <1>6, QuietRebooked

LEMMA BeginPriced ==
    ASSUME BInv, NEW w \in Workers, NEW op \in TxnOps, NEW t \in Txns, Begin(w, op, t)
    PROVE  BookStep(w)
<1> DEFINE x == [pc |-> "loaded", op |-> op, txn |-> t, copy |-> txns[t], undo |-> NoEntry]
<1>1. UNCHANGED <<journal, txns>> /\ workers' = [workers EXCEPT ![w] = x]
  BY DEF Begin
<1>2. Priced(journal', limits', x)
  BY DEF Priced
<1> HIDE DEF x
<1> QED
  BY <1>1, <1>2, QuietSettles DEF BookStep

LEMMA FailPriced ==
    ASSUME BInv, NEW w \in Workers, Fail(w)
    PROVE  BookStep(w)
  BY AnsweredPriced, QuietSettles DEF Fail, BookStep

(* What holds of a loaded copy in a row nobody else can have touched.      *)
LEMMA BusyBooked ==
    ASSUME BInv, NEW w \in Workers, NEW pc, pc # "idle", workers[w].pc = pc
    PROVE  LET row == txns[workers[w].txn] IN
           /\ Booked(journal, workers[w].txn, row)
           /\ row.approval \in {"accepted", "reversed"} => row.box \in Boxes
           /\ NamesPosted(journal, workers[w].txn, row)
<1>1. SInv
  BY DEF BInv
<1>2. /\ workers[w].txn \in Txns /\ txns[workers[w].txn] # NoRow
      /\ RowFits(journal, workers[w].txn, txns[workers[w].txn])
  BY <1>1, BusyFresh
<1> QED
  BY <1>2 DEF BInv, Created, RowFits, Boxed

LEMMA CheckApprovalPriced ==
    ASSUME BInv, NEW w \in Workers, NEW q \in Quotes, CheckApproval(w, q)
    PROVE  BookStep(w)
<1> DEFINE row == txns[workers[w].txn]
           new == Quoted(workers[w].copy, q)
           x   == [workers[w] EXCEPT !.pc = "checked", !.copy = new]
<1>1. workers[w].pc = "loaded" /\ workers[w].op = "approve" /\ q \in Quote /\ SInv
  BY InputAssumption DEF CheckApproval, AtStep, BInv
<1>2. /\ workers[w] \in Busy /\ row \in Row /\ workers[w].copy = row /\ CanApprove(row)
  BY <1>1, BusyFresh DEF Admits
<1>3. Booked(journal, workers[w].txn, row)
  BY <1>1, BusyBooked
<1>4. row.payment_entry = NoEntry
  BY <1>2, <1>3 DEF Booked, CanApprove
<1>5. new.payment_entry = NoEntry
  BY <1>1, <1>2, <1>4, QuotedType
<1>6. Figures(new) /\ Exact(new)
  <2>1. /\ IsDual(row) => q.exchange_rate > 0
        /\ IsAmount(q.amount_delivered) /\ IsAmount(q.fee_cost) /\ IsAmount(q.fee_charged)
    BY <1>2, InputAssumption DEF CheckApproval, Quotable
  <2>2. IsAmount(row.amount)
    BY <1>3 DEF Booked, Exact
  <2> HIDE DEF row
  <2> QED
    BY <1>1, <1>2, <2>1, <2>2, QuotedFigures
<1>7. CreditAllows(journal, new)
  BY DEF CheckApproval
<1>8. /\ UNCHANGED <<journal, txns, limits>> /\ workers' = [workers EXCEPT ![w] = x]
  BY DEF CheckApproval, BInv, SInv, IInv, TypeOK
<1>9. /\ x.pc = "checked" /\ x.copy = new /\ x.op = "approve"
  <2> HIDE DEF new
  <2> QED
    BY <1>1, <1>2 DEF Busy
<1>10. Priced(journal', limits', x)
  <2> HIDE DEF new, x
  <2> QED
    BY <1>5, <1>6, <1>7, <1>8, <1>9 DEF Priced, Seen, CreditAllows
<1> HIDE DEF x
<1> QED
  BY <1>8, <1>10, QuietSettles DEF BookStep

LEMMA CheckEditPriced ==
    ASSUME BInv, NEW w \in Workers, NEW edit \in Edits, CheckEdit(w, edit)
    PROVE  BookStep(w)
<1> DEFINE row  == txns[workers[w].txn]
           copy == workers[w].copy
           open == Reopened(copy, edit)
           q    == EditQuote(copy, edit)
           new  == Quoted(open, q)
           x    == [workers[w] EXCEPT !.pc = "checked", !.copy = new, !.undo = copy.approval_entry]
<1>1. workers[w].pc = "loaded" /\ workers[w].op = "edit" /\ edit \in Edit /\ SInv
  BY InputAssumption DEF CheckEdit, AtStep, BInv
<1>2. /\ workers[w] \in Busy /\ row \in Row /\ copy = row /\ CanEdit(row)
      /\ RowFits(journal, workers[w].txn, row)
  BY <1>1, BusyFresh DEF Admits
<1>3. row.payment_entry = NoEntry /\ row.box \in Boxes
  BY <1>2 DEF CanEdit, RowFits, Boxed
<1>4. /\ q \in Quote /\ open \in Row /\ open.payment_entry = NoEntry /\ SameParties(row, open)
  <2> HIDE DEF copy
  <2> QED
    BY <1>1, <1>2, <1>3, EditTypes
<1>5. IsDual(open) => q.exchange_rate > 0
  <2>1. IsDual(open) = IsDual(copy)
    BY <1>2, <1>4 DEF IsDual, SameParties
  <2>2. Quotable(copy, q)
    BY DEF CheckEdit
  <2> QED
    BY <2>1, <2>2 DEF Quotable
<1>6. new.payment_entry = NoEntry /\ Figures(new)
  <2>1. IsAmount(q.amount_delivered)
    BY UnitAssumption DEF EditQuote, IsAmount
  <2> HIDE DEF open, q
  <2> QED
    BY <1>4, <1>5, <2>1, QuotedType, QuotedFigures
<1>7. CreditAllows(Append(journal, Mirror(journal, copy.approval_entry)), new)
  BY DEF CheckEdit
<1>8. /\ UNCHANGED <<journal, txns, limits>> /\ workers' = [workers EXCEPT ![w] = x]
  BY DEF CheckEdit, BInv, SInv, IInv, TypeOK
<1>9. /\ x.pc = "checked" /\ x.copy = new /\ x.op = "edit" /\ x.undo = copy.approval_entry
  <2> HIDE DEF new
  <2> QED
    BY <1>1, <1>2 DEF Busy
<1>10. Priced(journal', limits', x)
  <2> HIDE DEF new, x
  <2> QED
    BY <1>6, <1>7, <1>8, <1>9 DEF Priced, Seen, CreditAllows
<1> HIDE DEF x
<1> QED
  BY <1>8, <1>10, QuietSettles DEF BookStep

(* One posting for t by a step that writes its row.                        *)
LEMMA OnePostingRebooked ==
    ASSUME BInv, NEW t \in Txns, txns[t] # NoRow => NamesPosted(journal, t, txns[t]),
           NEW entry \in Entry, entry.type = "transaction" \/ entry.ref = t, Post(<<entry>>),
           NEW new, new # NoRow, txns' = [txns EXCEPT ![t] = new], Booked(journal', t, new),
           \A a : EffectOn(journal', new, a) = EffectOn(journal, txns[t], a) + Net(entry.lines, a)
    PROVE  Rebooked(t)
<1>1. txns'[t] = new /\ \A u \in Txns \ {t} : txns'[u] = txns[u]
  BY DEF BInv, SInv, IInv, TypeOK
<1>2. ASSUME NEW a
      PROVE  /\ Balance(journal', a)
                  = Balance(journal, a) - EffectOn(journal, txns[t], a)
                       + EffectOn(journal', new, a)
             /\ DirectIn(journal', a) = DirectIn(journal, a)
  <2>1. TypeOK /\ journal \in Seq(Entry)
    BY DEF BInv, SInv, IInv, TypeOK
  <2>2. /\ Balance(journal', a) = Balance(journal, a) + Net(entry.lines, a)
        /\ DirectIn(journal', a) = DirectIn(journal, a) + DirectPart(entry, a)
    BY <2>1, PostOne
  <2>3. DirectPart(entry, a) = 0
    BY RefAssumption DEF DirectPart
  <2>4. Balance(journal, a) \in Int /\ DirectIn(journal, a) \in Int
    BY <2>1, BalanceType
  <2>5. EffectOn(journal, txns[t], a) \in Int
    BY <2>1, EffectType
  <2>6. Net(entry.lines, a) \in Int
    BY NetType DEF Entry
  <2>7. EffectOn(journal', new, a) = EffectOn(journal, txns[t], a) + Net(entry.lines, a)
    OBVIOUS
  <2> QED
    BY <2>2, <2>3, <2>4, <2>5, <2>6, <2>7
<1> QED
  BY <1>1, <1>2 DEF Rebooked

LEMMA CommitApprovalBooks ==
    ASSUME BInv, NEW w \in Workers, CommitApproval(w)
    PROVE  Rebooked(workers[w].txn)
<1> DEFINE t     == workers[w].txn
           copy  == workers[w].copy
           row   == txns[t]
           n     == Len(journal)
           new   == Accepted(copy, n + 1)
           entry == ApprovalEntry(t, copy)
<1>1. workers[w].pc = "checked" /\ workers[w].op = "approve" /\ SInv /\ IInv /\ TypeOK
  BY DEF CommitApproval, AtStep, BInv, SInv, IInv
<1>2. /\ t \in Txns /\ row \in Row /\ row # NoRow /\ copy \in Row
      /\ SamePayment(row, copy) /\ row.approval = "pending"
  BY <1>1, BusyFresh
<1>3. copy.box \in Boxes
  BY <1>1, WorkerBusy
<1>4. /\ entry \in Entry /\ entry.type = "transaction" /\ entry.lines = Saved(ApprovalLines(copy))
  <2>1. entry.lines = Saved(ApprovalLines(copy))
    BY DEF ApprovalEntry, Posting
  <2> QED
    BY <1>2, <1>3, <2>1, ApprovalEntryType
<1>5. Post(<<entry>>) /\ txns' = [txns EXCEPT ![t] = new]
  BY DEF CommitApproval
<1>6. n + 1 \in Nat
  BY <1>1 DEF TypeOK
<1>7. Booked(journal, t, row) /\ NamesPosted(journal, t, row)
  BY <1>1, BusyBooked
<1>8. copy.payment_entry = NoEntry /\ Figures(copy) /\ Exact(copy)
  BY <1>1, BusyPriced
<1>9. row.payment # "paid"
  BY <1>2, <1>7 DEF Booked
<1>10. /\ new \in Row /\ new.approval = "accepted" /\ new.approval_entry = n + 1
       /\ new.payment = row.payment /\ new.payment_entry = NoEntry
       /\ SameTerms(Columns(copy), new) /\ Exact(new) /\ Figures(new)
  <2> HIDE DEF copy, n, row
  <2> QED
    BY <1>2, <1>6, <1>8, AcceptedType, AcceptedTerms DEF SamePayment
<1> HIDE DEF new, entry
<1>11. journal'[n + 1] = entry
  BY <1>1, <1>4, <1>5, PostOne
<1>12. PostedAs(journal', t, new, copy)
  BY <1>2, <1>3, <1>4, <1>8, <1>10, <1>11 DEF PostedAs
<1>13. Booked(journal', t, new)
  BY <1>9, <1>10, <1>12 DEF Booked
<1>14. ASSUME NEW a
       PROVE  EffectOn(journal', new, a) = EffectOn(journal, row, a) + Net(entry.lines, a)
  <2>1. EffectOn(journal, row, a) = 0
    BY <1>2, <1>9 DEF EffectOn
  <2>2. EffectOn(journal', new, a) = Net(entry.lines, a) + 0
    BY <1>9, <1>10, <1>11, NoRowIsNoRow DEF EffectOn
  <2>3. Net(entry.lines, a) \in Int
    BY <1>4, NetType DEF Entry
  <2> QED
    BY <2>1, <2>2, <2>3
<1>15. new # NoRow
  BY <1>10, NoRowIsNoRow
<1> HIDE DEF t, copy, n
<1> QED
  BY <1>2, <1>4, <1>5, <1>7, <1>13, <1>14, <1>15, OnePostingRebooked DEF t

LEMMA RejectBooks ==
    ASSUME BInv, NEW w \in Workers, Reject(w)
    PROVE  Rebooked(workers[w].txn)
<1> DEFINE t   == workers[w].txn
           row == txns[t]
           new == [row EXCEPT !.approval = "cancelled"]
<1>1. workers[w].pc = "loaded" /\ workers[w].op = "reject" /\ SInv
  BY DEF Reject, AtStep, BInv
<1>2. t \in Txns /\ row \in Row /\ row # NoRow /\ CanReject(row)
  BY <1>1, BusyFresh DEF Admits
<1>3. Booked(journal, t, row)
  BY <1>1, BusyBooked
<1>4. row.approval = "pending" /\ row.payment # "paid" /\ row.payment_entry = NoEntry
  BY <1>2, <1>3 DEF CanReject, Booked
<1>5. UNCHANGED journal /\ txns' = [txns EXCEPT ![t] = new]
  BY DEF Reject, BInv, SInv, IInv, TypeOK
<1>6. /\ new \in Row /\ new.approval = "cancelled" /\ new.payment = row.payment
      /\ new.payment_entry = row.payment_entry
      /\ new.amount = row.amount /\ new.amount_delivered = row.amount_delivered
      /\ new.fee_cost = row.fee_cost /\ new.fee_charged = row.fee_charged
  BY <1>2 DEF Row
<1> HIDE DEF new, row, t
<1>7. Booked(journal, t, new) /\ new # NoRow
  BY <1>3, <1>4, <1>6, NoRowIsNoRow DEF Booked, Exact
<1>8. \A a : EffectOn(journal, new, a) = EffectOn(journal, txns[t], a)
  BY <1>4, <1>6 DEF EffectOn, row
<1> QED
  BY <1>2, <1>5, <1>7, <1>8, QuietRebooked DEF t

LEMMA DeliverBooks ==
    ASSUME BInv, NEW w \in Workers, Deliver(w)
    PROVE  Rebooked(workers[w].txn)
<1> DEFINE t   == workers[w].txn
           row == txns[t]
           new == [row EXCEPT !.delivery = "delivered"]
<1>1. workers[w].pc = "loaded" /\ workers[w].op = "deliver" /\ SInv
  BY DEF Deliver, AtStep, BInv
<1>2. t \in Txns /\ row \in Row /\ row # NoRow
  BY <1>1, BusyFresh
<1>3. Booked(journal, t, row)
  BY <1>1, BusyBooked
<1>4. UNCHANGED journal /\ txns' = [txns EXCEPT ![t] = new]
  BY DEF Deliver, BInv, SInv, IInv, TypeOK
<1>5. /\ new \in Row /\ new.approval = row.approval /\ new.payment = row.payment
      /\ new.payment_entry = row.payment_entry /\ new.approval_entry = row.approval_entry
      /\ SameTerms(row, new)
  BY <1>2 DEF Row, SameTerms
<1> HIDE DEF new, row, t
<1>6. \A was : PostedAs(journal, t, row, was) => PostedAs(journal, t, new, was)
  BY <1>5, KeptTerms
<1>7. PaymentLines(new) = PaymentLines(row) /\ (Figures(row) => Figures(new))
  BY <1>5, SameLines
<1>8. Booked(journal, t, new) /\ new # NoRow
  BY <1>3, <1>5, <1>6, <1>7, NoRowIsNoRow DEF Booked, Exact, SameTerms
<1>9. \A a : EffectOn(journal, new, a) = EffectOn(journal, txns[t], a)
  BY <1>2, <1>5, <1>8 DEF EffectOn, row
<1> QED
  BY <1>2, <1>4, <1>8, <1>9, QuietRebooked DEF t

(* The columns of a row are figures a column can hold, and so are the lines*)
(* of its payment.                                                         *)
LEMMA SavedPair ==
    ASSUME NEW x \in Line, NEW y \in Line, IsAmount(x.debit), IsAmount(x.credit),
           IsAmount(y.debit), IsAmount(y.credit)
    PROVE  Saved(<<x, y>>) = <<x, y>>
<1>1. /\ x.debit \in Int /\ x.credit \in Int /\ y.debit \in Int /\ y.credit \in Int
      /\ x = [account |-> x.account, debit |-> x.debit, credit |-> x.credit]
      /\ y = [account |-> y.account, debit |-> y.debit, credit |-> y.credit]
  BY DEF Line
<1>2. /\ Stored(x.debit) = x.debit /\ Stored(x.credit) = x.credit
      /\ Stored(y.debit) = y.debit /\ Stored(y.credit) = y.credit
  BY <1>1, StoredRounds
<1> DEFINE f(z) == [account |-> z.account, debit |-> Stored(z.debit), credit |-> Stored(z.credit)]
           two  == <<x, y>>
<1>3. f(x) = x /\ f(y) = y
  BY <1>1, <1>2
<1>4. Saved(two) = [i \in DOMAIN two |-> f(two[i])]
  BY DEF Saved
<1>5. DOMAIN two = 1 .. 2 /\ two[1] = x /\ two[2] = y /\ two \in Seq(Line)
  OBVIOUS
<1>6. [i \in 1 .. 2 |-> f(two[i])] = two
  <2> HIDE DEF f
  <2>1. \A i \in 1 .. 2 : f(two[i]) = two[i]
    BY <1>3, <1>5
  <2> QED
    BY <1>5, <2>1
<1> QED
  BY <1>4, <1>5, <1>6

LEMMA ExactPayment ==
    ASSUME NEW row \in Row, Exact(row)
    PROVE  /\ IsAmount(Owed(row)) /\ IsAmount(OutCost(row)) /\ IsAmount(Margin(row))
           /\ Saved(PaymentLines(row)) = PaymentLines(row)
<1>1. IsAmount(Owed(row)) /\ IsAmount(OutCost(row)) /\ IsAmount(Margin(row))
  BY AmountsAdd DEF Row, Exact, Owed, OutCost, Margin
<1> DEFINE x == Debit(TenantAccount("shop_cash", row.currency_received), Owed(row))
           y == Credit(MemberAccount(row), Owed(row))
<1>2. x \in Line /\ y \in Line
  <2>1. TenantAccount("shop_cash", row.currency_received) \in Account
    BY RowNumbers, AccountType DEF TenantKinds
  <2> QED
    BY <2>1, RowNumbers, LineType
<1>3. IsAmount(x.debit) /\ IsAmount(x.credit) /\ IsAmount(y.debit) /\ IsAmount(y.credit)
  <2>1. IsAmount(0)
    BY UnitAssumption DEF IsAmount
  <2> QED
    BY <1>1, <2>1 DEF Debit, Credit
<1>4. PaymentLines(row) = <<x, y>>
  BY DEF PaymentLines
<1> HIDE DEF x, y
<1> QED
  BY <1>1, <1>2, <1>3, <1>4, SavedPair

LEMMA PayBooks ==
    ASSUME BInv, NEW w \in Workers, Pay(w)
    PROVE  Rebooked(workers[w].txn)
<1> DEFINE t     == workers[w].txn
           row   == txns[t]
           n     == Len(journal)
           new   == [row EXCEPT !.payment = "paid", !.payment_entry = n + 1]
           entry == Posting("settlement", t, PaymentLines(row))
<1>1. workers[w].pc = "loaded" /\ workers[w].op = "pay" /\ SInv /\ IInv /\ TypeOK
  BY DEF Pay, AtStep, BInv, SInv, IInv
<1>2. t \in Txns /\ row \in Row /\ row # NoRow /\ workers[w].copy = row /\ CanPay(row)
  BY <1>1, BusyFresh DEF Admits
<1>3. Booked(journal, t, row) /\ NamesPosted(journal, t, row)
  BY <1>1, BusyBooked
<1>4. row.approval = "accepted" /\ row.payment # "paid"
  BY <1>2 DEF CanPay
<1>5. /\ entry \in Entry /\ entry.ref = t /\ entry.lines = PaymentLines(row)
  <2>1. entry.lines = PaymentLines(row)
    BY <1>2, <1>3, ExactPayment DEF Posting, Booked
  <2>2. "settlement" \in EntryType /\ t \in Txns \cup {NoRef}
    BY <1>2 DEF EntryType
  <2> QED
    BY <1>2, <2>1, <2>2, PaymentLinesType, PostingType
<1>6. Post(<<entry>>) /\ txns' = [txns EXCEPT ![t] = new]
  BY <1>1, <1>2 DEF Pay, TypeOK
<1>7. n + 1 \in Nat
  BY <1>1 DEF TypeOK
<1>8. /\ new \in Row /\ new.approval = row.approval /\ new.approval_entry = row.approval_entry
      /\ new.payment = "paid" /\ new.payment_entry = n + 1 /\ SameTerms(row, new)
  <2> HIDE DEF n, row
  <2> QED
    BY <1>2, <1>7 DEF Row, SameTerms
<1> HIDE DEF new, entry
<1>9. PaymentLines(new) = PaymentLines(row) /\ (Figures(row) => Figures(new))
  BY <1>8, SameLines
<1>10. journal'[n + 1] = entry /\ journal'[row.approval_entry] = journal[row.approval_entry]
  <2>1. journal' = Append(journal, entry) /\ journal \in Seq(Entry)
    BY <1>1, <1>5, <1>6, PostOne
  <2>2. row.approval_entry \in DOMAIN journal
    BY <1>3, <1>4 DEF NamesPosted
  <2> QED
    BY <2>1, <2>2
<1>11. Booked(journal', t, new) /\ new # NoRow
  <2> HIDE DEF row, n, t
  <2>1. Grows(journal, journal')
    <3>1. <<entry>> \in Seq(Entry)
      BY <1>5
    <3> QED
      BY <1>1, <1>6, <3>1, PostGrows
  <2>2. Booked(journal', t, row)
    BY <1>3, <2>1, BookedGrows
  <2>3. \A was : PostedAs(journal', t, row, was) => PostedAs(journal', t, new, was)
    BY <1>8, KeptTerms
  <2>4. Exact(new)
    BY <1>3, <1>8 DEF Booked, Exact, SameTerms
  <2>5. journal'[new.payment_entry].lines = PaymentLines(new)
    BY <1>5, <1>8, <1>9, <1>10
  <2> QED
    BY <1>4, <1>8, <1>9, <2>2, <2>3, <2>4, <2>5, NoRowIsNoRow DEF Booked
<1>12. ASSUME NEW a
       PROVE  EffectOn(journal', new, a) = EffectOn(journal, row, a) + Net(entry.lines, a)
  <2> DEFINE x == Net(journal[row.approval_entry].lines, a)
  <2>1. /\ EffectOn(journal, row, a) = x + 0
        /\ EffectOn(journal', new, a) = x + Net(entry.lines, a)
    BY <1>2, <1>4, <1>8, <1>10, <1>11 DEF EffectOn
  <2>2. x \in Int
    BY <1>1, <1>2, <1>3, <1>4, EffectType DEF TypeOK
  <2>3. Net(entry.lines, a) \in Int
    BY <1>5, NetType DEF Entry
  <2> QED
    BY <2>1, <2>2, <2>3
<1> HIDE DEF t, n
<1> QED
  BY <1>2, <1>3, <1>5, <1>6, <1>11, <1>12, OnePostingRebooked DEF t

(* The entries that stand for a row and the mirrors of them.               *)
LEMMA MirrorUndoes ==
    ASSUME TypeOK, NEW e \in DOMAIN journal, NEW a
    PROVE  /\ Mirror(journal, e) \in Entry
           /\ Net(Mirror(journal, e).lines, a) = -Net(journal[e].lines, a)
           /\ DirectPart(Mirror(journal, e), a) = 0
<1>1. journal \in Seq(Entry)
  BY DEF TypeOK
<1>2. /\ Mirror(journal, e) \in Entry /\ Mirror(journal, e).type = "reversal"
      /\ Mirror(journal, e).lines = MirrorLines(journal[e].lines)
  BY <1>1, MirrorType
<1>3. journal[e].lines \in Seq(Line)
  BY <1>1, EntryLines
<1> QED
  BY <1>2, <1>3, NetMirror DEF DirectPart

LEMMA ReverseBooks ==
    ASSUME BInv, NEW w \in Workers, Reverse(w)
    PROVE  Rebooked(workers[w].txn)
<1> DEFINE t    == workers[w].txn
           row  == txns[t]
           new  == Undone(row)
           undo == EntriesToUndo(row)
           es   == ReverseEntries(w)
<1>1. workers[w].pc = "loaded" /\ workers[w].op = "reverse" /\ SInv /\ IInv /\ TypeOK
  BY DEF Reverse, AtStep, BInv, SInv, IInv
<1>2. t \in Txns /\ row \in Row /\ row # NoRow /\ workers[w].copy = row /\ CanReverse(row)
  BY <1>1, BusyFresh DEF Admits
<1>3. /\ Booked(journal, t, row) /\ NamesPosted(journal, t, row)
  BY <1>1, BusyBooked
<1>4. row.approval = "accepted"
  BY <1>2 DEF CanReverse
<1>5. Post(es) /\ txns' = [txns EXCEPT ![t] = new]
  BY <1>2 DEF Reverse, ReverseEntries
<1>6. /\ new \in Row /\ new.approval = "reversed" /\ new.payment_entry = row.payment_entry
      /\ new.payment = IF row.payment_entry # NoEntry THEN "unpaid" ELSE row.payment
      /\ new.amount = row.amount /\ new.amount_delivered = row.amount_delivered
      /\ new.fee_cost = row.fee_cost /\ new.fee_charged = row.fee_charged
  <2> HIDE DEF row
  <2> QED
    BY <1>2 DEF Undone, Row
<1>7. new.payment # "paid"
  BY <1>3, <1>6 DEF NamesPosted
<1>8. Booked(journal', t, new) /\ new # NoRow
  <2> HIDE DEF new
  <2> QED
    BY <1>3, <1>6, <1>7, NoRowIsNoRow DEF Booked, Exact
<1>9. txns'[t] = new /\ \A u \in Txns \ {t} : txns'[u] = txns[u]
  BY <1>1, <1>2, <1>5 DEF TypeOK
<1>10. ASSUME NEW a
       PROVE  /\ Balance(journal', a)
                   = Balance(journal, a) - EffectOn(journal, row, a) + EffectOn(journal', new, a)
              /\ DirectIn(journal', a) = DirectIn(journal, a)
  <2> DEFINE A == row.approval_entry
             P == row.payment_entry
             x == Net(journal[A].lines, a)
             y == Net(journal[P].lines, a)
  <2>1. A \in DOMAIN journal
    BY <1>3, <1>4 DEF NamesPosted
  <2>2. /\ P # NoEntry => P \in DOMAIN journal /\ row.payment = "paid"
        /\ row.payment = "paid" => P # NoEntry
    BY <1>3, <1>4 DEF Booked, NamesPosted
  <2>3. /\ Mirror(journal, A) \in Entry /\ Net(Mirror(journal, A).lines, a) = -x
        /\ DirectPart(Mirror(journal, A), a) = 0
    BY <1>1, <2>1, MirrorUndoes
  <2>4. EffectOn(journal', new, a) = 0
    <3> HIDE DEF new
    <3> QED
      BY <1>6, <1>7, <1>8 DEF EffectOn
  <2>5. x \in Int /\ Balance(journal, a) \in Int /\ DirectIn(journal, a) \in Int
    BY <1>1, <2>1, EntryLines, NetType, BalanceType DEF TypeOK
  <2>6. CASE P # NoEntry
    <3>1. es = <<Mirror(journal, P), Mirror(journal, A)>>
      BY <1>2, <2>6 DEF ReverseEntries, EntriesToUndo
    <3>2. /\ Mirror(journal, P) \in Entry /\ Net(Mirror(journal, P).lines, a) = -y
          /\ DirectPart(Mirror(journal, P), a) = 0
      BY <1>1, <2>2, <2>6, MirrorUndoes
    <3>3. es \in Seq(Entry) /\ Len(es) = 2 /\ es[1] = Mirror(journal, P) /\ es[2] = Mirror(journal, A)
      BY <2>3, <3>1, <3>2
    <3>4. EffectOn(journal, row, a) = x + y
      BY <1>2, <1>4, <2>2, <2>6 DEF EffectOn
    <3>5. y \in Int
      BY <1>1, <2>2, <2>6, EntryLines, NetType DEF TypeOK
    <3> HIDE DEF es, A, P, x, y
    <3>6. /\ Balance(journal', a) = Balance(journal, a) + (-y) + (-x)
          /\ DirectIn(journal', a) = DirectIn(journal, a) + 0 + 0
      BY <1>1, <1>5, <2>3, <3>2, <3>3, PostTwo
    <3> QED
      BY <2>4, <2>5, <3>4, <3>5, <3>6
  <2>7. CASE P = NoEntry
    <3>1. es = <<Mirror(journal, A)>>
      BY <1>2, <2>7 DEF ReverseEntries, EntriesToUndo
    <3>2. EffectOn(journal, row, a) = x + 0
      BY <1>2, <1>4, <2>2, <2>7 DEF EffectOn
    <3> HIDE DEF es, A, P, x, y
    <3>3. /\ Balance(journal', a) = Balance(journal, a) + (-x)
          /\ DirectIn(journal', a) = DirectIn(journal, a) + 0
      BY <1>1, <1>5, <2>3, <3>1, PostOne
    <3> QED
      BY <2>4, <2>5, <3>2, <3>3
  <2> QED
    BY <2>6, <2>7
<1> QED
  BY <1>8, <1>9, <1>10 DEF Rebooked

LEMMA CommitEditBooks ==
    ASSUME BInv, NEW w \in Workers, CommitEdit(w)
    PROVE  Rebooked(workers[w].txn)
<1> DEFINE t    == workers[w].txn
           copy == workers[w].copy
           row  == txns[t]
           n    == Len(journal)
           new  == Accepted(copy, n + 2)
           es   == EditEntries(w)
<1>1. workers[w].pc = "checked" /\ workers[w].op = "edit" /\ SInv /\ IInv /\ TypeOK
  BY DEF CommitEdit, AtStep, BInv, SInv, IInv
<1>2. /\ t \in Txns /\ row \in Row /\ row # NoRow /\ copy \in Row
      /\ SamePayment(row, copy) /\ row.approval = "accepted"
      /\ workers[w].undo = row.approval_entry
  BY <1>1, BusyFresh
<1>3. copy.box \in Boxes
  BY <1>1, WorkerBusy
<1>4. /\ Booked(journal, t, row) /\ NamesPosted(journal, t, row)
  BY <1>1, <1>2, BusyBooked
<1>5. copy.payment_entry = NoEntry /\ Figures(copy)
  BY <1>1, BusyPriced
<1>6. row.payment # "paid"
  BY <1>2, <1>4, <1>5 DEF SamePayment, NamesPosted
<1>7. Post(es) /\ txns' = [txns EXCEPT ![t] = new]
  BY DEF CommitEdit, EditEntries
<1>8. n + 2 \in Nat
  BY <1>1 DEF TypeOK
<1>9. /\ new \in Row /\ new.approval = "accepted" /\ new.approval_entry = n + 2
      /\ new.payment = row.payment /\ new.payment_entry = NoEntry
      /\ SameTerms(Columns(copy), new) /\ Exact(new) /\ Figures(new)
  <2> HIDE DEF copy, n, row
  <2> QED
    BY <1>2, <1>5, <1>8, AcceptedType, AcceptedTerms DEF SamePayment
<1> DEFINE A     == row.approval_entry
           entry == ApprovalEntry(t, copy)
<1>10. A \in DOMAIN journal /\ journal[A].type = "transaction" /\ journal[A].ref = t
  BY <1>2, <1>4 DEF NamesPosted
<1>11. entry \in Entry /\ entry.type = "transaction" /\ entry.lines = Saved(ApprovalLines(copy))
  <2>1. entry.lines = Saved(ApprovalLines(copy))
    BY DEF ApprovalEntry, Posting
  <2> QED
    BY <1>2, <1>3, <2>1, ApprovalEntryType
<1>12. /\ es = <<Mirror(journal, A), entry>>
  BY <1>2 DEF EditEntries
<1>13. Mirror(journal, A) \in Entry
  BY <1>1, <1>10, MirrorUndoes
<1> HIDE DEF new, entry, es
<1>14. /\ es \in Seq(Entry) /\ Len(es) = 2 /\ es[1] = Mirror(journal, A) /\ es[2] = entry
  BY <1>11, <1>12, <1>13
<1>15. journal'[n + 2] = entry
  <2>1. \A i \in DOMAIN es : journal'[n + i] = es[i]
    BY <1>1, <1>7, <1>14, PostGrows
  <2>2. 2 \in DOMAIN es /\ es[2] = entry
    BY <1>14
  <2> QED
    BY <2>1, <2>2
<1>16. PostedAs(journal', t, new, copy)
  <2>1. journal'[A] = journal[A] /\ A \in DOMAIN journal' /\ A # n + 2
    BY <1>1, <1>7, <1>10, <1>14, PostGrows DEF Grows, TypeOK
  <2>2. EditedIn(journal', t, new)
    BY <1>9, <1>10, <2>1 DEF EditedIn
  <2> QED
    BY <1>2, <1>3, <1>5, <1>9, <1>11, <1>15, <2>2 DEF PostedAs
<1>17. Booked(journal', t, new) /\ new # NoRow
  BY <1>6, <1>9, <1>16, NoRowIsNoRow DEF Booked
<1>18. txns'[t] = new /\ \A u \in Txns \ {t} : txns'[u] = txns[u]
  BY <1>1, <1>2, <1>7 DEF TypeOK
<1>19. ASSUME NEW a
       PROVE  /\ Balance(journal', a)
                   = Balance(journal, a) - EffectOn(journal, row, a) + EffectOn(journal', new, a)
              /\ DirectIn(journal', a) = DirectIn(journal, a)
  <2> DEFINE x == Net(journal[A].lines, a)
             y == Net(entry.lines, a)
  <2>1. Net(Mirror(journal, A).lines, a) = -x /\ DirectPart(Mirror(journal, A), a) = 0
    BY <1>1, <1>10, MirrorUndoes
  <2>2. DirectPart(entry, a) = 0
    BY <1>11 DEF DirectPart
  <2>3. x \in Int /\ y \in Int /\ Balance(journal, a) \in Int /\ DirectIn(journal, a) \in Int
    <3>1. journal \in Seq(Entry) /\ journal[A].lines \in Seq(Line)
      BY <1>1, <1>10, EntryLines DEF TypeOK
    <3>2. entry.lines \in Seq(Line)
      BY <1>11 DEF Entry
    <3> QED
      BY <3>1, <3>2, NetType, BalanceType
  <2>4. EffectOn(journal, row, a) = x + 0
    BY <1>2, <1>6 DEF EffectOn
  <2>5. EffectOn(journal', new, a) = y + 0
    BY <1>6, <1>9, <1>15, <1>17 DEF EffectOn
  <2> HIDE DEF A, x
  <2>6. /\ Balance(journal', a) = Balance(journal, a) + (-x) + y
        /\ DirectIn(journal', a) = DirectIn(journal, a) + 0 + 0
    BY <1>1, <1>7, <1>14, <2>1, <2>2, PostTwo
  <2> QED
    BY <2>3, <2>4, <2>5, <2>6
<1> QED
  BY <1>17, <1>18, <1>19 DEF Rebooked

(* A settlement posted directly: it is in the balances and in the direct   *)
(* part of them alike.                                                     *)
LEMMA SettleBooks ==
    ASSUME BInv, NEW w \in Workers, NEW op, NEW lines \in Seq(Line), Settle(w, op, lines)
    PROVE  /\ BookStep(w)
           /\ \A a : Balance(journal', a) = Balance(journal, a) + Net(Saved(lines), a)
<1> DEFINE entry == Posting("settlement", NoRef, lines)
<1>1. /\ entry \in Entry /\ entry.type = "settlement" /\ entry.ref = NoRef
      /\ entry.lines = Saved(lines)
  <2>1. entry.lines = Saved(lines)
    BY DEF Posting
  <2>2. "settlement" \in EntryType /\ NoRef \in Txns \cup {NoRef}
    BY DEF EntryType
  <2> QED
    BY <2>1, <2>2, PostingType
<1>2. Post(<<entry>>) /\ UNCHANGED <<txns, limits, workers>> /\ IsIdle(w) /\ TypeOK
  BY DEF Settle, BInv, SInv, IInv
<1> HIDE DEF entry
<1>3. ASSUME NEW a
      PROVE  /\ Balance(journal', a) = Balance(journal, a) + Net(Saved(lines), a)
             /\ Balance(journal', a) - DirectIn(journal', a) = Balance(journal, a) - DirectIn(journal, a)
  <2>1. DirectPart(entry, a) = Net(Saved(lines), a)
    BY <1>1 DEF DirectPart
  <2>2. /\ Balance(journal', a) = Balance(journal, a) + Net(Saved(lines), a)
        /\ DirectIn(journal', a) = DirectIn(journal, a) + Net(Saved(lines), a)
    BY <1>1, <1>2, <2>1, PostOne
  <2>3. Balance(journal, a) \in Int /\ DirectIn(journal, a) \in Int /\ Net(Saved(lines), a) \in Int
    BY <1>2, SavedType, BalanceType, NetType DEF TypeOK
  <2> QED
    BY <2>2, <2>3
<1>4. Settles
  BY <1>2, <1>3 DEF Settles
<1> QED
  BY <1>2, <1>3, <1>4, IdleWorkerPriced DEF BookStep

LEMMA SettlementLines ==
    ASSUME NEW c \in Currencies, NEW x \in Int
    PROVE  /\ \A m \in Members, b \in Boxes :
                /\ Debit(BoxAccount(b, c), x) \in Line /\ Credit(SmallOffice(m, c), x) \in Line
                /\ Debit(SmallOffice(m, c), x) \in Line /\ Credit(BoxAccount(b, c), x) \in Line
           /\ Debit(TenantAccount("shop_cash", c), x) \in Line
           /\ \A m \in Members : Credit(SmallOffice(m, c), x) \in Line
           /\ \A b \in Boxes :
                /\ Debit(BoxAccount(b, c), x) \in Line /\ Credit(BoxAccount(b, c), x) \in Line
           /\ Debit(TenantAccount("adjustment", c), x) \in Line
           /\ Credit(TenantAccount("adjustment", c), x) \in Line
<1>1. /\ \A m \in Members : SmallOffice(m, c) \in Account
      /\ \A b \in Boxes : BoxAccount(b, c) \in Account
      /\ TenantAccount("shop_cash", c) \in Account
      /\ TenantAccount("adjustment", c) \in Account
  BY AccountType DEF TenantKinds
<1> QED
  BY <1>1, LineType

LEMMA SettlementsBook ==
    ASSUME BInv, NEW w \in Workers, NEW c \in Currencies, NEW x \in SettleAmounts
    PROVE  /\ \A m \in Members, b \in Boxes :
                Deposit(w, m, b, c, x) \/ Withdraw(w, m, b, c, x) => BookStep(w)
           /\ \A m \in Members : MemberPayment(w, m, c, x) => BookStep(w)
           /\ \A b \in Boxes, direction \in {"in", "out"} :
                AdjustBox(w, b, c, x, direction) => BookStep(w)
<1>1. x \in Int
  BY InputAssumption
<1>2. ASSUME NEW m \in Members, NEW b \in Boxes, Deposit(w, m, b, c, x)
      PROVE  BookStep(w)
  <2>1. <<Debit(BoxAccount(b, c), x), Credit(SmallOffice(m, c), x)>> \in Seq(Line)
    BY <1>1, SettlementLines
  <2> QED
    BY <1>2, <2>1, SettleBooks DEF Deposit
<1>3. ASSUME NEW m \in Members, NEW b \in Boxes, Withdraw(w, m, b, c, x)
      PROVE  BookStep(w)
  <2>1. <<Debit(SmallOffice(m, c), x), Credit(BoxAccount(b, c), x)>> \in Seq(Line)
    BY <1>1, SettlementLines
  <2> QED
    BY <1>3, <2>1, SettleBooks DEF Withdraw
<1>4. ASSUME NEW m \in Members, MemberPayment(w, m, c, x)
      PROVE  BookStep(w)
  <2>1. <<Debit(TenantAccount("shop_cash", c), x), Credit(SmallOffice(m, c), x)>> \in Seq(Line)
    BY <1>1, SettlementLines
  <2> QED
    BY <1>4, <2>1, SettleBooks DEF MemberPayment
<1>5. ASSUME NEW b \in Boxes, NEW direction \in {"in", "out"}, AdjustBox(w, b, c, x, direction)
      PROVE  BookStep(w)
  <2>1. /\ <<Debit(BoxAccount(b, c), x), Credit(TenantAccount("adjustment", c), x)>> \in Seq(Line)
        /\ <<Debit(TenantAccount("adjustment", c), x), Credit(BoxAccount(b, c), x)>> \in Seq(Line)
    BY <1>1, SettlementLines
  <2> QED
    BY <1>5, <2>1, SettleBooks DEF AdjustBox
<1> QED
  BY <1>2, <1>3, <1>4, <1>5

LEMMA SetLimitBooks ==
    ASSUME BInv, NEW w \in Workers, NEW m, NEW c, NEW x, SetLimit(w, m, c, x)
    PROVE  BookStep(w)
<1>1. UNCHANGED <<journal, txns, workers>> /\ IsIdle(w)
  BY DEF SetLimit
<1> QED
  BY <1>1, QuietSettles, IdleWorkerPriced DEF BookStep

LEMMA WritesBook ==
    ASSUME BInv, NEW w \in Workers
    PROVE  /\ \A t \in Txns, d \in Drafts : Create(w, t, d) => BookStep(w)
           /\ CommitApproval(w) \/ Reject(w) \/ Pay(w) \/ Deliver(w) \/ Reverse(w) \/ CommitEdit(w)
                 => BookStep(w)
<1>1. ASSUME NEW t \in Txns, NEW d \in Drafts, Create(w, t, d)
      PROVE  BookStep(w)
  <2>1. IsIdle(w) /\ UNCHANGED workers
    BY <1>1 DEF Create
  <2> QED
    BY <1>1, <2>1, CreateBooks, IdleWorkerPriced DEF BookStep
<1>2. ASSUME CommitApproval(w) \/ Reject(w) \/ Pay(w) \/ Deliver(w) \/ Reverse(w) \/ CommitEdit(w)
      PROVE  BookStep(w)
  <2>1. Rebooked(workers[w].txn)
    BY <1>2, CommitApprovalBooks, RejectBooks, PayBooks, DeliverBooks, ReverseBooks, CommitEditBooks
  <2>2. Answer(w) /\ (workers[w].pc = "loaded" \/ workers[w].pc = "checked")
    BY <1>2 DEF CommitApproval, Reject, Pay, Deliver, Reverse, CommitEdit, AtStep
  <2>3. workers[w].txn \in Txns
    BY <2>2, WorkerBusy DEF BInv, SInv
  <2> QED
    BY <2>1, <2>2, <2>3, AnsweredPriced DEF BookStep
<1> QED
  BY <1>1, <1>2

LEMMA NextBooks ==
    ASSUME NoManualReversal, BInv, Next
    PROVE  \E w \in Workers : GoodStep(w) /\ BookStep(w)
<1>1. PICK w \in Workers : TxnStep(w) \/ SettleStep(w)
  BY DEF Next
<1>2. IInv
  BY DEF BInv, SInv
<1>3. CASE TxnStep(w)
  <2>1. GoodStep(w)
    BY <1>2, <1>3, CreateGood, BeginGood, CheckApprovalGood, CommitApprovalGood, RejectGood,
       PayGood, DeliverGood, ReverseGood, CheckEditGood, CommitEditGood, FailGood DEF TxnStep
  <2>2. BookStep(w)
    BY <1>3, WritesBook, BeginPriced, CheckApprovalPriced, CheckEditPriced, FailPriced DEF TxnStep
  <2> QED
    BY <2>1, <2>2
<1>4. CASE SettleStep(w)
  <2>1. \A e : ~ReverseEntry(w, e)
    BY DEF NoManualReversal, ReverseEntry
  <2>2. GoodStep(w)
    BY <1>2, <1>4, <2>1, SettlementsGood, SetLimitGood DEF SettleStep
  <2>3. BookStep(w)
    BY <1>4, <2>1, SettlementsBook, SetLimitBooks DEF SettleStep
  <2> QED
    BY <2>2, <2>3
<1> QED
  BY <1>1, <1>3, <1>4

LEMMA InitBInv == Init => BInv
<1> SUFFICES ASSUME Init PROVE BInv
  OBVIOUS
<1>1. \A t \in Txns : ~Created(t)
  BY DEF Init, Created
<1>2. \A w \in Workers : Priced(journal, limits, workers[w])
  BY IdlePriced DEF Init
<1> QED
  BY <1>1, <1>2, InitSInv DEF BInv

LEMMA BooksSteps ==
    ASSUME NoManualReversal, Apart, BInv, [Next]_vars
    PROVE  BInv'
<1>1. CASE Next
  <2>1. SInv'
    BY SerialSteps DEF BInv
  <2> QED
    BY <1>1, <2>1, NextBooks, BookStepKeeps
<1>2. CASE UNCHANGED vars
  <2>1. SInv'
    BY SerialSteps DEF BInv
  <2> QED
    BY <1>2, <2>1 DEF BInv, vars, Created
<1> QED
  BY <1>1, <1>2

(* While requests on one transaction do not overlap, whatever approvals,   *)
(* edits, payments and reversals it went through: the standing approval    *)
(* entry was written from figures that round to the columns of the row,    *)
(* and are these columns unless the transaction was edited; the standing   *)
(* payment entry is what the columns give; and with a single worker the    *)
(* balance that a credit check has read is still the balance at the commit.*)
THEOREM BooksInvariance == ASSUME NoManualReversal PROVE Spec /\ []Apart => []BInv
<1>1. BInv /\ Apart /\ [Next]_vars => BInv'
  BY BooksSteps
<1> QED
  BY <1>1, InitBInv, PTL DEF Spec

(***************************************************************************)
(* What an approval and a payment put on each account.                     *)
(***************************************************************************)
On(account, a, x) == IF account = a THEN x ELSE 0

Fx(c)     == TenantAccount("fx_clearing", c)
Profit(c) == TenantAccount("fees_profit", c)
Shop(c)   == TenantAccount("shop_cash", c)

LEMMA PartOfLine ==
    ASSUME NEW account, NEW x \in Int, NEW a
    PROVE  /\ Part(Debit(account, x), a) = On(account, a, x)
           /\ Part(Credit(account, x), a) = On(account, a, -x)
  BY DEF Part, Debit, Credit, On

LEMMA SameAccount ==
    ASSUME NEW m, NEW c, NEW b, NEW n, NEW d, NEW e
    PROVE  /\ SmallOffice(m, c) = SmallOffice(n, d) <=> m = n /\ c = d
           /\ BoxAccount(b, c) = BoxAccount(e, d) <=> b = e /\ c = d
           /\ Fx(c) = Fx(d) <=> c = d
           /\ Profit(c) = Profit(d) <=> c = d
           /\ Shop(c) = Shop(d) <=> c = d
<1>1. \A p, q : p = q => p.owner = q.owner /\ p.currency = q.currency
  OBVIOUS
<1> QED
  BY <1>1 DEF SmallOffice, BoxAccount, TenantAccount, Fx, Profit, Shop

LEMMA OtherAccount ==
    ASSUME NEW m, NEW c, NEW b, NEW d
    PROVE  /\ SmallOffice(m, c) \notin {BoxAccount(b, d), Fx(d), Profit(d), Shop(d)}
           /\ BoxAccount(b, c) \notin {SmallOffice(m, d), Fx(d), Profit(d), Shop(d)}
           /\ Fx(c) \notin {SmallOffice(m, d), BoxAccount(b, d), Profit(d), Shop(d)}
           /\ Profit(c) \notin {SmallOffice(m, d), BoxAccount(b, d), Fx(d), Shop(d)}
           /\ Shop(c) \notin {SmallOffice(m, d), BoxAccount(b, d), Fx(d), Profit(d)}
           /\ TenantAccount("adjustment", c) \notin {SmallOffice(m, d), BoxAccount(b, d), Profit(d)}
<1>1. \A p, q : p = q => p.kind = q.kind
  OBVIOUS
<1>2. \A x : /\ SmallOffice(m, x).kind = "small_office"
             /\ BoxAccount(b, x).kind = "intermediary_box"
             /\ Fx(x).kind = "fx_clearing" /\ Profit(x).kind = "fees_profit"
             /\ Shop(x).kind = "shop_cash" /\ TenantAccount("adjustment", x).kind = "adjustment"
  BY DEF SmallOffice, BoxAccount, TenantAccount, Fx, Profit, Shop
<1> HIDE DEF SmallOffice, BoxAccount, Fx, Profit, Shop
<1> QED
  BY <1>1, <1>2

(* The lines of an approval with its figures apart from the row.           *)
ApprovalOf(row, owed, margin, cost, passed) ==
    LET member == Debit(MemberAccount(row), owed)
        profit == Credit(TenantAccount("fees_profit", row.currency_received), margin)
        box(x) == Credit(BoxAccount(row.box, row.currency_delivered), x)
        fx(c)  == TenantAccount("fx_clearing", c)
    IN  IF ~IsDual(row)
        THEN <<member, box(cost), profit>>
        ELSE <<member, Credit(fx(row.currency_received), cost), profit,
               Debit(fx(row.currency_delivered), passed), box(passed)>>

SavedLine(line) ==
    [account |-> line.account, debit |-> Stored(line.debit), credit |-> Stored(line.credit)]

LEMMA SavedSide ==
    ASSUME NEW account, NEW x \in Int
    PROVE  /\ SavedLine(Debit(account, x)) = Debit(account, Stored(x))
           /\ SavedLine(Credit(account, x)) = Credit(account, Stored(x))
<1>1. Stored(0) = 0
  <2>1. IsAmount(0)
    BY UnitAssumption DEF IsAmount
  <2> QED
    BY <2>1, StoredRounds
<1> QED
  BY <1>1 DEF SavedLine, Debit, Credit

LEMMA SavedOfThree ==
    ASSUME NEW x, NEW y, NEW z
    PROVE  Saved(<<x, y, z>>) = <<SavedLine(x), SavedLine(y), SavedLine(z)>>
<1> DEFINE three == <<x, y, z>>
<1>1. Saved(three) = [i \in DOMAIN three |-> SavedLine(three[i])]
  BY DEF Saved, SavedLine
<1>2. [i \in DOMAIN three |-> SavedLine(three[i])] = <<SavedLine(x), SavedLine(y), SavedLine(z)>>
  OBVIOUS
<1> QED
  BY <1>1, <1>2

LEMMA SavedOfFive ==
    ASSUME NEW x, NEW y, NEW z, NEW u, NEW v
    PROVE  Saved(<<x, y, z, u, v>>)
              = <<SavedLine(x), SavedLine(y), SavedLine(z), SavedLine(u), SavedLine(v)>>
<1> DEFINE five == <<x, y, z, u, v>>
<1>1. Saved(five) = [i \in DOMAIN five |-> SavedLine(five[i])]
  BY DEF Saved, SavedLine
<1>2. [i \in DOMAIN five |-> SavedLine(five[i])]
         = <<SavedLine(x), SavedLine(y), SavedLine(z), SavedLine(u), SavedLine(v)>>
  OBVIOUS
<1> QED
  BY <1>1, <1>2

LEMMA ApprovalShape ==
    ASSUME NEW row \in Row
    PROVE  /\ ApprovalLines(row)
                = ApprovalOf(row, Owed(row), Margin(row), OutCost(row), row.amount_delivered)
           /\ Saved(ApprovalLines(row))
                = ApprovalOf(row, Stored(Owed(row)), Stored(Margin(row)), Stored(OutCost(row)),
                             Stored(row.amount_delivered))
<1> DEFINE in     == row.currency_received
           out    == row.currency_delivered
           box    == BoxAccount(row.box, out)
           member == Debit(MemberAccount(row), Owed(row))
           profit == Credit(TenantAccount("fees_profit", in), Margin(row))
           box1   == Credit(box, OutCost(row))
           box2   == Credit(box, row.amount_delivered)
           fxin   == Credit(TenantAccount("fx_clearing", in), OutCost(row))
           fxout  == Debit(TenantAccount("fx_clearing", out), row.amount_delivered)
<1>1. /\ Owed(row) \in Int /\ Margin(row) \in Int /\ OutCost(row) \in Int
      /\ row.amount_delivered \in Int
  BY RowNumbers
<1>2. /\ SavedLine(member) = Debit(MemberAccount(row), Stored(Owed(row)))
      /\ SavedLine(profit) = Credit(TenantAccount("fees_profit", in), Stored(Margin(row)))
      /\ SavedLine(box1) = Credit(box, Stored(OutCost(row)))
      /\ SavedLine(box2) = Credit(box, Stored(row.amount_delivered))
      /\ SavedLine(fxin) = Credit(TenantAccount("fx_clearing", in), Stored(OutCost(row)))
      /\ SavedLine(fxout) = Debit(TenantAccount("fx_clearing", out), Stored(row.amount_delivered))
  BY <1>1, SavedSide
<1>3. /\ ~IsDual(row) => ApprovalLines(row) = <<member, box1, profit>>
      /\ IsDual(row) => ApprovalLines(row) = <<member, fxin, profit, fxout, box2>>
  BY DEF ApprovalLines
<1>4. ApprovalLines(row)
         = ApprovalOf(row, Owed(row), Margin(row), OutCost(row), row.amount_delivered)
  BY DEF ApprovalLines, ApprovalOf
<1>5. /\ ~IsDual(row) => ApprovalOf(row, Stored(Owed(row)), Stored(Margin(row)),
                                    Stored(OutCost(row)), Stored(row.amount_delivered))
                           = <<SavedLine(member), SavedLine(box1), SavedLine(profit)>>
      /\ IsDual(row) => ApprovalOf(row, Stored(Owed(row)), Stored(Margin(row)),
                                   Stored(OutCost(row)), Stored(row.amount_delivered))
                           = <<SavedLine(member), SavedLine(fxin), SavedLine(profit),
                               SavedLine(fxout), SavedLine(box2)>>
  <2> HIDE DEF member, profit, box1, box2, fxin, fxout
  <2> QED
    BY <1>2 DEF ApprovalOf, box, in, out
<1> HIDE DEF member, profit, box1, box2, fxin, fxout
<1>6. /\ Saved(<<member, box1, profit>>) = <<SavedLine(member), SavedLine(box1), SavedLine(profit)>>
      /\ Saved(<<member, fxin, profit, fxout, box2>>)
           = <<SavedLine(member), SavedLine(fxin), SavedLine(profit),
               SavedLine(fxout), SavedLine(box2)>>
  <2>1. Saved(<<member, box1, profit>>) = <<SavedLine(member), SavedLine(box1), SavedLine(profit)>>
    BY SavedOfThree
  <2>2. Saved(<<member, fxin, profit, fxout, box2>>)
           = <<SavedLine(member), SavedLine(fxin), SavedLine(profit),
               SavedLine(fxout), SavedLine(box2)>>
    BY SavedOfFive
  <2> QED
    BY <2>1, <2>2
<1> QED
  BY <1>3, <1>4, <1>5, <1>6

LEMMA ApprovalNet ==
    ASSUME NEW row \in Row, row.box \in Boxes, NEW owed \in Int, NEW margin \in Int,
           NEW cost \in Int, NEW passed \in Int, NEW a
    PROVE  LET in  == row.currency_received
               out == row.currency_delivered
               box == BoxAccount(row.box, out)
           IN  Net(ApprovalOf(row, owed, margin, cost, passed), a) =
                  On(MemberAccount(row), a, owed) + On(Profit(in), a, -margin)
                  + IF ~IsDual(row) THEN On(box, a, -cost)
                    ELSE On(Fx(in), a, -cost) + On(Fx(out), a, passed) + On(box, a, -passed)
<1> DEFINE in     == row.currency_received
           out    == row.currency_delivered
           box    == BoxAccount(row.box, out)
           member == Debit(MemberAccount(row), owed)
           profit == Credit(Profit(in), margin)
           box1   == Credit(box, cost)
           box2   == Credit(box, passed)
           fxin   == Credit(Fx(in), cost)
           fxout  == Debit(Fx(out), passed)
<1>1. /\ MemberAccount(row) \in Account /\ Profit(in) \in Account /\ box \in Account
      /\ Fx(in) \in Account /\ Fx(out) \in Account
  BY RowNumbers, AccountType DEF TenantKinds, Profit, Fx
<1>2. /\ member \in Line /\ profit \in Line /\ box1 \in Line /\ box2 \in Line
      /\ fxin \in Line /\ fxout \in Line
  BY <1>1, LineType
<1>3. /\ Part(member, a) = On(MemberAccount(row), a, owed)
      /\ Part(profit, a) = On(Profit(in), a, -margin)
      /\ Part(box1, a) = On(box, a, -cost)
      /\ Part(box2, a) = On(box, a, -passed)
      /\ Part(fxin, a) = On(Fx(in), a, -cost)
      /\ Part(fxout, a) = On(Fx(out), a, passed)
  BY PartOfLine
<1>4. /\ ~IsDual(row) => ApprovalOf(row, owed, margin, cost, passed) = <<member, box1, profit>>
      /\ IsDual(row) => ApprovalOf(row, owed, margin, cost, passed) = <<member, fxin, profit, fxout, box2>>
  BY DEF ApprovalOf, Fx, Profit
<1> HIDE DEF member, profit, box1, box2, fxin, fxout, box, in, out
<1>5. /\ Net(<<member, box1, profit>>, a) = Part(member, a) + Part(box1, a) + Part(profit, a)
      /\ Net(<<member, fxin, profit, fxout, box2>>, a)
           = Part(member, a) + Part(fxin, a) + Part(profit, a) + Part(fxout, a) + Part(box2, a)
  BY <1>2, NetOfThree, NetOfFive
<1>6. /\ Part(member, a) \in Int /\ Part(profit, a) \in Int /\ Part(box1, a) \in Int
      /\ Part(box2, a) \in Int /\ Part(fxin, a) \in Int /\ Part(fxout, a) \in Int
  BY <1>2, PartType
<1>7. Net(ApprovalOf(row, owed, margin, cost, passed), a) =
         Part(member, a) + Part(profit, a)
         + IF ~IsDual(row) THEN Part(box1, a)
           ELSE Part(fxin, a) + Part(fxout, a) + Part(box2, a)
  <2>1. CASE IsDual(row)
    BY <1>4, <1>5, <1>6, <2>1
  <2>2. CASE ~IsDual(row)
    BY <1>4, <1>5, <1>6, <2>2
  <2> QED
    BY <2>1, <2>2
<1> QED
  BY <1>3, <1>7 DEF box, in, out

LEMMA PaymentNet ==
    ASSUME NEW row \in Row, NEW a
    PROVE  Net(PaymentLines(row), a)
              = On(Shop(row.currency_received), a, Owed(row)) + On(MemberAccount(row), a, -Owed(row))
<1> DEFINE x == Debit(Shop(row.currency_received), Owed(row))
           y == Credit(MemberAccount(row), Owed(row))
<1>1. Owed(row) \in Int /\ MemberAccount(row) \in Account /\ Shop(row.currency_received) \in Account
  BY RowNumbers, AccountType DEF TenantKinds, Shop
<1>2. x \in Line /\ y \in Line
  BY <1>1, LineType
<1>3. PaymentLines(row) = <<x, y>>
  BY DEF PaymentLines, Shop
<1>4. /\ Part(x, a) = On(Shop(row.currency_received), a, Owed(row))
      /\ Part(y, a) = On(MemberAccount(row), a, -Owed(row))
  BY <1>1, PartOfLine
<1> HIDE DEF x, y
<1> QED
  BY <1>2, <1>3, <1>4, NetOfTwo

(* What the lines of an approval say, and what the columns of its row add  *)
(* up to: the same, but for the rounding of the figures of an edit.        *)
RowDoubt(history, t, row) == IF EditedIn(history, t, row) THEN Slack ELSE 0

LEMMA RowDoubtType == ASSUME NEW history, NEW t, NEW row PROVE RowDoubt(history, t, row) \in Nat
  BY SlackType DEF RowDoubt

LEMMA ChargeLines ==
    ASSUME NEW history, NEW t, NEW row \in Row, NEW was, PostedAs(history, t, row, was)
    PROVE  \E owed, margin, cost \in Int :
              /\ history[row.approval_entry].lines
                    = ApprovalOf(row, owed, margin, cost, row.amount_delivered)
              /\ Within(owed, Owed(row), RowDoubt(history, t, row))
              /\ Within(margin, Margin(row), RowDoubt(history, t, row))
              /\ Within(cost, OutCost(row), RowDoubt(history, t, row))
<1> DEFINE owed   == Stored(Owed(was))
           margin == Stored(Margin(was))
           cost   == Stored(OutCost(was))
           passed == Stored(was.amount_delivered)
<1>1. was \in Row
  BY DEF PostedAs
<1>2. /\ was.amount \in Int /\ was.fee_cost \in Int /\ was.fee_charged \in Int
      /\ was.amount_delivered \in Int
      /\ Owed(was) \in Int /\ Margin(was) \in Int /\ OutCost(was) \in Int
  BY <1>1, RowNumbers DEF Row
<1>3. /\ row.by = was.by /\ row.box = was.box
      /\ row.currency_received = was.currency_received
      /\ row.currency_delivered = was.currency_delivered
      /\ row.amount = Stored(was.amount) /\ row.fee_cost = Stored(was.fee_cost)
      /\ row.fee_charged = Stored(was.fee_charged) /\ row.amount_delivered = passed
  BY <1>1 DEF PostedAs, SameTerms, Columns, Row
<1>4. history[row.approval_entry].lines = ApprovalOf(was, owed, margin, cost, passed)
  BY <1>1, ApprovalShape DEF PostedAs
<1>5. owed \in Int /\ margin \in Int /\ cost \in Int
  BY <1>2, StoredRounds
<1> HIDE DEF owed, margin, cost, passed
<1>6. history[row.approval_entry].lines
         = ApprovalOf(row, owed, margin, cost, row.amount_delivered)
  BY <1>3, <1>4 DEF ApprovalOf, MemberAccount, IsDual
<1>7. /\ Owed(row) \in Int /\ Margin(row) \in Int /\ OutCost(row) \in Int
  BY RowNumbers
<1>8. /\ Within(owed, Owed(row), RowDoubt(history, t, row))
      /\ Within(margin, Margin(row), RowDoubt(history, t, row))
      /\ Within(cost, OutCost(row), RowDoubt(history, t, row))
  <2>1. CASE Exact(was)
    <3>1. IsAmount(Owed(was)) /\ IsAmount(Margin(was)) /\ IsAmount(OutCost(was))
      BY <1>1, <2>1, ExactPayment
    <3>2. owed = Owed(was) /\ margin = Margin(was) /\ cost = OutCost(was)
      BY <1>2, <3>1, StoredRounds DEF owed, margin, cost
    <3>3. row.amount = was.amount /\ row.fee_cost = was.fee_cost /\ row.fee_charged = was.fee_charged
      BY <1>2, <1>3, <2>1, StoredRounds DEF Exact
    <3>4. owed = Owed(row) /\ margin = Margin(row) /\ cost = OutCost(row)
      BY <3>2, <3>3 DEF Owed, Margin, OutCost
    <3>5. RowDoubt(history, t, row) \in Nat
      BY RowDoubtType
    <3> QED
      BY <1>7, <3>4, <3>5 DEF Within
  <2>2. CASE EditedIn(history, t, row)
    <3>1. RowDoubt(history, t, row) = Slack
      BY <2>2 DEF RowDoubt
    <3>2. /\ Within(owed, Stored(was.amount) + Stored(was.fee_charged), Slack)
          /\ Within(margin, Stored(was.fee_charged) - Stored(was.fee_cost), Slack)
          /\ Within(cost, Stored(was.amount) + Stored(was.fee_cost), Slack)
      BY <1>2, SumsRound DEF owed, margin, cost, Owed, Margin, OutCost
    <3>3. /\ Owed(row) = Stored(was.amount) + Stored(was.fee_charged)
          /\ Margin(row) = Stored(was.fee_charged) - Stored(was.fee_cost)
          /\ OutCost(row) = Stored(was.amount) + Stored(was.fee_cost)
      BY <1>3 DEF Owed, Margin, OutCost
    <3> QED
      BY <3>1, <3>2, <3>3
  <2> QED
    BY <2>1, <2>2 DEF PostedAs
<1> QED
  BY <1>5, <1>6, <1>8

(* The same, by status of the row: what the accountant reads off it.       *)
LEMMA EffectOnAccounts ==
    ASSUME NEW history, NEW txn, NEW row \in Row, Booked(history, txn, row),
           row.approval = "accepted" => row.box \in Boxes,
           NEW m, NEW b, NEW c
    PROVE  LET in(x)  == row.approval = "accepted" /\ row.currency_received = c /\ x
               out(x) == row.approval = "accepted" /\ row.currency_delivered = c /\ x
               doubt(x) == IF x THEN RowDoubt(history, txn, row) ELSE 0
           IN
           /\ Within(EffectOn(history, row, SmallOffice(m, c)),
                     IF in(row.by = m /\ row.payment = "unpaid") THEN Owed(row) ELSE 0,
                     doubt(in(row.by = m)))
           /\ EffectOn(history, row, Shop(c)) = IF in(row.payment = "paid") THEN Owed(row) ELSE 0
           /\ Within(EffectOn(history, row, Profit(c)), IF in(TRUE) THEN -Margin(row) ELSE 0,
                     doubt(in(TRUE)))
           /\ Within(EffectOn(history, row, BoxAccount(b, c)),
                     IF out(row.box = b)
                     THEN -(IF IsDual(row) THEN row.amount_delivered ELSE OutCost(row)) ELSE 0,
                     doubt(out(row.box = b /\ ~IsDual(row))))
           /\ Within(EffectOn(history, row, Fx(c)),
                     (IF out(IsDual(row)) THEN row.amount_delivered ELSE 0)
                       - (IF in(IsDual(row)) THEN OutCost(row) ELSE 0),
                     doubt(in(IsDual(row))))
<1> DEFINE doubt == RowDoubt(history, txn, row)
<1>1. /\ row # NoRow /\ row.payment \in {"paid", "unpaid"}
      /\ row.payment = "paid" => row.approval = "accepted"
  BY NoRowIsNoRow DEF Row, Booked
<1>2. doubt \in Nat
  BY RowDoubtType
<1> HIDE DEF doubt
<1>3. CASE row.approval # "accepted"
  <2>1. \A a : EffectOn(history, row, a) = 0
    BY <1>1, <1>3 DEF EffectOn
  <2> QED
    BY <1>3, <2>1 DEF Within
<1>4. CASE row.approval = "accepted"
  <2>1. PICK was : PostedAs(history, txn, row, was)
    BY <1>4 DEF Booked
  <2>2. PICK owed, margin, cost \in Int :
          /\ history[row.approval_entry].lines
                = ApprovalOf(row, owed, margin, cost, row.amount_delivered)
          /\ Within(owed, Owed(row), doubt)
          /\ Within(margin, Margin(row), doubt)
          /\ Within(cost, OutCost(row), doubt)
    BY <2>1, ChargeLines DEF doubt
  <2> DEFINE mem  == MemberAccount(row)
             inc  == row.currency_received
             outc == row.currency_delivered
             box  == BoxAccount(row.box, outc)
             net(a) == On(mem, a, owed) + On(Profit(inc), a, -margin)
                       + IF ~IsDual(row) THEN On(box, a, -cost)
                         ELSE On(Fx(inc), a, -cost) + On(Fx(outc), a, row.amount_delivered)
                              + On(box, a, -row.amount_delivered)
             paid(a) == On(Shop(inc), a, Owed(row)) + On(mem, a, -Owed(row))
  <2>3. \A a : EffectOn(history, row, a) = net(a) + IF row.payment = "paid" THEN paid(a) ELSE 0
    <3> SUFFICES ASSUME NEW a
                 PROVE  EffectOn(history, row, a)
                           = net(a) + IF row.payment = "paid" THEN paid(a) ELSE 0
      OBVIOUS
    <3>1. row.amount_delivered \in Int
      BY RowNumbers
    <3>2. Net(history[row.approval_entry].lines, a) = net(a)
      BY <1>4, <2>2, <3>1, ApprovalNet
    <3>3. row.payment = "paid" => Net(history[row.payment_entry].lines, a) = paid(a)
      BY PaymentNet DEF Booked
    <3> HIDE DEF net, paid
    <3> QED
      BY <1>1, <1>4, <3>2, <3>3 DEF EffectOn
  <2>4. /\ Owed(row) \in Int /\ Margin(row) \in Int /\ OutCost(row) \in Int
        /\ row.amount_delivered \in Int /\ doubt \in Nat
        /\ Within(owed, Owed(row), doubt) /\ Within(margin, Margin(row), doubt)
        /\ Within(cost, OutCost(row), doubt)
    BY <1>2, <2>2, RowNumbers
  <2>5. mem = SmallOffice(row.by, inc)
    BY DEF MemberAccount
  <2>6. Within(EffectOn(history, row, SmallOffice(m, c)),
               IF row.currency_received = c /\ row.by = m /\ row.payment = "unpaid"
               THEN Owed(row) ELSE 0,
               IF row.currency_received = c /\ row.by = m THEN doubt ELSE 0)
    <3> DEFINE a == SmallOffice(m, c)
    <3>1. (mem = a <=> row.by = m /\ inc = c)
      BY <2>5, SameAccount
    <3>2. Profit(inc) # a /\ box # a /\ Fx(inc) # a /\ Fx(outc) # a /\ Shop(inc) # a
      BY OtherAccount
    <3> HIDE DEF a, mem, box, inc, outc
    <3>3. net(a) = On(mem, a, owed) /\ paid(a) = On(mem, a, -Owed(row))
      BY <2>4, <3>2 DEF On
    <3> HIDE DEF net, paid
    <3> QED
      BY <1>1, <2>3, <2>4, <3>1, <3>3 DEF On, a, inc, Within
  <2>7. EffectOn(history, row, Shop(c))
           = IF row.currency_received = c /\ row.payment = "paid" THEN Owed(row) ELSE 0
    <3> DEFINE a == Shop(c)
    <3>1. (Shop(inc) = a <=> inc = c)
      BY SameAccount
    <3>2. Profit(inc) # a /\ box # a /\ Fx(inc) # a /\ Fx(outc) # a /\ mem # a
      BY <2>5, OtherAccount
    <3> HIDE DEF a, mem, box, inc, outc
    <3>3. net(a) = 0 /\ paid(a) = On(Shop(inc), a, Owed(row))
      BY <2>4, <3>2 DEF On
    <3> HIDE DEF net, paid
    <3> QED
      BY <1>1, <2>3, <2>4, <3>1, <3>3 DEF On, a, inc
  <2>8. Within(EffectOn(history, row, Profit(c)),
               IF row.currency_received = c THEN -Margin(row) ELSE 0,
               IF row.currency_received = c THEN doubt ELSE 0)
    <3> DEFINE a == Profit(c)
    <3>1. (Profit(inc) = a <=> inc = c)
      BY SameAccount
    <3>2. Shop(inc) # a /\ box # a /\ Fx(inc) # a /\ Fx(outc) # a /\ mem # a
      BY <2>5, OtherAccount
    <3> HIDE DEF a, mem, box, inc, outc
    <3>3. net(a) = On(Profit(inc), a, -margin) /\ paid(a) = 0
      BY <2>4, <3>2 DEF On
    <3> HIDE DEF net, paid
    <3> QED
      BY <1>1, <2>3, <2>4, <3>1, <3>3 DEF On, a, inc, Within
  <2>9. Within(EffectOn(history, row, BoxAccount(b, c)),
               IF row.currency_delivered = c /\ row.box = b
               THEN -(IF IsDual(row) THEN row.amount_delivered ELSE OutCost(row)) ELSE 0,
               IF row.currency_delivered = c /\ row.box = b /\ ~IsDual(row) THEN doubt ELSE 0)
    <3> DEFINE a == BoxAccount(b, c)
    <3>1. (box = a <=> row.box = b /\ outc = c)
      BY SameAccount
    <3>2. Shop(inc) # a /\ Profit(inc) # a /\ Fx(inc) # a /\ Fx(outc) # a /\ mem # a
      BY <2>5, OtherAccount
    <3> HIDE DEF a, mem, box, inc, outc
    <3>3. /\ net(a) = On(box, a, -(IF IsDual(row) THEN row.amount_delivered ELSE cost))
          /\ paid(a) = 0
      BY <2>4, <3>2 DEF On
    <3> HIDE DEF net, paid
    <3> QED
      BY <1>1, <2>3, <2>4, <3>1, <3>3 DEF On, a, outc, Within
  <2>10. Within(EffectOn(history, row, Fx(c)),
               (IF row.currency_delivered = c /\ IsDual(row) THEN row.amount_delivered ELSE 0)
                 - (IF row.currency_received = c /\ IsDual(row) THEN OutCost(row) ELSE 0),
               IF row.currency_received = c /\ IsDual(row) THEN doubt ELSE 0)
    <3> DEFINE a == Fx(c)
    <3>1. (Fx(inc) = a <=> inc = c) /\ (Fx(outc) = a <=> outc = c)
      BY SameAccount
    <3>2. Shop(inc) # a /\ Profit(inc) # a /\ box # a /\ mem # a
      BY <2>5, OtherAccount
    <3> HIDE DEF a, mem, box, inc, outc
    <3>3. /\ net(a) = IF IsDual(row) THEN On(Fx(inc), a, -cost) + On(Fx(outc), a, row.amount_delivered) ELSE 0
          /\ paid(a) = 0
      BY <2>4, <3>2 DEF On
    <3> HIDE DEF net, paid
    <3> QED
      BY <1>1, <2>3, <2>4, <3>1, <3>3 DEF On, a, inc, outc, Within
  <2> QED
    BY <1>4, <2>6, <2>7, <2>8, <2>9, <2>10 DEF doubt
<1> QED
  BY <1>3, <1>4

(***************************************************************************)
(* Every balance is the sum of what the rows put on the account and of the *)
(* direct settlements.                                                     *)
(***************************************************************************)
Explained(a) ==
    Balance(journal, a)
       = SumOn([t \in Txns |-> EffectOn(journal, txns[t], a)], Txns) + DirectIn(journal, a)

ExplainedInv == BInv /\ \A a : Explained(a)

LEMMA RowReads ==
    ASSUME NEW history \in Seq(Entry), NEW t, NEW row,
           RowFits(history, t, row), Booked(history, t, row)
    PROVE  /\ row \in Row /\ row # NoRow
           /\ row.approval = "accepted" => row.box \in Boxes
           /\ row.payment = "paid" => row.approval = "accepted"
           /\ \A a : EffectOn(history, row, a) \in Int
<1>1. /\ row \in Row /\ row # NoRow
      /\ row.approval = "accepted" => row.box \in Boxes
      /\ row.payment = "paid" => row.approval = "accepted"
  BY NoRowIsNoRow DEF RowFits, Boxed, Booked
<1>2. \A a : EffectOn(history, row, a) \in Int
  BY EffectType DEF RowFits
<1> QED
  BY <1>1, <1>2

LEMMA EffectsType ==
    /\ BInv => \A t \in Txns : \A a : EffectOn(journal, txns[t], a) \in Int
    /\ BInv' => \A t \in Txns : \A a : EffectOn(journal', txns'[t], a) \in Int
<1>1. \A history : \A a : EffectOn(history, NoRow, a) = 0
  BY DEF EffectOn
<1>2. ASSUME BInv, NEW t \in Txns, NEW a
      PROVE  EffectOn(journal, txns[t], a) \in Int
  BY <1>1, <1>2, RowReads DEF BInv, SInv, IInv, TypeOK, Created
<1>3. ASSUME BInv', NEW t \in Txns, NEW a
      PROVE  EffectOn(journal', txns'[t], a) \in Int
  BY <1>1, <1>3, RowReads DEF BInv, SInv, IInv, TypeOK, Created
<1> QED
  BY <1>2, <1>3

(* What a row that a step leaves alone puts on an account stays as it is.  *)
LEMMA EffectKept ==
    ASSUME BInv, Grows(journal, journal'), NEW t \in Txns, txns'[t] = txns[t], NEW a
    PROVE  EffectOn(journal', txns'[t], a) = EffectOn(journal, txns[t], a)
<1>1. CASE txns[t] = NoRow
  BY <1>1 DEF EffectOn
<1>2. CASE txns[t] # NoRow
  <2>1. NamesPosted(journal, t, txns[t]) /\ Booked(journal, t, txns[t])
    BY <1>2 DEF BInv, SInv, IInv, RowFits, Created
  <2> QED
    BY <2>1, BookedGrows
<1> QED
  BY <1>1, <1>2

LEMMA InitExplained == Init => \A a : Explained(a)
<1> SUFFICES ASSUME Init, NEW a PROVE Explained(a)
  OBVIOUS
<1>1. DOMAIN journal = {}
  BY DEF Init
<1>2. Balance(journal, a) = 0 /\ DirectIn(journal, a) = 0
  BY <1>1, SumEmpty DEF Balance, DirectIn, SumFunction, SumOn
<1>3. \A t \in Txns : [u \in Txns |-> EffectOn(journal, txns[u], a)][t] = 0
  BY DEF Init, EffectOn
<1>4. SumOn([t \in Txns |-> EffectOn(journal, txns[t], a)], Txns) = 0
  BY <1>3, SumZero, FiniteAssumption
<1> QED
  BY <1>2, <1>4 DEF Explained

LEMMA ExplainedKept ==
    ASSUME BInv, BInv', Grows(journal, journal'), NEW a, Explained(a),
           Settles \/ \E t \in Txns : Rebooked(t)
    PROVE  Explained(a)'
<1> DEFINE f == [t \in Txns |-> EffectOn(journal, txns[t], a)]
           g == [t \in Txns |-> EffectOn(journal', txns'[t], a)]
<1>1. \A t \in Txns : f[t] \in Int /\ g[t] \in Int
  BY EffectsType
<1>2. /\ Balance(journal, a) \in Int /\ DirectIn(journal, a) \in Int
      /\ Balance(journal', a) \in Int /\ DirectIn(journal', a) \in Int
  <2>1. journal \in Seq(Entry) /\ journal' \in Seq(Entry)
    BY DEF BInv, SInv, IInv, TypeOK
  <2> QED
    BY <2>1, BalanceType
<1>3. Balance(journal, a) = SumOn(f, Txns) + DirectIn(journal, a)
  BY DEF Explained
<1>4. CASE Settles
  <2>1. \A t \in Txns : g[t] = f[t]
    BY <1>4, EffectKept DEF Settles
  <2>2. Balance(journal', a) - DirectIn(journal', a) = Balance(journal, a) - DirectIn(journal, a)
    BY <1>4 DEF Settles
  <2> HIDE DEF f, g
  <2>3. SumOn(f, Txns) \in Int /\ SumOn(g, Txns) = SumOn(f, Txns)
    BY <1>1, <2>1, SumType, SumSame, FiniteAssumption
  <2>4. Balance(journal', a) = SumOn(g, Txns) + DirectIn(journal', a)
    BY <1>2, <1>3, <2>2, <2>3
  <2> QED
    BY <2>4 DEF Explained, g
<1>5. ASSUME NEW t \in Txns, Rebooked(t)
      PROVE  Explained(a)'
  <2>1. \A u \in Txns \ {t} : g[u] = f[u]
    BY <1>5, EffectKept DEF Rebooked
  <2>2. /\ Balance(journal', a) = Balance(journal, a) - f[t] + g[t]
        /\ DirectIn(journal', a) = DirectIn(journal, a)
    BY <1>5 DEF Rebooked
  <2> HIDE DEF f, g
  <2>3. SumOn(g, Txns) = SumOn(f, Txns) - f[t] + g[t]
    BY <1>1, <2>1, SumChanged, FiniteAssumption
  <2>4. SumOn(f, Txns) \in Int /\ f[t] \in Int /\ g[t] \in Int
    BY <1>1, SumType, FiniteAssumption
  <2>5. Balance(journal', a) = SumOn(g, Txns) + DirectIn(journal', a)
    BY <1>2, <1>3, <2>2, <2>3, <2>4
  <2> QED
    BY <2>5 DEF Explained, g
<1> QED
  BY <1>4, <1>5

LEMMA ExplainedSteps ==
    ASSUME NoManualReversal, Apart, ExplainedInv, [Next]_vars
    PROVE  ExplainedInv'
<1>1. BInv /\ BInv'
  BY BooksSteps DEF ExplainedInv
<1>2. Grows(journal, journal') /\ (Settles \/ \E t \in Txns : Rebooked(t))
  <2>1. CASE Next
    BY <1>1, <2>1, NextBooks DEF BookStep, GoodStep
  <2>2. CASE UNCHANGED vars
    <3>1. Len(journal) \in Nat
      BY <1>1 DEF BInv, SInv, IInv, TypeOK
    <3> QED
      BY <2>2, <3>1 DEF vars, Settles, Grows
  <2> QED
    BY <2>1, <2>2
<1> QED
  BY <1>1, <1>2, ExplainedKept DEF ExplainedInv

(* While requests on one transaction do not overlap, every balance of the  *)
(* ledger, of whatever account, is the sum of what the approval and the    *)
(* payment entries that the rows name put on that account, each row's once *)
(* and only while its statuses stand, and of the direct settlements: every *)
(* other entry, replaced by an edit or undone by a reversal, cancels out.  *)
THEOREM EveryBalance == ASSUME NoManualReversal PROVE Spec /\ []Apart => []ExplainedInv
<1>1. ExplainedInv /\ Apart /\ [Next]_vars => ExplainedInv'
  BY ExplainedSteps
<1>2. Init => ExplainedInv
  BY InitBInv, InitExplained DEF ExplainedInv
<1> QED
  BY <1>1, <1>2, PTL DEF Spec

(***************************************************************************)
(* Account by account.                                                     *)
(***************************************************************************)
Counted(t) == Created(t) /\ txns[t].approval = "accepted"

DoubtIf(t, x) == IF Counted(t) /\ x /\ Edited(t) THEN Slack ELSE 0

LEMMA DoubtType ==
    ASSUME NEW t, NEW x
    PROVE  DoubtIf(t, x) \in Nat /\ (~x => DoubtIf(t, x) = 0)
  BY SlackType DEF DoubtIf

LEMMA EveryEffect ==
    ASSUME BInv, NEW t \in Txns, NEW m, NEW b, NEW c
    PROVE  LET row == txns[t]
               in(x)  == row.currency_received = c /\ x
               out(x) == row.currency_delivered = c /\ x
               put(a) == EffectOn(journal, row, a)
           IN
           /\ Within(put(SmallOffice(m, c)),
                     IF Counted(t) /\ in(row.by = m /\ row.payment = "unpaid")
                     THEN Owed(row) ELSE 0,
                     DoubtIf(t, in(row.by = m)))
           /\ put(Shop(c)) = IF Counted(t) /\ in(row.payment = "paid") THEN Owed(row) ELSE 0
           /\ Within(put(Profit(c)), IF Counted(t) /\ in(TRUE) THEN -Margin(row) ELSE 0,
                     DoubtIf(t, in(TRUE)))
           /\ Within(put(BoxAccount(b, c)),
                     IF Counted(t) /\ out(row.box = b)
                     THEN -(IF IsDual(row) THEN row.amount_delivered ELSE OutCost(row)) ELSE 0,
                     DoubtIf(t, out(row.box = b /\ ~IsDual(row))))
           /\ Within(put(Fx(c)),
                     (IF Counted(t) /\ out(IsDual(row)) THEN row.amount_delivered ELSE 0)
                       - (IF Counted(t) /\ in(IsDual(row)) THEN OutCost(row) ELSE 0),
                     DoubtIf(t, in(IsDual(row))))
<1> DEFINE row == txns[t]
<1>1. CASE row = NoRow
  <2>1. ~Counted(t)
    BY <1>1 DEF Counted, Created
  <2>2. (\A a : EffectOn(journal, row, a) = 0) /\ \A x : DoubtIf(t, x) = 0
    BY <1>1, <2>1 DEF EffectOn, DoubtIf
  <2> HIDE DEF row
  <2> QED
    BY <2>1, <2>2 DEF Within, row
<1>2. CASE row # NoRow
  <2>1. RowFits(journal, t, row) /\ Booked(journal, t, row) /\ Created(t) /\ journal \in Seq(Entry)
    BY <1>2 DEF BInv, SInv, IInv, TypeOK, Created
  <2>2. /\ row \in Row
        /\ row.approval = "accepted" => row.box \in Boxes
    BY <2>1, RowReads
  <2>3. Counted(t) <=> row.approval = "accepted"
    BY <2>1 DEF Counted
  <2>4. RowDoubt(journal, t, row) = IF Edited(t) THEN Slack ELSE 0
    BY DEF RowDoubt, EditedIn, Edited
  <2>5. \A x : DoubtIf(t, x) = IF row.approval = "accepted" /\ x THEN RowDoubt(journal, t, row) ELSE 0
    BY <2>3, <2>4 DEF DoubtIf
  <2> HIDE DEF row
  <2>6. /\ Within(EffectOn(journal, row, SmallOffice(m, c)),
                  IF row.approval = "accepted" /\ row.currency_received = c /\ row.by = m
                     /\ row.payment = "unpaid" THEN Owed(row) ELSE 0,
                  DoubtIf(t, row.currency_received = c /\ row.by = m))
        /\ EffectOn(journal, row, Shop(c))
              = IF row.approval = "accepted" /\ row.currency_received = c /\ row.payment = "paid"
                THEN Owed(row) ELSE 0
        /\ Within(EffectOn(journal, row, Profit(c)),
                  IF row.approval = "accepted" /\ row.currency_received = c THEN -Margin(row) ELSE 0,
                  DoubtIf(t, row.currency_received = c /\ TRUE))
    BY <2>1, <2>2, <2>5, EffectOnAccounts
  <2>7. Within(EffectOn(journal, row, BoxAccount(b, c)),
               IF row.approval = "accepted" /\ row.currency_delivered = c /\ row.box = b
               THEN -(IF IsDual(row) THEN row.amount_delivered ELSE OutCost(row)) ELSE 0,
               DoubtIf(t, row.currency_delivered = c /\ row.box = b /\ ~IsDual(row)))
    BY <2>1, <2>2, <2>5, EffectOnAccounts
  <2>8. Within(EffectOn(journal, row, Fx(c)),
               (IF row.approval = "accepted" /\ row.currency_delivered = c /\ IsDual(row)
                THEN row.amount_delivered ELSE 0)
                 - (IF row.approval = "accepted" /\ row.currency_received = c /\ IsDual(row)
                    THEN OutCost(row) ELSE 0),
               DoubtIf(t, row.currency_received = c /\ IsDual(row)))
    BY <2>1, <2>2, <2>5, EffectOnAccounts
  <2> QED
    BY <2>3, <2>6, <2>7, <2>8 DEF row
<1> QED
  BY <1>1, <1>2

(* f is what the rows say they put on the account, d how far from the      *)
(* truth each may be.                                                      *)
LEMMA BalanceNear ==
    ASSUME ExplainedInv, NEW a, NEW f, NEW d,
           \A t \in Txns : /\ f[t] \in Int /\ d[t] \in Int
                           /\ Within(EffectOn(journal, txns[t], a), f[t], d[t])
    PROVE  /\ Explains(a, SumOn(f, Txns), SumOn(d, Txns))
           /\ Balance(journal, a) \in Int /\ Direct(a) \in Int
           /\ SumOn(f, Txns) \in Int /\ SumOn(d, Txns) \in Int
<1> DEFINE g == [t \in Txns |-> EffectOn(journal, txns[t], a)]
<1>1. Direct(a) = DirectIn(journal, a)
  BY DEF Direct, DirectIn, DirectPart
<1>2. Balance(journal, a) = SumOn(g, Txns) + DirectIn(journal, a)
  BY DEF ExplainedInv, Explained
<1>3. \A t \in Txns : g[t] \in Int /\ f[t] \in Int /\ d[t] \in Int /\ Within(g[t], f[t], d[t])
  BY EffectsType DEF ExplainedInv
<1>4. journal \in Seq(Entry)
  BY DEF ExplainedInv, BInv, SInv, IInv, TypeOK
<1> HIDE DEF g
<1>5. Within(SumOn(g, Txns), SumOn(f, Txns), SumOn(d, Txns))
  BY <1>3, SumWithin, FiniteAssumption
<1>6. SumOn(g, Txns) \in Int /\ SumOn(f, Txns) \in Int /\ SumOn(d, Txns) \in Int
  BY <1>3, SumType, FiniteAssumption
<1>7. Balance(journal, a) \in Int /\ DirectIn(journal, a) \in Int
  BY <1>4, BalanceType
<1> QED
  BY <1>1, <1>2, <1>5, <1>6, <1>7 DEF Explains, Within

(* The same, when the rows say exactly what they put there.                *)
LEMMA BalanceIs ==
    ASSUME ExplainedInv, NEW a, NEW f, \A t \in Txns : f[t] = EffectOn(journal, txns[t], a)
    PROVE  /\ Balance(journal, a) = SumOn(f, Txns) + Direct(a)
           /\ Balance(journal, a) \in Int /\ Direct(a) \in Int
<1> DEFINE g == [t \in Txns |-> EffectOn(journal, txns[t], a)]
<1>1. Direct(a) = DirectIn(journal, a)
  BY DEF Direct, DirectIn, DirectPart
<1>2. Balance(journal, a) = SumOn(g, Txns) + DirectIn(journal, a)
  BY DEF ExplainedInv, Explained
<1>3. \A t \in Txns : f[t] = g[t]
  OBVIOUS
<1>4. journal \in Seq(Entry)
  BY DEF ExplainedInv, BInv, SInv, IInv, TypeOK
<1> HIDE DEF g
<1>5. SumOn(f, Txns) = SumOn(g, Txns)
  BY <1>3, SumSame, FiniteAssumption
<1> QED
  BY <1>1, <1>2, <1>4, <1>5, BalanceType

LEMMA RowsNumbers ==
    ASSUME BInv, NEW t \in Txns, Created(t)
    PROVE  /\ Owed(txns[t]) \in Int /\ OutCost(txns[t]) \in Int /\ Margin(txns[t]) \in Int
           /\ txns[t].amount_delivered \in Int /\ txns[t].amount \in Int
           /\ txns[t].fee_cost \in Int /\ txns[t].fee_charged \in Int
           /\ txns[t].exchange_rate \in Int
           /\ txns[t].by \in Members /\ txns[t].currency_received \in Currencies
           /\ txns[t].currency_delivered \in Currencies
<1>1. txns[t] \in Row
  BY DEF BInv, SInv, IInv, RowFits
<1> QED
  BY <1>1, RowNumbers DEF Row

LEMMA MembersExplained ==
    ASSUME ExplainedInv, NEW m, NEW c
    PROVE  Explains(SmallOffice(m, c),
                    SumAccepted(LAMBDA row : row.currency_received = c /\ row.by = m
                                             /\ row.payment = "unpaid", Owed),
                    Doubt(LAMBDA row : row.currency_received = c /\ row.by = m))
<1> DEFINE mine(t) == txns[t].currency_received = c /\ txns[t].by = m
           f == [t \in Txns |-> IF Counted(t) /\ mine(t) /\ txns[t].payment = "unpaid"
                                THEN Owed(txns[t]) ELSE 0]
           d == [t \in Txns |-> DoubtIf(t, mine(t))]
<1>1. \A t \in Txns : f[t] \in Int /\ d[t] \in Int
  BY RowsNumbers, DoubtType DEF ExplainedInv, Counted
<1>2. \A t \in Txns : Within(EffectOn(journal, txns[t], SmallOffice(m, c)), f[t], d[t])
  BY EveryEffect DEF ExplainedInv
<1>3. SumAccepted(LAMBDA row : row.currency_received = c /\ row.by = m
                               /\ row.payment = "unpaid", Owed) = SumOn(f, Txns)
  BY DEF SumAccepted, SumFunction, SumOn, Counted
<1>4. Doubt(LAMBDA row : row.currency_received = c /\ row.by = m) = SumOn(d, Txns)
  BY DEF Doubt, SumFunction, SumOn, Counted, DoubtIf
<1> HIDE DEF f, d
<1> QED
  BY <1>1, <1>2, <1>3, <1>4, BalanceNear

LEMMA ShopExplained ==
    ASSUME ExplainedInv, NEW c
    PROVE  Explains(Shop(c), SumAccepted(LAMBDA row : row.currency_received = c
                                                      /\ row.payment = "paid", Owed), 0)
<1> DEFINE in(t) == Counted(t) /\ txns[t].currency_received = c /\ txns[t].payment = "paid"
           f == [t \in Txns |-> IF in(t) THEN Owed(txns[t]) ELSE 0]
<1>1. \A t \in Txns : f[t] = EffectOn(journal, txns[t], Shop(c))
  BY EveryEffect DEF ExplainedInv
<1>2. SumAccepted(LAMBDA row : row.currency_received = c /\ row.payment = "paid", Owed)
         = SumOn(f, Txns)
  BY DEF SumAccepted, SumFunction, SumOn, Counted
<1> HIDE DEF f
<1>3. /\ Balance(journal, Shop(c)) = SumOn(f, Txns) + Direct(Shop(c))
      /\ Balance(journal, Shop(c)) \in Int
  BY <1>1, BalanceIs
<1> QED
  BY <1>2, <1>3 DEF Explains, Within

(* An income account grows on the credit side.                             *)
LEMMA CreditExplained ==
    ASSUME ExplainedInv, NEW a, NEW f, NEW d,
           \A t \in Txns : /\ f[t] \in Int /\ d[t] \in Int
                           /\ Within(EffectOn(journal, txns[t], a), -f[t], d[t])
    PROVE  /\ Explains(a, -SumOn(f, Txns), SumOn(d, Txns))
           /\ Balance(journal, a) \in Int /\ Direct(a) \in Int
<1> DEFINE g == [t \in Txns |-> -f[t]]
<1>1. \A t \in Txns : f[t] \in Int /\ g[t] = -f[t] /\ g[t] \in Int /\ d[t] \in Int
                      /\ Within(EffectOn(journal, txns[t], a), g[t], d[t])
  OBVIOUS
<1> HIDE DEF g
<1>2. SumOn(g, Txns) = -SumOn(f, Txns)
  BY <1>1, SumNegated, FiniteAssumption
<1>3. /\ Explains(a, SumOn(g, Txns), SumOn(d, Txns))
      /\ Balance(journal, a) \in Int /\ Direct(a) \in Int
  BY <1>1, BalanceNear
<1> QED
  BY <1>2, <1>3

LEMMA ProfitExplained ==
    ASSUME ExplainedInv, NEW c
    PROVE  Explains(Profit(c), -ProfitReport(c), Doubt(LAMBDA row : row.currency_received = c))
<1> DEFINE here(t) == txns[t].currency_received = c
           f == [t \in Txns |-> IF Counted(t) /\ here(t) THEN Margin(txns[t]) ELSE 0]
           d == [t \in Txns |-> DoubtIf(t, here(t))]
<1>1. \A t \in Txns : f[t] \in Int /\ d[t] \in Int
  BY RowsNumbers, DoubtType DEF ExplainedInv, Counted
<1>2. \A t \in Txns : Within(EffectOn(journal, txns[t], Profit(c)), -f[t], d[t])
  <2> SUFFICES ASSUME NEW t \in Txns
               PROVE  Within(EffectOn(journal, txns[t], Profit(c)), -f[t], d[t])
    OBVIOUS
  <2>1. Within(EffectOn(journal, txns[t], Profit(c)),
               IF Counted(t) /\ here(t) THEN -Margin(txns[t]) ELSE 0, DoubtIf(t, here(t)))
    BY EveryEffect DEF ExplainedInv
  <2>2. -f[t] = IF Counted(t) /\ here(t) THEN -Margin(txns[t]) ELSE 0
    OBVIOUS
  <2>3. d[t] = DoubtIf(t, here(t))
    OBVIOUS
  <2> HIDE DEF f, d, here
  <2> QED
    BY <2>1, <2>2, <2>3
<1>3. ProfitReport(c) = SumOn(f, Txns)
  BY DEF ProfitReport, SumAccepted, SumFunction, SumOn, Counted
<1>4. Doubt(LAMBDA row : row.currency_received = c) = SumOn(d, Txns)
  BY DEF Doubt, SumFunction, SumOn, Counted, DoubtIf
<1> HIDE DEF f, d
<1> QED
  BY <1>1, <1>2, <1>3, <1>4, CreditExplained

LEMMA BoxExplained ==
    ASSUME ExplainedInv, NEW b, NEW c
    PROVE  Explains(BoxAccount(b, c),
                    -SumAccepted(LAMBDA row : row.currency_delivered = c /\ row.box = b,
                                 LAMBDA row : IF IsDual(row) THEN row.amount_delivered
                                              ELSE OutCost(row)),
                    Doubt(LAMBDA row : row.currency_delivered = c /\ row.box = b /\ ~IsDual(row)))
<1> DEFINE mine(t) == txns[t].currency_delivered = c /\ txns[t].box = b
           lost(t) == IF IsDual(txns[t]) THEN txns[t].amount_delivered ELSE OutCost(txns[t])
           f == [t \in Txns |-> IF Counted(t) /\ mine(t) THEN lost(t) ELSE 0]
           d == [t \in Txns |-> DoubtIf(t, txns[t].currency_delivered = c /\ txns[t].box = b
                                           /\ ~IsDual(txns[t]))]
<1>1. \A t \in Txns : f[t] \in Int /\ d[t] \in Int
  BY RowsNumbers, DoubtType DEF ExplainedInv, Counted
<1>2. \A t \in Txns : Within(EffectOn(journal, txns[t], BoxAccount(b, c)), -f[t], d[t])
  <2> SUFFICES ASSUME NEW t \in Txns
               PROVE  Within(EffectOn(journal, txns[t], BoxAccount(b, c)), -f[t], d[t])
    OBVIOUS
  <2>1. Within(EffectOn(journal, txns[t], BoxAccount(b, c)),
               IF Counted(t) /\ mine(t) THEN -lost(t) ELSE 0,
               DoubtIf(t, txns[t].currency_delivered = c /\ txns[t].box = b /\ ~IsDual(txns[t])))
    BY EveryEffect DEF ExplainedInv
  <2>2. -f[t] = IF Counted(t) /\ mine(t) THEN -lost(t) ELSE 0
    OBVIOUS
  <2>3. d[t] = DoubtIf(t, txns[t].currency_delivered = c /\ txns[t].box = b /\ ~IsDual(txns[t]))
    OBVIOUS
  <2> HIDE DEF f, d, mine, lost
  <2> QED
    BY <2>1, <2>2, <2>3
<1>3. SumAccepted(LAMBDA row : row.currency_delivered = c /\ row.box = b,
                  LAMBDA row : IF IsDual(row) THEN row.amount_delivered ELSE OutCost(row))
         = SumOn(f, Txns)
  BY DEF SumAccepted, SumFunction, SumOn, Counted
<1>4. Doubt(LAMBDA row : row.currency_delivered = c /\ row.box = b /\ ~IsDual(row)) = SumOn(d, Txns)
  BY DEF Doubt, SumFunction, SumOn, Counted, DoubtIf
<1> HIDE DEF f, d
<1> QED
  BY <1>1, <1>2, <1>3, <1>4, CreditExplained

LEMMA ClearingExplained ==
    ASSUME ExplainedInv, NEW c
    PROVE  Explains(Fx(c),
                    SumAccepted(LAMBDA row : IsDual(row) /\ row.currency_delivered = c,
                                LAMBDA row : row.amount_delivered)
                    - SumAccepted(LAMBDA row : IsDual(row) /\ row.currency_received = c, OutCost),
                    Doubt(LAMBDA row : IsDual(row) /\ row.currency_received = c))
<1> DEFINE out(t) == Counted(t) /\ txns[t].currency_delivered = c /\ IsDual(txns[t])
           in(t)  == Counted(t) /\ txns[t].currency_received = c /\ IsDual(txns[t])
           f == [t \in Txns |-> IF out(t) THEN txns[t].amount_delivered ELSE 0]
           g == [t \in Txns |-> IF in(t) THEN OutCost(txns[t]) ELSE 0]
           h == [t \in Txns |-> f[t] - g[t]]
           d == [t \in Txns |-> DoubtIf(t, txns[t].currency_received = c /\ IsDual(txns[t]))]
<1>1. \A t \in Txns : /\ f[t] \in Int /\ g[t] \in Int /\ h[t] = f[t] - g[t] /\ h[t] \in Int
                      /\ d[t] \in Int
  <2> SUFFICES ASSUME NEW t \in Txns
               PROVE  f[t] \in Int /\ g[t] \in Int /\ d[t] \in Int
    OBVIOUS
  <2>1. f[t] \in Int /\ g[t] \in Int
    BY RowsNumbers DEF ExplainedInv, Counted
  <2>2. d[t] \in Int
    BY DoubtType
  <2> QED
    BY <2>1, <2>2
<1>2. \A t \in Txns : Within(EffectOn(journal, txns[t], Fx(c)), h[t], d[t])
  <2> SUFFICES ASSUME NEW t \in Txns
               PROVE  Within(EffectOn(journal, txns[t], Fx(c)), h[t], d[t])
    OBVIOUS
  <2>1. Within(EffectOn(journal, txns[t], Fx(c)),
               (IF out(t) THEN txns[t].amount_delivered ELSE 0)
                 - (IF in(t) THEN OutCost(txns[t]) ELSE 0),
               DoubtIf(t, txns[t].currency_received = c /\ IsDual(txns[t])))
    BY EveryEffect DEF ExplainedInv
  <2> QED
    BY <2>1
<1>3. SumAccepted(LAMBDA row : IsDual(row) /\ row.currency_delivered = c,
                  LAMBDA row : row.amount_delivered) = SumOn(f, Txns)
  <2>1. \A t \in Txns : f[t] = IF /\ Created(t) /\ txns[t].approval = "accepted"
                                  /\ IsDual(txns[t]) /\ txns[t].currency_delivered = c
                               THEN txns[t].amount_delivered ELSE 0
    BY DEF Counted
  <2>2. f = [t \in Txns |-> IF /\ Created(t) /\ txns[t].approval = "accepted"
                               /\ IsDual(txns[t]) /\ txns[t].currency_delivered = c
                            THEN txns[t].amount_delivered ELSE 0]
    BY <2>1
  <2> HIDE DEF f
  <2> QED
    BY <2>2 DEF SumAccepted, SumFunction, SumOn
<1>4. SumAccepted(LAMBDA row : IsDual(row) /\ row.currency_received = c, OutCost) = SumOn(g, Txns)
  <2>1. \A t \in Txns : g[t] = IF /\ Created(t) /\ txns[t].approval = "accepted"
                                  /\ IsDual(txns[t]) /\ txns[t].currency_received = c
                               THEN OutCost(txns[t]) ELSE 0
    BY DEF Counted
  <2>2. g = [t \in Txns |-> IF /\ Created(t) /\ txns[t].approval = "accepted"
                               /\ IsDual(txns[t]) /\ txns[t].currency_received = c
                            THEN OutCost(txns[t]) ELSE 0]
    BY <2>1
  <2> HIDE DEF g
  <2> QED
    BY <2>2 DEF SumAccepted, SumFunction, SumOn
<1>5. Doubt(LAMBDA row : IsDual(row) /\ row.currency_received = c) = SumOn(d, Txns)
  <2>1. \A t \in Txns : d[t] = IF /\ Created(t) /\ txns[t].approval = "accepted"
                                  /\ (IsDual(txns[t]) /\ txns[t].currency_received = c) /\ Edited(t)
                               THEN Slack ELSE 0
    BY DEF Counted, DoubtIf
  <2>2. d = [t \in Txns |-> IF /\ Created(t) /\ txns[t].approval = "accepted"
                               /\ (IsDual(txns[t]) /\ txns[t].currency_received = c) /\ Edited(t)
                            THEN Slack ELSE 0]
    BY <2>1
  <2> HIDE DEF d
  <2> QED
    BY <2>2 DEF Doubt, SumFunction, SumOn
<1> HIDE DEF f, g, h, d
<1>6. SumOn(h, Txns) = SumOn(f, Txns) - SumOn(g, Txns)
  BY <1>1, SumMinus, FiniteAssumption
<1>7. Explains(Fx(c), SumOn(h, Txns), SumOn(d, Txns))
  BY <1>1, <1>2, BalanceNear
<1> QED
  BY <1>3, <1>4, <1>5, <1>6, <1>7

LEMMA ExplainedBalances == ExplainedInv => BalancesExplained
  BY MembersExplained, ShopExplained, ProfitExplained, BoxExplained, ClearingExplained
  DEF BalancesExplained, SumAccepted, Doubt, Shop, Profit, Fx

(* What a member owes, the cash of the shop, the fees, the boxes and the   *)
(* clearing accounts are what the accepted rows and the direct settlements *)
(* say, to the last decimal when no transaction was edited, and to one     *)
(* Unit for each edited one on the accounts of an unrounded sum (the       *)
(* postings of approve, pay, reverse and edit).                            *)
THEOREM BalancesExplainedSerial ==
    ASSUME NoManualReversal PROVE Spec /\ []Apart => []BalancesExplained
  BY EveryBalance, ExplainedBalances, PTL

(***************************************************************************)
(* Sums by key, and the two sides of a balance.                            *)
(***************************************************************************)
LEMMA SumByKeyOf ==
    ASSUME NEW f, NEW S, NEW K, NEW key, IsFiniteSet(S), IsFiniteSet(K),
           \A x \in S : f[x] \in Int /\ (f[x] # 0 => key[x] \in K),
           NEW g, \A k \in K : \A x \in S : g[k][x] = IF key[x] = k THEN f[x] ELSE 0,
           NEW q, \A k \in K : q[k] = SumOn(g[k], S)
    PROVE  SumOn(f, S) = SumOn(q, K)
<1> DEFINE C == {x \in S : f[x] # 0}
           to == [x \in C |-> key[x]]
           part(k) == [x \in C |-> IF to[x] = k THEN f[x] ELSE 0]
           p == [k \in K |-> SumOn(part(k), C)]
<1>1. /\ C \in SUBSET S /\ IsFiniteSet(C) /\ to \in [C -> K]
      /\ \A x \in C : f[x] \in Int
      /\ \A x \in S \ C : f[x] = 0
  BY FS_Subset
<1>2. SumOn(f, S) = SumOn(f, C)
  <2> HIDE DEF C
  <2> QED
    BY <1>1, SumWhere
<1>3. SumOn(f, C) = SumOn(p, K)
  <2> HIDE DEF C, to
  <2> QED
    BY <1>1, SumByKey
<1>4. ASSUME NEW k \in K
      PROVE  p[k] = q[k]
  <2>1. /\ \A x \in S : g[k][x] \in Int
        /\ \A x \in S \ C : g[k][x] = 0
    OBVIOUS
  <2>2. \A x \in C : g[k][x] = part(k)[x]
    OBVIOUS
  <2> HIDE DEF part, C
  <2>3. SumOn(g[k], S) = SumOn(g[k], C)
    BY <1>1, <2>1, SumWhere
  <2>4. SumOn(g[k], C) = SumOn(part(k), C)
    BY <1>1, <2>2, SumSame
  <2> QED
    BY <2>3, <2>4
<1> HIDE DEF p
<1>5. SumOn(p, K) = SumOn(q, K)
  BY <1>4, SumSame
<1> QED
  BY <1>2, <1>3, <1>5

(* What is above zero less what is below it.                               *)
LEMMA SumBySign ==
    ASSUME NEW f, NEW S, IsFiniteSet(S), \A x \in S : f[x] \in Int,
           NEW g, NEW h, NEW P, NEW N, P = {x \in S : f[x] > 0}, N = {x \in S : f[x] < 0},
           \A x \in P : g[x] = f[x], \A x \in N : h[x] = -f[x]
    PROVE  SumOn(f, S) = SumOn(g, P) - SumOn(h, N)
<1> DEFINE up   == [x \in S |-> IF f[x] > 0 THEN f[x] ELSE 0]
           down == [x \in S |-> IF f[x] < 0 THEN -f[x] ELSE 0]
<1>1. \A x \in S : up[x] \in Int /\ down[x] \in Int /\ f[x] = up[x] - down[x]
  OBVIOUS
<1>2. P \in SUBSET S /\ N \in SUBSET S /\ IsFiniteSet(P) /\ IsFiniteSet(N)
  BY FS_Subset
<1>3. /\ \A x \in S \ P : up[x] = 0
      /\ \A x \in S \ N : down[x] = 0
      /\ \A x \in P : g[x] = up[x]
      /\ \A x \in N : h[x] = down[x]
  OBVIOUS
<1> HIDE DEF up, down
<1>4. SumOn(f, S) = SumOn(up, S) - SumOn(down, S)
  BY <1>1, SumMinus
<1>5. SumOn(up, S) = SumOn(up, P) /\ SumOn(down, S) = SumOn(down, N)
  BY <1>1, <1>2, <1>3, SumWhere
<1>6. SumOn(g, P) = SumOn(up, P)
  BY <1>2, <1>3, SumSame
<1>7. SumOn(h, N) = SumOn(down, N)
  BY <1>2, <1>3, SumSame
<1> QED
  BY <1>4, <1>5, <1>6, <1>7

LEMMA AllLinesBalance ==
    ASSUME journal \in Seq(Entry), NEW a
    PROVE  /\ AllLines(a, "debit") \in Int /\ AllLines(a, "credit") \in Int
           /\ Balance(journal, a) = AllLines(a, "debit") - AllLines(a, "credit")
<1> DEFINE side(e, s) == [i \in DOMAIN journal[e].lines |->
                             IF journal[e].lines[i].account = a THEN journal[e].lines[i][s] ELSE 0]
           debits  == [e \in DOMAIN journal |-> SumFunction(side(e, "debit"))]
           credits == [e \in DOMAIN journal |-> SumFunction(side(e, "credit"))]
           nets    == [e \in DOMAIN journal |-> Net(journal[e].lines, a)]
<1>1. DOMAIN journal = 1 .. Len(journal) /\ Len(journal) \in Nat
  OBVIOUS
<1>2. IsFiniteSet(DOMAIN journal)
  BY <1>1, FS_Interval
<1>3. ASSUME NEW e \in DOMAIN journal
      PROVE  /\ debits[e] \in Int /\ credits[e] \in Int
             /\ nets[e] = debits[e] - credits[e]
  <2> DEFINE lines == journal[e].lines
             d == side(e, "debit")
             c == side(e, "credit")
             n == [i \in DOMAIN lines |->
                      IF lines[i].account = a THEN lines[i].debit - lines[i].credit ELSE 0]
  <2>1. lines \in Seq(Line)
    BY <1>1, EntryLines
  <2>2. /\ DOMAIN lines = 1 .. Len(lines) /\ Len(lines) \in Nat
        /\ \A i \in DOMAIN lines : lines[i] \in Line
    BY <2>1
  <2>3. IsFiniteSet(DOMAIN lines)
    BY <2>2, FS_Interval
  <2>4. \A i \in DOMAIN lines :
           /\ lines[i].debit \in Int /\ lines[i].credit \in Int
           /\ lines[i]["debit"] = lines[i].debit /\ lines[i]["credit"] = lines[i].credit
    BY <2>2 DEF Line
  <2>5. \A i \in DOMAIN lines : d[i] \in Int /\ c[i] \in Int /\ n[i] = d[i] - c[i]
    BY <2>4
  <2>6. DOMAIN d = DOMAIN lines /\ DOMAIN c = DOMAIN lines /\ DOMAIN n = DOMAIN lines
    OBVIOUS
  <2>7. /\ debits[e] = SumFunction(d) /\ credits[e] = SumFunction(c)
        /\ nets[e] = SumFunction(n)
    BY DEF Net
  <2> HIDE DEF d, c, n, lines
  <2>8. /\ SumFunction(d) = SumOn(d, DOMAIN lines) /\ SumFunction(c) = SumOn(c, DOMAIN lines)
        /\ SumFunction(n) = SumOn(n, DOMAIN lines)
    BY <2>6 DEF SumFunction, SumOn
  <2>9. SumOn(n, DOMAIN lines) = SumOn(d, DOMAIN lines) - SumOn(c, DOMAIN lines)
    BY <2>3, <2>5, SumMinus
  <2>10. SumOn(d, DOMAIN lines) \in Int /\ SumOn(c, DOMAIN lines) \in Int
    BY <2>3, <2>5, SumType
  <2> QED
    BY <2>7, <2>8, <2>9, <2>10
<1>4. /\ AllLines(a, "debit") = SumOn(debits, DOMAIN journal)
      /\ AllLines(a, "credit") = SumOn(credits, DOMAIN journal)
      /\ Balance(journal, a) = SumOn(nets, DOMAIN journal)
  BY DEF AllLines, Balance, SumFunction, SumOn
<1> HIDE DEF debits, credits, nets
<1> QED
  BY <1>2, <1>3, <1>4, SumMinus, SumType

(***************************************************************************)
(* Totals and counts over a set of transactions.                           *)
(***************************************************************************)
LEMMA TotalIs ==
    ASSUME NEW T \in SUBSET Txns, NEW field, \A t \in T : txns[t][field] \in Int,
           NEW f, \A t \in Txns : f[t] = IF t \in T THEN txns[t][field] ELSE 0
    PROVE  Total(T, field) = SumOn(f, Txns) /\ Total(T, field) \in Int
<1> DEFINE g == [t \in T |-> txns[t][field]]
<1>1. IsFiniteSet(Txns) /\ IsFiniteSet(T)
  BY FS_Subset, FiniteAssumption
<1>2. \A t \in T : g[t] = f[t] /\ g[t] \in Int
  OBVIOUS
<1>3. (\A t \in Txns : f[t] \in Int) /\ \A t \in Txns \ T : f[t] = 0
  OBVIOUS
<1>4. Total(T, field) = SumOn(g, T)
  BY DEF Total, SumFunction, SumOn
<1> HIDE DEF g
<1>5. SumOn(g, T) = SumOn(f, T)
  BY <1>1, <1>2, SumSame
<1>6. SumOn(f, Txns) = SumOn(f, T)
  BY <1>1, <1>3, SumWhere
<1>7. SumOn(g, T) \in Int
  BY <1>1, <1>2, SumType
<1> QED
  BY <1>4, <1>5, <1>6, <1>7

LEMMA CountIs ==
    ASSUME NEW T \in SUBSET Txns, NEW f, \A t \in Txns : f[t] = IF t \in T THEN 1 ELSE 0
    PROVE  Cardinality(T) = SumOn(f, Txns) /\ Cardinality(T) \in Int
<1>1. IsFiniteSet(Txns) /\ IsFiniteSet(T)
  BY FS_Subset, FiniteAssumption
<1>2. SumOn(f, Txns) = SumOn(f, T)
  BY <1>1, SumWhere
<1>3. SumOn(f, T) = Cardinality(T)
  BY <1>1, SumOfOnes
<1>4. Cardinality(T) \in Nat
  BY <1>1, FS_CardinalityType
<1> QED
  BY <1>2, <1>3, <1>4

LEMMA AcceptedSets ==
    ASSUME BInv, NEW users
    PROVE  /\ _accepted(users) \in SUBSET Txns
           /\ \A t \in Txns : t \in _accepted(users) <=> Counted(t) /\ txns[t].by \in users
           /\ \A t \in Txns : Counted(t) => t \in _accepted(Members)
           /\ \A t \in _accepted(users) :
                 /\ txns[t]["amount"] = txns[t].amount /\ txns[t].amount \in Int
                 /\ txns[t]["amount_delivered"] = txns[t].amount_delivered
                 /\ txns[t].amount_delivered \in Int
                 /\ txns[t]["fee_charged"] = txns[t].fee_charged /\ txns[t].fee_charged \in Int
                 /\ txns[t]["fee_cost"] = txns[t].fee_cost /\ txns[t].fee_cost \in Int
<1>1. /\ _accepted(users) \in SUBSET Txns
      /\ \A t \in Txns : t \in _accepted(users) <=> Counted(t) /\ txns[t].by \in users
      /\ \A t \in Txns : t \in _accepted(Members) <=> Counted(t) /\ txns[t].by \in Members
  BY DEF _accepted, _txns, Counted
<1>2. \A t \in Txns : Counted(t) =>
         /\ txns[t].amount \in Int /\ txns[t].amount_delivered \in Int
         /\ txns[t].fee_charged \in Int /\ txns[t].fee_cost \in Int
         /\ txns[t].by \in Members
  BY RowsNumbers DEF Counted
<1> QED
  BY <1>1, <1>2

(* Members whose balances are summed up by sign.                           *)
LEMMA OwedLessDue ==
    ASSUME ExplainedInv, NEW c,
           NEW bal, bal = [m \in Members |-> Balance(journal, SmallOffice(m, c))]
    PROVE  /\ summary_by_currency(Members, c).owed - summary_by_currency(Members, c).due
                 = SumOn(bal, Members)
           /\ summary_by_currency(Members, c).owed \in Int
           /\ summary_by_currency(Members, c).due \in Int
<1> DEFINE up   == {m \in Members : bal[m] > 0}
           down == {m \in Members : bal[m] < 0}
           f == [m \in up |-> Balance(journal, SmallOffice(m, c))]
           g == [m \in down |-> -Balance(journal, SmallOffice(m, c))]
<1>1. \A m \in Members : bal[m] \in Int /\ bal[m] = Balance(journal, SmallOffice(m, c))
  <2>1. journal \in Seq(Entry)
    BY DEF ExplainedInv, BInv, SInv, IInv, TypeOK
  <2> QED
    BY <2>1, BalanceType
<1>2. /\ {m \in Members : Balance(journal, SmallOffice(m, c)) > 0} = up
      /\ {m \in Members : Balance(journal, SmallOffice(m, c)) < 0} = down
  BY <1>1
<1>3. /\ summary_by_currency(Members, c).owed = SumOn(f, up)
      /\ summary_by_currency(Members, c).due = SumOn(g, down)
  <2>1. SumFunction(f) = SumOn(f, up) /\ SumFunction(g) = SumOn(g, down)
    BY DEF SumFunction, SumOn
  <2>2. /\ summary_by_currency(Members, c).owed = SumFunction(f)
        /\ summary_by_currency(Members, c).due = SumFunction(g)
    BY <1>2 DEF summary_by_currency
  <2> QED
    BY <2>1, <2>2
<1>4. /\ IsFiniteSet(up) /\ IsFiniteSet(down) /\ IsFiniteSet(Members)
      /\ \A m \in up : f[m] = bal[m] /\ f[m] \in Int
      /\ \A m \in down : g[m] = -bal[m] /\ g[m] \in Int
  BY <1>1, FS_Subset, FiniteAssumption
<1> HIDE DEF f, g
<1>5. SumOn(bal, Members) = SumOn(f, up) - SumOn(g, down)
  BY <1>1, <1>4, SumBySign
<1>6. SumOn(f, up) \in Int /\ SumOn(g, down) \in Int
  BY <1>4, SumType
<1> QED
  BY <1>3, <1>5, <1>6

(* The part of a row on the accounts of the members, member by member.     *)
LEMMA MembersSum ==
    ASSUME ExplainedInv, NEW c,
           NEW f, NEW d,
           \A t \in Txns :
              /\ f[t] = IF Counted(t) /\ txns[t].currency_received = c /\ txns[t].payment = "unpaid"
                        THEN Owed(txns[t]) ELSE 0
              /\ d[t] = DoubtIf(t, txns[t].currency_received = c),
           NEW bal, bal = [m \in Members |-> Balance(journal, SmallOffice(m, c))]
    PROVE  /\ Within(SumOn(bal, Members), SumOn(f, Txns) + DirectMembers(c), SumOn(d, Txns))
           /\ SumOn(bal, Members) \in Int /\ DirectMembers(c) \in Int
           /\ SumOn(f, Txns) \in Int /\ SumOn(d, Txns) \in Int
<1> DEFINE put(t, m) == EffectOn(journal, txns[t], SmallOffice(m, c))
           by     == [t \in Txns |-> txns[t].by]
           here(t) == Counted(t) /\ txns[t].currency_received = c
           total  == [t \in Txns |-> IF here(t) THEN put(t, by[t]) ELSE 0]
           of     == [m \in Members |-> [t \in Txns |-> put(t, m)]]
           open   == [m \in Members |-> SumOn(of[m], Txns)]
           direct == [m \in Members |-> Direct(SmallOffice(m, c))]
<1>1. BInv /\ IsFiniteSet(Txns) /\ IsFiniteSet(Members)
  BY FiniteAssumption DEF ExplainedInv
<1>2. \A t \in Txns : f[t] \in Int /\ d[t] \in Int
  BY <1>1, RowsNumbers, DoubtType DEF Counted
<1>3. \A t \in Txns : here(t) => by[t] \in Members
  BY <1>1, RowsNumbers DEF Counted
<1>4. ASSUME NEW t \in Txns, NEW m
      PROVE  /\ put(t, m) \in Int
             /\ Within(put(t, m), IF here(t) /\ by[t] = m /\ txns[t].payment = "unpaid"
                                  THEN Owed(txns[t]) ELSE 0,
                       DoubtIf(t, txns[t].currency_received = c /\ by[t] = m))
  BY <1>1, EveryEffect, EffectsType
<1>5. ASSUME NEW t \in Txns
      PROVE  total[t] \in Int /\ Within(total[t], f[t], d[t])
  <2>1. CASE here(t)
    <3>1. total[t] = put(t, by[t])
      BY <2>1
    <3>2. /\ put(t, by[t]) \in Int
          /\ Within(put(t, by[t]), IF txns[t].payment = "unpaid" THEN Owed(txns[t]) ELSE 0,
                    DoubtIf(t, txns[t].currency_received = c))
      BY <1>4, <2>1
    <3> QED
      BY <2>1, <3>1, <3>2
  <2>2. CASE ~here(t)
    <3>1. total[t] = 0 /\ f[t] = 0 /\ d[t] = 0
      BY <2>2 DEF DoubtIf
    <3> QED
      BY <3>1 DEF Within
  <2> QED
    BY <2>1, <2>2
<1>6. ASSUME NEW m \in Members, NEW t \in Txns
      PROVE  of[m][t] = IF by[t] = m THEN total[t] ELSE 0
  <2>1. of[m][t] = put(t, m)
    OBVIOUS
  <2>2. CASE here(t) /\ by[t] = m
    BY <2>1, <2>2
  <2>3. CASE ~(here(t) /\ by[t] = m)
    <3>1. DoubtIf(t, txns[t].currency_received = c /\ by[t] = m) = 0
      BY <2>3 DEF DoubtIf
    <3>2. put(t, m) \in Int /\ Within(put(t, m), 0, 0)
      BY <1>4, <2>3, <3>1
    <3>3. put(t, m) = 0
      <4> HIDE DEF put
      <4> QED
        BY <3>2 DEF Within
    <3>4. by[t] = m => total[t] = 0
      BY <2>3
    <3> QED
      BY <2>1, <3>3, <3>4
  <2> QED
    BY <2>2, <2>3
<1>7. \A t \in Txns : total[t] \in Int /\ (total[t] # 0 => by[t] \in Members)
  BY <1>3, <1>5
<1>8. ASSUME NEW m \in Members
      PROVE  bal[m] = open[m] + direct[m] /\ open[m] \in Int /\ direct[m] \in Int
  <2>1. \A t \in Txns : of[m][t] = EffectOn(journal, txns[t], SmallOffice(m, c)) /\ of[m][t] \in Int
    BY <1>4
  <2>2. /\ bal[m] = Balance(journal, SmallOffice(m, c)) /\ direct[m] = Direct(SmallOffice(m, c))
        /\ open[m] = SumOn(of[m], Txns)
    OBVIOUS
  <2> HIDE DEF of, open, direct, put
  <2>3. /\ Balance(journal, SmallOffice(m, c)) = SumOn(of[m], Txns) + Direct(SmallOffice(m, c))
        /\ Direct(SmallOffice(m, c)) \in Int
    BY <2>1, BalanceIs
  <2>4. SumOn(of[m], Txns) \in Int
    BY <1>1, <2>1, SumType
  <2> QED
    BY <2>2, <2>3, <2>4
<1>9. \A m \in Members : open[m] = SumOn(of[m], Txns)
  OBVIOUS
<1>10. DirectMembers(c) = SumOn(direct, Members)
  BY DEF DirectMembers, SumFunction, SumOn
<1> HIDE DEF put, by, here, total, of, open, direct
<1>11. SumOn(total, Txns) = SumOn(open, Members)
  BY <1>1, <1>6, <1>7, <1>9, SumByKeyOf
<1>12. SumOn(bal, Members) = SumOn(open, Members) + SumOn(direct, Members)
  BY <1>1, <1>8, SumPlus
<1>13. Within(SumOn(total, Txns), SumOn(f, Txns), SumOn(d, Txns))
  BY <1>1, <1>2, <1>5, SumWithin
<1>14. SumOn(total, Txns) \in Int /\ SumOn(f, Txns) \in Int /\ SumOn(d, Txns) \in Int
  BY <1>1, <1>2, <1>5, SumType
<1>15. SumOn(direct, Members) \in Int
  BY <1>1, <1>8, SumType
<1> QED
  BY <1>10, <1>11, <1>12, <1>13, <1>14, <1>15 DEF Within

LEMMA OwedOrPaid ==
    ASSUME ExplainedInv, NEW c \in Currencies
    PROVE  Within(activity(Members, c).total + profits(Members, c).fee_charged,
                  summary_by_currency(Members, c).owed - summary_by_currency(Members, c).due
                    - DirectMembers(c)
                    + daily_close(c).cash - Direct(TenantAccount("shop_cash", c)),
                  Doubt(LAMBDA row : row.currency_received = c))
<1> DEFINE here(t) == Counted(t) /\ txns[t].currency_received = c
           T      == Received(_accepted(Members), c)
           amount == [t \in Txns |-> IF t \in T THEN txns[t].amount ELSE 0]
           fee    == [t \in Txns |-> IF t \in T THEN txns[t].fee_charged ELSE 0]
           total  == [t \in Txns |-> IF here(t) THEN Owed(txns[t]) ELSE 0]
           paid   == [t \in Txns |-> IF here(t) /\ txns[t].payment = "paid"
                                     THEN Owed(txns[t]) ELSE 0]
           unpaid == [t \in Txns |-> IF here(t) /\ txns[t].payment = "unpaid"
                                     THEN Owed(txns[t]) ELSE 0]
           doubt  == [t \in Txns |-> DoubtIf(t, txns[t].currency_received = c)]
           bal    == [m \in Members |-> Balance(journal, SmallOffice(m, c))]
<1>1. BInv /\ journal \in Seq(Entry)
  BY DEF ExplainedInv, BInv, SInv, IInv, TypeOK
<1>2. T \in SUBSET Txns /\ \A t \in Txns : t \in T <=> here(t)
  BY <1>1, AcceptedSets DEF Received
<1>3. \A t \in T : /\ txns[t]["amount"] = txns[t].amount /\ txns[t].amount \in Int
                   /\ txns[t]["fee_charged"] = txns[t].fee_charged /\ txns[t].fee_charged \in Int
  BY <1>1, AcceptedSets DEF Received
<1>4. \A t \in Txns : here(t) => Owed(txns[t]) \in Int /\ Owed(txns[t]) = txns[t].amount + txns[t].fee_charged
  BY <1>1, RowsNumbers DEF Counted, Owed
<1>5. \A t \in Txns : here(t) => txns[t].payment \in {"paid", "unpaid"}
  BY <1>1 DEF Counted, BInv, SInv, IInv, RowFits, Row
<1>6. /\ activity(Members, c).total = Total(T, "amount")
      /\ profits(Members, c).fee_charged = Total(T, "fee_charged")
  BY DEF activity, profits
<1>7. Total(T, "amount") = SumOn(amount, Txns) /\ Total(T, "amount") \in Int
  <2>1. \A t \in T : txns[t]["amount"] \in Int
    BY <1>3
  <2>2. \A t \in Txns : amount[t] = IF t \in T THEN txns[t]["amount"] ELSE 0
    BY <1>3
  <2> HIDE DEF amount, T
  <2> QED
    BY <1>2, <2>1, <2>2, TotalIs
<1>8. Total(T, "fee_charged") = SumOn(fee, Txns) /\ Total(T, "fee_charged") \in Int
  <2>1. \A t \in T : txns[t]["fee_charged"] \in Int
    BY <1>3
  <2>2. \A t \in Txns : fee[t] = IF t \in T THEN txns[t]["fee_charged"] ELSE 0
    BY <1>3
  <2> HIDE DEF fee, T
  <2> QED
    BY <1>2, <2>1, <2>2, TotalIs
<1>9. \A t \in Txns : /\ amount[t] \in Int /\ fee[t] \in Int /\ total[t] = amount[t] + fee[t]
                      /\ paid[t] \in Int /\ unpaid[t] \in Int /\ total[t] = paid[t] + unpaid[t]
  <2> SUFFICES ASSUME NEW t \in Txns
               PROVE  /\ amount[t] \in Int /\ fee[t] \in Int /\ total[t] = amount[t] + fee[t]
                      /\ paid[t] \in Int /\ unpaid[t] \in Int /\ total[t] = paid[t] + unpaid[t]
    OBVIOUS
  <2>1. CASE here(t)
    <3>1. /\ amount[t] = txns[t].amount /\ fee[t] = txns[t].fee_charged
          /\ total[t] = Owed(txns[t])
          /\ txns[t].amount \in Int /\ txns[t].fee_charged \in Int
      BY <1>2, <1>3, <2>1
    <3>2. /\ paid[t] = IF txns[t].payment = "paid" THEN Owed(txns[t]) ELSE 0
          /\ unpaid[t] = IF txns[t].payment = "unpaid" THEN Owed(txns[t]) ELSE 0
      BY <2>1
    <3> HIDE DEF amount, fee, total, paid, unpaid, here
    <3> QED
      BY <1>4, <1>5, <2>1, <3>1, <3>2
  <2>2. CASE ~here(t)
    <3>1. /\ amount[t] = 0 /\ fee[t] = 0 /\ total[t] = 0 /\ paid[t] = 0 /\ unpaid[t] = 0
      BY <1>2, <2>2
    <3> QED
      BY <3>1
  <2> QED
    BY <2>1, <2>2
<1>10. SumOn(paid, Txns) = Balance(journal, Shop(c)) - Direct(Shop(c)) /\ Direct(Shop(c)) \in Int
  <2>1. \A t \in Txns : paid[t] = EffectOn(journal, txns[t], Shop(c))
    BY <1>1, EveryEffect
  <2>2. \A t \in Txns : paid[t] \in Int
    BY <1>9
  <2> HIDE DEF paid
  <2>3. /\ Balance(journal, Shop(c)) = SumOn(paid, Txns) + Direct(Shop(c))
        /\ Balance(journal, Shop(c)) \in Int /\ Direct(Shop(c)) \in Int
    BY <2>1, BalanceIs
  <2>4. SumOn(paid, Txns) \in Int
    BY <2>2, SumType, FiniteAssumption
  <2> QED
    BY <2>3, <2>4
<1>11. /\ daily_close(c).cash = Balance(journal, Shop(c))
       /\ daily_close(c).cash \in Int
  <2>1. daily_close(c).cash = AllLines(Shop(c), "debit") - AllLines(Shop(c), "credit")
    BY DEF daily_close, shop_cash_movement, Shop
  <2> QED
    BY <1>1, <2>1, AllLinesBalance
<1>12. /\ SumOn(total, Txns) = SumOn(amount, Txns) + SumOn(fee, Txns)
       /\ SumOn(total, Txns) = SumOn(paid, Txns) + SumOn(unpaid, Txns)
  <2> HIDE DEF total, amount, fee, paid, unpaid
  <2> QED
    BY <1>9, SumPlus, FiniteAssumption
<1>13. Shop(c) = TenantAccount("shop_cash", c)
  BY DEF Shop
<1>14. bal = [m \in Members |-> Balance(journal, SmallOffice(m, c))]
  OBVIOUS
<1>15. \A t \in Txns :
          /\ unpaid[t] = IF Counted(t) /\ txns[t].currency_received = c /\ txns[t].payment = "unpaid"
                         THEN Owed(txns[t]) ELSE 0
          /\ doubt[t] = DoubtIf(t, txns[t].currency_received = c)
  OBVIOUS
<1>16. Doubt(LAMBDA row : row.currency_received = c) = SumOn(doubt, Txns)
  BY DEF Doubt, SumFunction, SumOn, Counted, DoubtIf
<1> HIDE DEF total, amount, fee, paid, unpaid, doubt, bal, T
<1>17. /\ summary_by_currency(Members, c).owed - summary_by_currency(Members, c).due
             = SumOn(bal, Members)
       /\ summary_by_currency(Members, c).owed \in Int
       /\ summary_by_currency(Members, c).due \in Int
  BY <1>14, OwedLessDue
<1>18. SumOn(paid, Txns) \in Int
  BY <1>9, SumType, FiniteAssumption
<1>19. /\ Within(SumOn(bal, Members), SumOn(unpaid, Txns) + DirectMembers(c), SumOn(doubt, Txns))
       /\ SumOn(bal, Members) \in Int /\ DirectMembers(c) \in Int
       /\ SumOn(unpaid, Txns) \in Int /\ SumOn(doubt, Txns) \in Int
  BY <1>14, <1>15, MembersSum
<1> HIDE DEF Doubt, DirectMembers
<1> DEFINE approved == activity(Members, c).total + profits(Members, c).fee_charged
           owing    == summary_by_currency(Members, c).owed - summary_by_currency(Members, c).due
           cash     == daily_close(c).cash
<1>20. approved = SumOn(paid, Txns) + SumOn(unpaid, Txns)
  BY <1>6, <1>7, <1>8, <1>12
<1>21. owing = SumOn(bal, Members)
  BY <1>17
<1>22. cash = SumOn(paid, Txns) + Direct(Shop(c))
  BY <1>10, <1>11, <1>18
<1> HIDE DEF approved, owing, cash
<1>23. Within(approved, owing - DirectMembers(c) + cash - Direct(Shop(c)), SumOn(doubt, Txns))
  BY <1>10, <1>18, <1>19, <1>20, <1>21, <1>22 DEF Within
<1> QED
  BY <1>13, <1>16, <1>23 DEF approved, owing, cash

LEMMA BoxesSum ==
    ASSUME ExplainedInv, NEW b \in Boxes, NEW c \in Currencies
    PROVE  LET T == {t \in Received(_accepted(Members), c) : txns[t].box = b /\ ~IsDual(txns[t])}
           IN  Within(box_summary(b, c).balance,
                      Direct(BoxAccount(b, c)) - box_summary(b, c).total - Total(T, "fee_cost"),
                      Doubt(LAMBDA row : row.currency_received = c /\ row.box = b /\ ~IsDual(row)))
<1> DEFINE T    == {t \in Received(_accepted(Members), c) : txns[t].box = b /\ ~IsDual(txns[t])}
           U    == {t \in _accepted(Members) : txns[t].box = b /\ txns[t].currency_delivered = c}
           sent == [t \in Txns |-> IF t \in U THEN txns[t]["amount_delivered"] ELSE 0]
           cost == [t \in Txns |-> IF t \in T THEN txns[t]["fee_cost"] ELSE 0]
           lost == [t \in Txns |-> sent[t] + cost[t]]
           kept(t) == txns[t].currency_received = c /\ txns[t].box = b /\ ~IsDual(txns[t])
           doubt == [t \in Txns |-> DoubtIf(t, kept(t))]
           a    == BoxAccount(b, c)
<1>1. BInv
  BY DEF ExplainedInv
<1>2. /\ T \in SUBSET Txns /\ U \in SUBSET Txns
      /\ \A t \in Txns : t \in U <=> Counted(t) /\ txns[t].box = b /\ txns[t].currency_delivered = c
      /\ \A t \in Txns : t \in T <=> /\ Counted(t) /\ txns[t].box = b
                                     /\ txns[t].currency_received = c /\ ~IsDual(txns[t])
  BY <1>1, AcceptedSets DEF Received
<1>3. /\ \A t \in U : txns[t]["amount_delivered"] = txns[t].amount_delivered
                      /\ txns[t].amount_delivered \in Int
      /\ \A t \in T : txns[t]["fee_cost"] = txns[t].fee_cost /\ txns[t].fee_cost \in Int
  BY <1>1, AcceptedSets DEF Received
<1>4. \A t \in Txns : Counted(t) => /\ ~IsDual(txns[t]) => txns[t].amount_delivered = txns[t].amount
                                    /\ OutCost(txns[t]) = txns[t].amount + txns[t].fee_cost
                                    /\ txns[t].amount \in Int /\ txns[t].fee_cost \in Int
                                    /\ txns[t].amount_delivered \in Int
  BY <1>1, RowsNumbers DEF Counted, BInv, Booked, Figures, OutCost
<1>5. ASSUME NEW t \in Txns
      PROVE  /\ sent[t] \in Int /\ cost[t] \in Int /\ lost[t] = sent[t] + cost[t]
             /\ lost[t] \in Int /\ doubt[t] \in Int
             /\ Within(EffectOn(journal, txns[t], a), -lost[t], doubt[t])
  <2>1. Within(EffectOn(journal, txns[t], a),
               IF Counted(t) /\ txns[t].currency_delivered = c /\ txns[t].box = b
               THEN -(IF IsDual(txns[t]) THEN txns[t].amount_delivered ELSE OutCost(txns[t])) ELSE 0,
               DoubtIf(t, txns[t].currency_delivered = c /\ txns[t].box = b /\ ~IsDual(txns[t])))
    BY <1>1, EveryEffect
  <2>2. /\ sent[t] = IF t \in U THEN txns[t].amount_delivered ELSE 0
        /\ cost[t] = IF t \in T THEN txns[t].fee_cost ELSE 0
        /\ lost[t] = sent[t] + cost[t]
    BY <1>3
  <2>3. t \in T <=> t \in U /\ ~IsDual(txns[t])
    BY <1>2 DEF IsDual
  <2>4. t \in U <=> Counted(t) /\ txns[t].currency_delivered = c /\ txns[t].box = b
    BY <1>2
  <2>5. /\ doubt[t] = DoubtIf(t, txns[t].currency_delivered = c /\ txns[t].box = b
                                 /\ ~IsDual(txns[t]))
        /\ doubt[t] \in Int
    <3>1. kept(t) <=> txns[t].currency_delivered = c /\ txns[t].box = b /\ ~IsDual(txns[t])
      BY DEF IsDual
    <3>2. doubt[t] = DoubtIf(t, kept(t)) /\ doubt[t] \in Int
      BY DoubtType
    <3> QED
      BY <3>1, <3>2 DEF DoubtIf
  <2> HIDE DEF sent, cost, lost, T, U, doubt, a
  <2>6. sent[t] \in Int /\ cost[t] \in Int
    BY <1>4, <2>2, <2>3, <2>4
  <2>7. -lost[t] = IF Counted(t) /\ txns[t].currency_delivered = c /\ txns[t].box = b
                   THEN -(IF IsDual(txns[t]) THEN txns[t].amount_delivered ELSE OutCost(txns[t]))
                   ELSE 0
    BY <1>4, <2>2, <2>3, <2>4
  <2> QED
    BY <2>1, <2>2, <2>5, <2>6, <2>7
<1>6. box_summary(b, c).total = Total(U, "amount_delivered") /\ box_summary(b, c).balance = Balance(journal, a)
  BY DEF box_summary
<1>7. /\ \A t \in Txns : sent[t] = IF t \in U THEN txns[t]["amount_delivered"] ELSE 0
      /\ \A t \in Txns : cost[t] = IF t \in T THEN txns[t]["fee_cost"] ELSE 0
  OBVIOUS
<1>8. Doubt(LAMBDA row : row.currency_received = c /\ row.box = b /\ ~IsDual(row)) = SumOn(doubt, Txns)
  BY DEF Doubt, SumFunction, SumOn, Counted, DoubtIf
<1> HIDE DEF T, U, sent, cost, lost, doubt
<1>9. /\ Explains(a, -SumOn(lost, Txns), SumOn(doubt, Txns))
      /\ Balance(journal, a) \in Int /\ Direct(a) \in Int
  <2> HIDE DEF a
  <2> QED
    BY <1>5, CreditExplained
<1>10. SumOn(lost, Txns) = SumOn(sent, Txns) + SumOn(cost, Txns)
  BY <1>5, SumPlus, FiniteAssumption
<1>11. \A t \in U : txns[t]["amount_delivered"] \in Int
  BY <1>3
<1>12. \A t \in T : txns[t]["fee_cost"] \in Int
  BY <1>3
<1>13. Total(U, "amount_delivered") = SumOn(sent, Txns) /\ Total(U, "amount_delivered") \in Int
  BY <1>2, <1>7, <1>11, TotalIs
<1>14. Total(T, "fee_cost") = SumOn(cost, Txns) /\ Total(T, "fee_cost") \in Int
  BY <1>2, <1>7, <1>12, TotalIs
<1>15. Within(Balance(journal, a),
              Direct(a) - Total(U, "amount_delivered") - Total(T, "fee_cost"), SumOn(doubt, Txns))
  <2> HIDE DEF a
  <2>1. -SumOn(lost, Txns) + Direct(a)
           = Direct(a) - Total(U, "amount_delivered") - Total(T, "fee_cost")
    BY <1>9, <1>10, <1>13, <1>14
  <2> QED
    BY <1>9, <2>1 DEF Explains
<1> QED
  BY <1>6, <1>8, <1>15 DEF T

(***************************************************************************)
(* The reports by member.                                                  *)
(***************************************************************************)
LEMMA ProfitsAddUp ==
    ASSUME BInv, NEW c \in Currencies
    PROVE  SumFunction([m \in Members |-> profits_by_member(m, c).profit]) = daily_close(c).profit
<1> DEFINE T(users) == Received(_accepted(users), c)
           fee(users)  == [t \in Txns |-> IF t \in T(users) THEN txns[t]["fee_charged"] ELSE 0]
           cost(users) == [t \in Txns |-> IF t \in T(users) THEN txns[t]["fee_cost"] ELSE 0]
           left(users) == [t \in Txns |-> fee(users)[t] - cost(users)[t]]
           by  == [t \in Txns |-> txns[t].by]
           all == left(Members)
           of  == [m \in Members |-> left({m})]
           q   == [m \in Members |-> profits_by_member(m, c).profit]
<1>1. ASSUME NEW users
      PROVE  /\ T(users) \in SUBSET Txns
             /\ \A t \in Txns : t \in T(users) <=>
                   Counted(t) /\ txns[t].currency_received = c /\ txns[t].by \in users
             /\ \A t \in T(users) :
                   txns[t]["fee_charged"] \in Int /\ txns[t]["fee_cost"] \in Int
  BY AcceptedSets DEF Received
<1>2. ASSUME NEW users
      PROVE  /\ \A t \in Txns : left(users)[t] \in Int
             /\ \A t \in Txns : left(users)[t] =
                   IF t \in T(users) THEN txns[t]["fee_charged"] - txns[t]["fee_cost"] ELSE 0
             /\ profits(users, c).profit = SumOn(left(users), Txns)
  <2> DEFINE f == fee(users)
             g == cost(users)
             h == left(users)
             U == T(users)
  <2>1. /\ \A t \in Txns : f[t] = IF t \in U THEN txns[t]["fee_charged"] ELSE 0
        /\ \A t \in Txns : g[t] = IF t \in U THEN txns[t]["fee_cost"] ELSE 0
        /\ \A t \in Txns : h[t] = f[t] - g[t]
    OBVIOUS
  <2>2. profits(users, c).profit = Total(U, "fee_charged") - Total(U, "fee_cost")
    BY DEF profits
  <2>3. /\ U \in SUBSET Txns
        /\ \A t \in U : txns[t]["fee_charged"] \in Int
        /\ \A t \in U : txns[t]["fee_cost"] \in Int
    BY <1>1
  <2> HIDE DEF f, g, h, U
  <2>4. \A t \in Txns : f[t] \in Int /\ g[t] \in Int
    BY <2>1, <2>3
  <2>5. Total(U, "fee_charged") = SumOn(f, Txns)
    BY <2>1, <2>3, TotalIs
  <2>6. Total(U, "fee_cost") = SumOn(g, Txns)
    BY <2>1, <2>3, TotalIs
  <2>7. SumOn(h, Txns) = SumOn(f, Txns) - SumOn(g, Txns)
    BY <2>1, <2>4, SumMinus, FiniteAssumption
  <2>8. /\ \A t \in Txns : h[t] \in Int
        /\ \A t \in Txns : h[t] =
              IF t \in U THEN txns[t]["fee_charged"] - txns[t]["fee_cost"] ELSE 0
    BY <2>1, <2>3, <2>4
  <2> QED
    BY <2>2, <2>5, <2>6, <2>7, <2>8 DEF h, U
<1>3. daily_close(c).profit = SumOn(all, Txns)
  BY <1>2 DEF daily_close
<1>4. \A m \in Members : q[m] = SumOn(of[m], Txns)
  <2> SUFFICES ASSUME NEW m \in Members PROVE q[m] = SumOn(of[m], Txns)
    OBVIOUS
  <2>1. q[m] = profits({m}, c).profit /\ of[m] = left({m})
    BY DEF profits_by_member
  <2> QED
    BY <1>2, <2>1
<1>5. \A t \in Txns : all[t] \in Int /\ (all[t] # 0 => by[t] \in Members)
  BY <1>1, <1>2
<1>6. \A m \in Members : \A t \in Txns : of[m][t] = IF by[t] = m THEN all[t] ELSE 0
  <2> SUFFICES ASSUME NEW m \in Members, NEW t \in Txns
               PROVE  of[m][t] = IF by[t] = m THEN all[t] ELSE 0
    OBVIOUS
  <2> DEFINE x == txns[t]["fee_charged"] - txns[t]["fee_cost"]
  <2>1. of[m][t] = left({m})[t]
    OBVIOUS
  <2>2. left({m})[t] = IF t \in T({m}) THEN x ELSE 0
    BY <1>2
  <2>3. all[t] = IF t \in T(Members) THEN x ELSE 0
    BY <1>2
  <2>4. t \in T({m}) <=> t \in T(Members) /\ by[t] = m
    BY <1>1
  <2> HIDE DEF of, left, all, T, by, x
  <2> QED
    BY <2>1, <2>2, <2>3, <2>4
<1>7. SumFunction(q) = SumOn(q, Members)
  BY DEF SumFunction, SumOn
<1>8. IsFiniteSet(Txns) /\ IsFiniteSet(Members)
  BY FiniteAssumption
<1> HIDE DEF all, of, by, q
<1>9. SumOn(all, Txns) = SumOn(q, Members)
  BY <1>4, <1>5, <1>6, <1>8, SumByKeyOf
<1> QED
  BY <1>3, <1>7, <1>9 DEF q

(* What is counted once per key is counted once.                           *)
LEMMA CountByKey ==
    ASSUME NEW T \in SUBSET Txns, NEW K, IsFiniteSet(K), NEW key, \A t \in T : key[t] \in K,
           NEW part, \A k \in K : part[k] = {t \in T : key[t] = k},
           NEW q, \A k \in K : q[k] = Cardinality(part[k])
    PROVE  Cardinality(T) = SumOn(q, K)
<1> DEFINE one == [t \in Txns |-> IF t \in T THEN 1 ELSE 0]
           g   == [k \in K |-> [t \in Txns |-> IF t \in part[k] THEN 1 ELSE 0]]
<1>1. \A t \in Txns : one[t] = IF t \in T THEN 1 ELSE 0
  OBVIOUS
<1>2. \A t \in Txns : one[t] \in Int /\ (one[t] # 0 => key[t] \in K)
  OBVIOUS
<1>3. \A k \in K : \A t \in Txns : g[k][t] = IF key[t] = k THEN one[t] ELSE 0
  OBVIOUS
<1>4. \A k \in K : part[k] \in SUBSET Txns /\ \A t \in Txns : g[k][t] = IF t \in part[k] THEN 1 ELSE 0
  OBVIOUS
<1> HIDE DEF one, g
<1>5. Cardinality(T) = SumOn(one, Txns)
  BY <1>1, CountIs
<1>6. \A k \in K : q[k] = SumOn(g[k], Txns)
  BY <1>4, CountIs
<1>7. IsFiniteSet(Txns)
  BY FiniteAssumption
<1> QED
  BY <1>2, <1>3, <1>5, <1>6, <1>7, SumByKeyOf

LEMMA TotalByKey ==
    ASSUME NEW T \in SUBSET Txns, NEW field, \A t \in T : txns[t][field] \in Int,
           NEW K, IsFiniteSet(K), NEW key, \A t \in T : key[t] \in K,
           NEW part, \A k \in K : part[k] = {t \in T : key[t] = k},
           NEW q, \A k \in K : q[k] = Total(part[k], field)
    PROVE  Total(T, field) = SumOn(q, K)
<1> DEFINE all == [t \in Txns |-> IF t \in T THEN txns[t][field] ELSE 0]
           g   == [k \in K |-> [t \in Txns |-> IF t \in part[k] THEN txns[t][field] ELSE 0]]
<1>1. \A t \in Txns : all[t] = IF t \in T THEN txns[t][field] ELSE 0
  OBVIOUS
<1>2. \A t \in Txns : all[t] \in Int /\ (all[t] # 0 => key[t] \in K)
  OBVIOUS
<1>3. \A k \in K : \A t \in Txns : g[k][t] = IF key[t] = k THEN all[t] ELSE 0
  OBVIOUS
<1>4. \A k \in K : /\ part[k] \in SUBSET Txns /\ \A t \in part[k] : txns[t][field] \in Int
                   /\ \A t \in Txns : g[k][t] = IF t \in part[k] THEN txns[t][field] ELSE 0
  OBVIOUS
<1> HIDE DEF all, g
<1>5. Total(T, field) = SumOn(all, Txns)
  BY <1>1, TotalIs
<1>6. \A k \in K : q[k] = SumOn(g[k], Txns)
  BY <1>4, TotalIs
<1>7. IsFiniteSet(Txns)
  BY FiniteAssumption
<1> QED
  BY <1>2, <1>3, <1>5, <1>6, <1>7, SumByKeyOf

LEMMA TotalsAddUp ==
    ASSUME BInv
    PROVE  /\ SumFunction([m \in Members |-> top_members(m).total])
                = SumFunction([c \in Currencies |-> activity(Members, c).total])
           /\ SumFunction([m \in Members |-> top_members(m).count])
                = by_status(Members, "approval", "accepted")
<1> DEFINE T    == _accepted(Members)
           by   == [t \in Txns |-> txns[t].by]
           cur  == [t \in Txns |-> txns[t].currency_received]
           ofm  == [m \in Members |-> _accepted({m})]
           ofc  == [c \in Currencies |-> Received(T, c)]
           summ == [m \in Members |-> top_members(m).total]
           sumc == [c \in Currencies |-> activity(Members, c).total]
           cnt  == [m \in Members |-> top_members(m).count]
<1>1. T \in SUBSET Txns /\ \A t \in T : txns[t]["amount"] \in Int
  BY AcceptedSets
<1>2. \A t \in T : by[t] \in Members /\ cur[t] \in Currencies
  BY <1>1, AcceptedSets, RowsNumbers DEF Counted
<1>3. \A m \in Members : ofm[m] = {t \in T : by[t] = m}
  <2> SUFFICES ASSUME NEW m \in Members
               PROVE  _accepted({m}) = {t \in T : by[t] = m}
    OBVIOUS
  <2>1. /\ _accepted({m}) \in SUBSET Txns
        /\ \A t \in Txns : t \in _accepted({m}) <=> Counted(t) /\ txns[t].by = m
        /\ \A t \in Txns : t \in T <=> Counted(t) /\ txns[t].by \in Members
    BY AcceptedSets
  <2> QED
    BY <1>1, <2>1
<1>4. \A c \in Currencies : ofc[c] = {t \in T : cur[t] = c}
  BY <1>1 DEF Received
<1>5. \A m \in Members : summ[m] = Total(ofm[m], "amount") /\ cnt[m] = Cardinality(ofm[m])
  BY DEF top_members, member_summary
<1>6. \A c \in Currencies : sumc[c] = Total(ofc[c], "amount")
  BY DEF activity
<1>7. by_status(Members, "approval", "accepted") = Cardinality(T)
  <2>1. \A t \in _txns(Members) : txns[t]["approval"] = txns[t].approval
    OBVIOUS
  <2>2. {t \in _txns(Members) : txns[t]["approval"] = "accepted"} = T
    BY <2>1 DEF _accepted
  <2> QED
    BY <2>2 DEF by_status
<1>8. /\ SumFunction(summ) = SumOn(summ, Members) /\ SumFunction(cnt) = SumOn(cnt, Members)
      /\ SumFunction(sumc) = SumOn(sumc, Currencies)
  BY DEF SumFunction, SumOn
<1>9. IsFiniteSet(Members) /\ IsFiniteSet(Currencies)
  BY FiniteAssumption
<1> HIDE DEF T, by, cur, ofm, ofc, summ, sumc, cnt
<1>10. Total(T, "amount") = SumOn(summ, Members)
  BY <1>1, <1>2, <1>3, <1>5, <1>9, TotalByKey
<1>11. Total(T, "amount") = SumOn(sumc, Currencies)
  BY <1>1, <1>2, <1>4, <1>6, <1>9, TotalByKey
<1>12. Cardinality(T) = SumOn(cnt, Members)
  BY <1>1, <1>2, <1>3, <1>5, <1>9, CountByKey
<1> QED
  BY <1>7, <1>8, <1>10, <1>11, <1>12 DEF summ, sumc, cnt

(* The rates a member was given, by pair of currencies.                    *)
LEMMA RatesAddUp ==
    ASSUME BInv, NEW m \in Members
    PROVE  SumFunction([cd \in Currencies \X Currencies |->
                           exchange_rates({m}, cd[1], cd[2]).count])
              = Cardinality({t \in _accepted({m}) : IsDual(txns[t])})
<1> DEFINE T    == {t \in _accepted({m}) : IsDual(txns[t])}
           K    == Currencies \X Currencies
           key  == [t \in Txns |-> <<txns[t].currency_received, txns[t].currency_delivered>>]
           part == [cd \in K |-> {t \in Received(_accepted({m}), cd[1]) :
                                     /\ txns[t].currency_delivered = cd[2]
                                     /\ txns[t].exchange_rate # NoRate}]
           q    == [cd \in K |-> exchange_rates({m}, cd[1], cd[2]).count]
<1>1. /\ _accepted({m}) \in SUBSET Txns
      /\ \A t \in _accepted({m}) :
            /\ Counted(t)
            /\ txns[t].currency_received \in Currencies /\ txns[t].currency_delivered \in Currencies
            /\ txns[t].exchange_rate # NoRate <=> IsDual(txns[t])
  <2>1. /\ _accepted({m}) \in SUBSET Txns
        /\ \A t \in _accepted({m}) : Counted(t)
    BY AcceptedSets
  <2>2. \A t \in Txns : Counted(t) =>
           /\ txns[t].currency_received \in Currencies /\ txns[t].currency_delivered \in Currencies
           /\ txns[t].exchange_rate # NoRate <=> IsDual(txns[t])
    BY RowsNumbers DEF Counted, BInv, Booked, Figures, NoRate
  <2> QED
    BY <2>1, <2>2
<1>2. T \in SUBSET Txns /\ \A t \in T : key[t] \in K
  BY <1>1
<1>3. \A cd \in K : part[cd] = {t \in T : key[t] = cd}
  <2> SUFFICES ASSUME NEW cd \in K PROVE part[cd] = {t \in T : key[t] = cd}
    OBVIOUS
  <2>0. PICK c \in Currencies, d \in Currencies : cd = <<c, d>>
    OBVIOUS
  <2>1. cd \in K /\ cd[1] = c /\ cd[2] = d
    BY <2>0
  <2>2. part[cd] = {t \in _accepted({m}) : /\ txns[t].currency_received = c
                                           /\ txns[t].currency_delivered = d
                                           /\ txns[t].exchange_rate # NoRate}
    BY <2>1 DEF Received
  <2>3. \A t \in T : key[t] = cd <=> txns[t].currency_received = c /\ txns[t].currency_delivered = d
    BY <1>1, <2>0
  <2> HIDE DEF part, key
  <2> QED
    BY <1>1, <2>2, <2>3
<1>4. \A cd \in K : q[cd] = Cardinality(part[cd])
  BY DEF exchange_rates
<1>5. IsFiniteSet(K)
  BY FS_Product, FiniteAssumption
<1>6. SumFunction(q) = SumOn(q, K)
  BY DEF SumFunction, SumOn
<1> HIDE DEF T, K, key, part, q
<1>7. Cardinality(T) = SumOn(q, K)
  BY <1>2, <1>3, <1>4, <1>5, CountByKey
<1> QED
  BY <1>6, <1>7 DEF T, q, K

(* Each payment has a settlement entry of its own in the member's list.    *)
LEMMA PaymentsListed ==
    ASSUME BInv, NEW m \in Members
    PROVE  by_status({m}, "payment", "paid")
              <= Cardinality({e \in settlements({m}) : journal[e].ref # NoRef})
<1> DEFINE P    == {t \in _txns({m}) : txns[t]["payment"] = "paid"}
           L    == {e \in settlements({m}) : journal[e].ref # NoRef}
           paid == [t \in P |-> txns[t].payment_entry]
<1>1. ASSUME NEW t \in P
      PROVE  /\ t \in Txns /\ txns[t].payment_entry \in L
             /\ journal[txns[t].payment_entry].ref = t
  <2> DEFINE row == txns[t]
             e   == row.payment_entry
  <2>1. t \in Txns /\ Created(t) /\ row.by = m /\ row.payment = "paid"
    BY DEF _txns
  <2>2. row \in Row /\ NamesPosted(journal, t, row) /\ Booked(journal, t, row)
    BY <2>1 DEF BInv, SInv, IInv, RowFits
  <2>3. /\ e \in DOMAIN journal /\ journal[e].type = "settlement" /\ journal[e].ref = t
        /\ journal[e].lines = PaymentLines(row)
    BY <2>1, <2>2 DEF NamesPosted, Booked
  <2>4. t # NoRef
    BY <2>1, RefAssumption
  <2>5. row.currency_received \in Currencies
    BY <2>2 DEF Row
  <2>6. 2 \in DOMAIN journal[e].lines
        /\ journal[e].lines[2].account = SmallOffice(m, row.currency_received)
    <3>1. /\ 2 \in DOMAIN PaymentLines(row)
          /\ PaymentLines(row)[2].account = MemberAccount(row)
      BY DEF PaymentLines, Credit
    <3> QED
      BY <2>1, <2>3, <3>1 DEF MemberAccount
  <2> HIDE DEF row, e
  <2>7. e \in settlements({m})
    BY <2>3, <2>5, <2>6 DEF settlements
  <2> QED
    BY <2>1, <2>3, <2>4, <2>7 DEF row, e
<1>2. paid \in Injection(P, L)
  <2>1. paid \in [P -> L]
    BY <1>1
  <2>2. \A t, u \in P : paid[t] = paid[u] => t = u
    BY <1>1
  <2> HIDE DEF P, L, paid
  <2> QED
    BY <2>1, <2>2 DEF Injection, IsInjective
<1>3. L \subseteq 1 .. Len(journal) /\ Len(journal) \in Nat
  BY DEF settlements, BInv, SInv, IInv, TypeOK
<1>4. IsFiniteSet(L)
  <2>1. IsFiniteSet(1 .. Len(journal))
    BY <1>3, FS_Interval
  <2> HIDE DEF L
  <2> QED
    BY <1>3, <2>1, FS_Subset
<1>5. by_status({m}, "payment", "paid") = Cardinality(P)
  BY DEF by_status
<1> HIDE DEF P, L
<1>6. Cardinality(P) <= Cardinality(L)
  BY <1>2, <1>4, FS_Injection
<1> QED
  BY <1>5, <1>6 DEF L

LEMMA ReportsFollow == ExplainedInv => ReportsAgree
<1> SUFFICES ASSUME ExplainedInv PROVE ReportsAgree
  OBVIOUS
<1>1. BInv
  BY DEF ExplainedInv
<1>2. ApprovedIsOwedOrPaid
  BY OwedOrPaid DEF ApprovedIsOwedOrPaid
<1>3. BoxesExplained
  BY BoxesSum DEF BoxesExplained
<1>4. MembersAddUp
  BY <1>1, ProfitsAddUp, TotalsAddUp, RatesAddUp, PaymentsListed DEF MembersAddUp
<1> QED
  BY <1>2, <1>3, <1>4 DEF ReportsAgree

(* The report of each member, the totals of the office, the rows it lists  *)
(* and the statement of each box agree with the ledger accounts and with   *)
(* one another (reports/services.py, boxes/services.py).                   *)
THEOREM ReportsAgreeSerial ==
    ASSUME NoManualReversal PROVE Spec /\ []Apart => []ReportsAgree
  BY EveryBalance, ReportsFollow, PTL

(***************************************************************************)
(* What an approval or an edit commits.                                    *)
(***************************************************************************)
LEMMA MemberShare ==
    ASSUME NEW row \in Row, row.box \in Boxes
    PROVE  Net(Saved(ApprovalLines(row)), MemberAccount(row)) = Stored(Owed(row))
<1> DEFINE in     == row.currency_received
           out    == row.currency_delivered
           a      == MemberAccount(row)
           box    == BoxAccount(row.box, out)
           owed   == Stored(Owed(row))
           margin == Stored(Margin(row))
           cost   == Stored(OutCost(row))
           passed == Stored(row.amount_delivered)
<1>1. owed \in Int /\ margin \in Int /\ cost \in Int /\ passed \in Int
  BY RowNumbers, StoredRounds
<1>2. Profit(in) # a /\ box # a /\ Fx(in) # a /\ Fx(out) # a
  BY OtherAccount DEF MemberAccount
<1>3. Saved(ApprovalLines(row)) = ApprovalOf(row, owed, margin, cost, passed)
  BY ApprovalShape
<1> HIDE DEF owed, margin, cost, passed
<1>4. Net(Saved(ApprovalLines(row)), a) =
         On(a, a, owed) + On(Profit(in), a, -margin)
         + IF ~IsDual(row) THEN On(box, a, -cost)
           ELSE On(Fx(in), a, -cost) + On(Fx(out), a, passed) + On(box, a, -passed)
  BY <1>1, <1>3, ApprovalNet
<1> HIDE DEF a, box, in, out
<1> QED
  BY <1>1, <1>2, <1>4 DEF On, a, owed

Charges(w) == CommitApproval(w) \/ CommitEdit(w)

LEMMA ChargedJournal ==
    ASSUME BInv, NEW w \in Workers, Charges(w)
    PROVE  LET entry == ApprovalEntry(workers[w].txn, workers[w].copy) IN
           /\ entry \in Entry /\ entry.lines = Saved(ApprovalLines(workers[w].copy))
           /\ Seen(journal, workers[w]) \in Seq(Entry)
           /\ journal' = Append(Seen(journal, workers[w]), entry)
           /\ \A e \in DOMAIN journal' \ DOMAIN journal :
                 journal'[e].type = "transaction" => journal'[e].ref = workers[w].txn
<1> DEFINE copy  == workers[w].copy
           t     == workers[w].txn
           entry == ApprovalEntry(t, copy)
           seen  == Seen(journal, workers[w])
<1>1. workers[w].pc = "checked" /\ IInv /\ journal \in Seq(Entry)
  BY DEF Charges, CommitApproval, CommitEdit, AtStep, BInv, SInv, IInv, TypeOK
<1>2. /\ t \in Txns /\ copy \in Row /\ copy.box \in Boxes
      /\ workers[w].op = "edit" => workers[w].undo \in DOMAIN journal
  BY <1>1, WorkerBusy
<1>3. entry \in Entry /\ entry.ref = t /\ entry.lines = Saved(ApprovalLines(copy))
  <2>1. entry.lines = Saved(ApprovalLines(copy))
    BY DEF ApprovalEntry, Posting
  <2> QED
    BY <1>2, <2>1, ApprovalEntryType
<1>4. CASE CommitApproval(w)
  <2>1. seen = journal /\ journal' = journal \o <<entry>>
    BY <1>4 DEF CommitApproval, AtStep, Seen, Post
  <2> HIDE DEF entry, seen
  <2>2. seen \in Seq(Entry) /\ journal' = Append(seen, entry)
    BY <1>1, <1>3, <2>1
  <2>3. ASSUME NEW e \in DOMAIN journal' \ DOMAIN journal
        PROVE  journal'[e] = entry
    BY <1>1, <1>3, <2>1, <2>2
  <2> QED
    BY <1>3, <2>2, <2>3 DEF entry, seen
<1>5. CASE CommitEdit(w)
  <2> DEFINE mirror == Mirror(journal, workers[w].undo)
  <2>1. /\ workers[w].op = "edit" /\ seen = Append(journal, mirror)
        /\ journal' = journal \o <<mirror, entry>>
    BY <1>5 DEF CommitEdit, AtStep, Seen, Post
  <2>2. mirror \in Entry /\ mirror.type = "reversal"
    BY <1>1, <1>2, <2>1, MirrorType
  <2> HIDE DEF entry, seen, mirror
  <2>3. seen \in Seq(Entry) /\ journal' = Append(seen, entry)
    BY <1>1, <1>3, <2>1, <2>2
  <2>4. ASSUME NEW e \in DOMAIN journal' \ DOMAIN journal
        PROVE  journal'[e] = entry \/ journal'[e] = mirror
    BY <1>1, <1>3, <2>1, <2>2
  <2> QED
    BY <1>3, <2>2, <2>3, <2>4 DEF entry, seen
<1> QED
  BY <1>4, <1>5 DEF Charges

LEMMA NewEntries ==
    ASSUME TypeOK, NEW entries \in Seq(Entry), Post(entries),
           \A i \in DOMAIN entries : entries[i].type # "transaction"
    PROVE  \A e \in DOMAIN journal' \ DOMAIN journal : journal'[e].type # "transaction"
<1>1. /\ journal \in Seq(Entry) /\ journal' \in Seq(Entry)
      /\ Len(journal') = Len(journal) + Len(entries)
      /\ \A i \in DOMAIN entries : journal'[Len(journal) + i] = entries[i]
  BY PostGrows DEF TypeOK
<1> SUFFICES ASSUME NEW e \in DOMAIN journal' \ DOMAIN journal
             PROVE  journal'[e].type # "transaction"
  OBVIOUS
<1> DEFINE i == e - Len(journal)
<1>2. i \in DOMAIN entries /\ e = Len(journal) + i
  BY <1>1
<1> HIDE DEF i
<1>3. journal'[e] = entries[i]
  BY <1>1, <1>2
<1> QED
  BY <1>2, <1>3

(* Every entry is a posting, its lines as the columns keep them, or the    *)
(* mirror of an entry; approvals and edits alone post transaction entries. *)
Written(entry) ==
    \/ \E lines \in Seq(Line) : entry.lines = Saved(lines)
    \/ \E e \in DOMAIN journal : entry.lines = MirrorLines(journal[e].lines)

Writes(w, es) ==
    /\ Post(es)
    /\ \A i \in DOMAIN es : Written(es[i])
    /\ Charges(w) \/ \A i \in DOMAIN es : es[i].type # "transaction"

LEMMA OneWritten ==
    ASSUME NEW w, NEW entry \in Entry, Post(<<entry>>), Written(entry),
           Charges(w) \/ entry.type # "transaction"
    PROVE  \E es \in Seq(Entry) : Writes(w, es)
<1> DEFINE es == <<entry>>
<1>1. es \in Seq(Entry) /\ DOMAIN es = {1} /\ es[1] = entry /\ Post(es)
  OBVIOUS
<1> HIDE DEF es
<1>2. Writes(w, es)
  BY <1>1 DEF Writes
<1> QED
  BY <1>1, <1>2

LEMMA SettlementWritten ==
    ASSUME NEW w, NEW op, NEW lines \in Seq(Line), Settle(w, op, lines)
    PROVE  \E es \in Seq(Entry) : Writes(w, es)
<1> DEFINE entry == Posting("settlement", NoRef, lines)
<1>1. entry \in Entry /\ entry.type = "settlement" /\ entry.lines = Saved(lines)
  BY PostingType DEF EntryType
<1>2. Post(<<entry>>)
  BY DEF Settle
<1> HIDE DEF entry
<1> QED
  BY <1>1, <1>2, OneWritten DEF Written

LEMMA SettleWrites ==
    ASSUME IInv, NEW w \in Workers, SettleStep(w)
    PROVE  UNCHANGED journal \/ \E es \in Seq(Entry) : Writes(w, es)
<1>1. ASSUME NEW m \in Members, NEW b \in Boxes, NEW c \in Currencies, NEW x \in SettleAmounts,
             Deposit(w, m, b, c, x) \/ Withdraw(w, m, b, c, x)
      PROVE  \E es \in Seq(Entry) : Writes(w, es)
  <2>1. x \in Int
    BY InputAssumption
  <2>2. /\ <<Debit(BoxAccount(b, c), x), Credit(SmallOffice(m, c), x)>> \in Seq(Line)
        /\ <<Debit(SmallOffice(m, c), x), Credit(BoxAccount(b, c), x)>> \in Seq(Line)
    BY <2>1, SettlementLines
  <2> QED
    BY <1>1, <2>2, SettlementWritten DEF Deposit, Withdraw
<1>2. ASSUME NEW m \in Members, NEW c \in Currencies, NEW x \in SettleAmounts,
             MemberPayment(w, m, c, x)
      PROVE  \E es \in Seq(Entry) : Writes(w, es)
  <2>1. x \in Int
    BY InputAssumption
  <2>2. <<Debit(TenantAccount("shop_cash", c), x), Credit(SmallOffice(m, c), x)>> \in Seq(Line)
    BY <2>1, SettlementLines
  <2> QED
    BY <1>2, <2>2, SettlementWritten DEF MemberPayment
<1>3. ASSUME NEW b \in Boxes, NEW c \in Currencies, NEW x \in SettleAmounts,
             NEW direction \in {"in", "out"}, AdjustBox(w, b, c, x, direction)
      PROVE  \E es \in Seq(Entry) : Writes(w, es)
  <2>1. x \in Int
    BY InputAssumption
  <2>2. /\ <<Debit(BoxAccount(b, c), x), Credit(TenantAccount("adjustment", c), x)>> \in Seq(Line)
        /\ <<Debit(TenantAccount("adjustment", c), x), Credit(BoxAccount(b, c), x)>> \in Seq(Line)
    BY <2>1, SettlementLines
  <2> QED
    BY <1>3, <2>2, SettlementWritten DEF AdjustBox
<1>4. ASSUME NEW e \in DOMAIN journal, ReverseEntry(w, e)
      PROVE  \E es \in Seq(Entry) : Writes(w, es)
  <2> DEFINE entry == Mirror(journal, e)
  <2>1. entry \in Entry /\ entry.type = "reversal" /\ Written(entry)
    BY MirrorType DEF IInv, TypeOK, Written
  <2>2. Post(<<entry>>)
    BY <1>4 DEF ReverseEntry
  <2> HIDE DEF entry
  <2> QED
    BY <2>1, <2>2, OneWritten
<1>5. ASSUME NEW m \in Members, NEW c \in Currencies, NEW x \in LimitValues, SetLimit(w, m, c, x)
      PROVE  UNCHANGED journal
  BY <1>5 DEF SetLimit
<1> QED
  BY <1>1, <1>2, <1>3, <1>4, <1>5 DEF SettleStep

LEMMA TxnWrites ==
    ASSUME IInv, NEW w \in Workers, TxnStep(w)
    PROVE  UNCHANGED journal \/ \E es \in Seq(Entry) : Writes(w, es)
<1>1. CASE CommitApproval(w)
  <2> DEFINE entry == ApprovalEntry(workers[w].txn, workers[w].copy)
  <2>1. workers[w].pc = "checked"
    BY <1>1 DEF CommitApproval, AtStep
  <2>2. workers[w].txn \in Txns /\ workers[w].copy \in Row /\ workers[w].copy.box \in Boxes
    BY <2>1, WorkerBusy
  <2>3. entry \in Entry /\ Written(entry)
    <3>1. entry.lines = Saved(ApprovalLines(workers[w].copy))
      BY DEF ApprovalEntry, Posting
    <3> QED
      BY <2>2, <3>1, ApprovalEntryType, ApprovalLinesType DEF Written
  <2>4. Post(<<entry>>)
    BY <1>1 DEF CommitApproval
  <2> HIDE DEF entry
  <2> QED
    BY <1>1, <2>3, <2>4, OneWritten DEF Charges
<1>2. CASE Pay(w)
  <2> DEFINE entry == Posting("settlement", workers[w].txn, PaymentLines(workers[w].copy))
  <2>1. workers[w].pc = "loaded"
    BY <1>2 DEF Pay, AtStep
  <2>2. workers[w].txn \in Txns /\ PaymentLines(workers[w].copy) \in Seq(Line)
    BY <2>1, WorkerBusy, PaymentLinesType
  <2>3. entry \in Entry /\ entry.type = "settlement" /\ Written(entry)
    BY <2>2, PostingType DEF EntryType, Written
  <2>4. Post(<<entry>>)
    BY <1>2 DEF Pay
  <2> HIDE DEF entry
  <2> QED
    BY <2>3, <2>4, OneWritten
<1>3. CASE Reverse(w)
  <2> DEFINE es   == ReverseEntries(w)
             undo == EntriesToUndo(workers[w].copy)
  <2>1. /\ Appendable(es) /\ Post(es) /\ DOMAIN es = 1 .. Len(undo) /\ DOMAIN undo = 1 .. Len(undo)
        /\ \A i \in 1 .. Len(undo) : es[i].type = "reversal" /\ undo[i] \in DOMAIN journal
    BY <1>3, ReverseAppends
  <2>2. \A i \in DOMAIN undo : es[i].lines = MirrorLines(journal[undo[i]].lines)
    BY DEF ReverseEntries, Mirror
  <2> HIDE DEF es, undo
  <2>3. es \in Seq(Entry) /\ Writes(w, es)
    BY <2>1, <2>2 DEF Appendable, Writes, Written
  <2> QED
    BY <2>3
<1>4. CASE CommitEdit(w)
  <2> DEFINE es == EditEntries(w)
  <2>1. /\ Appendable(es) /\ Post(es) /\ DOMAIN es = {1, 2}
        /\ workers[w].undo \in DOMAIN journal
    BY <1>4, EditAppends
  <2>2. workers[w].pc = "checked"
    BY <1>4 DEF CommitEdit, AtStep
  <2>3. ApprovalLines(workers[w].copy) \in Seq(Line)
    BY <2>2, WorkerBusy, ApprovalLinesType
  <2>4. /\ es[1].lines = MirrorLines(journal[workers[w].undo].lines)
        /\ es[2].lines = Saved(ApprovalLines(workers[w].copy))
    BY DEF EditEntries, Mirror, ApprovalEntry, Posting
  <2> HIDE DEF es
  <2>5. es \in Seq(Entry) /\ Writes(w, es)
    BY <1>4, <2>1, <2>3, <2>4 DEF Appendable, Writes, Written, Charges
  <2> QED
    BY <2>5
<1>5. CASE \/ \E t \in Txns, d \in Drafts : Create(w, t, d)
           \/ \E op \in TxnOps, t \in Txns : Begin(w, op, t)
           \/ \E q \in Quotes : CheckApproval(w, q)
           \/ Reject(w) \/ Deliver(w) \/ Fail(w)
           \/ \E edit \in Edits : CheckEdit(w, edit)
  BY <1>5 DEF Create, Begin, CheckApproval, Reject, Deliver, Fail, CheckEdit
<1> QED
  BY <1>1, <1>2, <1>3, <1>4, <1>5 DEF TxnStep

LEMMA OthersPostNoTransaction ==
    ASSUME IInv, Next
    PROVE  \/ \E w \in Workers : Charges(w)
           \/ \A e \in DOMAIN journal' \ DOMAIN journal : journal'[e].type # "transaction"
<1>1. PICK w \in Workers : UNCHANGED journal \/ \E es \in Seq(Entry) : Writes(w, es)
  BY SettleWrites, TxnWrites DEF Next
<1>2. ASSUME NEW es \in Seq(Entry), Writes(w, es), ~Charges(w)
      PROVE  \A e \in DOMAIN journal' \ DOMAIN journal : journal'[e].type # "transaction"
  BY <1>2, NewEntries DEF Writes, IInv
<1> QED
  BY <1>1, <1>2

(***************************************************************************)
(* The lines of the journal and the limits are figures a column can hold,  *)
(* so that a balance the credit check found small enough for an amount is  *)
(* small enough for what the columns make of it.                           *)
(***************************************************************************)
InColumns(lines) == \A i \in DOMAIN lines : IsAmount(lines[i].debit) /\ IsAmount(lines[i].credit)

Columned ==
    /\ \A e \in DOMAIN journal : InColumns(journal[e].lines)
    /\ \A mc \in Members \X Currencies : IsAmount(limits[mc])

LEMMA WrittenInColumns ==
    ASSUME \A e \in DOMAIN journal : InColumns(journal[e].lines), journal \in Seq(Entry),
           NEW entry, Written(entry)
    PROVE  InColumns(entry.lines)
<1>1. ASSUME NEW lines \in Seq(Line), entry.lines = Saved(lines)
      PROVE  InColumns(entry.lines)
  <2>1. \A i \in DOMAIN lines : lines[i].debit \in Int /\ lines[i].credit \in Int
    <3>1. \A i \in DOMAIN lines : lines[i] \in Line
      OBVIOUS
    <3> QED
      BY <3>1 DEF Line
  <2>2. \A i \in DOMAIN lines : IsAmount(Stored(lines[i].debit)) /\ IsAmount(Stored(lines[i].credit))
    BY <2>1, StoredRounds
  <2> QED
    BY <1>1, <2>2 DEF Saved, InColumns
<1>2. ASSUME NEW e \in DOMAIN journal, entry.lines = MirrorLines(journal[e].lines)
      PROVE  InColumns(entry.lines)
  BY <1>2 DEF InColumns, MirrorLines
<1> QED
  BY <1>1, <1>2 DEF Written

LEMMA ColumnedSteps ==
    ASSUME Columned, IInv, [Next]_vars
    PROVE  Columned'
<1>1. CASE UNCHANGED vars
  BY <1>1 DEF vars, Columned
<1>2. CASE Next
  <2>1. PICK w \in Workers : /\ UNCHANGED journal \/ \E es \in Seq(Entry) : Writes(w, es)
                             /\ TxnStep(w) \/ SettleStep(w)
    BY <1>2, SettleWrites, TxnWrites DEF Next
  <2>2. \A e \in DOMAIN journal' : InColumns(journal'[e].lines)
    <3>1. CASE UNCHANGED journal
      BY <3>1 DEF Columned
    <3>2. ASSUME NEW es \in Seq(Entry), Writes(w, es)
          PROVE  \A e \in DOMAIN journal' : InColumns(journal'[e].lines)
      <4>1. /\ journal \in Seq(Entry) /\ journal' \in Seq(Entry)
            /\ Len(journal') = Len(journal) + Len(es)
            /\ \A e \in DOMAIN journal : journal'[e] = journal[e]
            /\ \A i \in DOMAIN es : journal'[Len(journal) + i] = es[i]
        BY <3>2, PostGrows DEF IInv, TypeOK, Writes, Grows
      <4>2. \A i \in DOMAIN es : InColumns(es[i].lines)
        BY <3>2, <4>1, WrittenInColumns DEF Writes, Columned
      <4> SUFFICES ASSUME NEW e \in DOMAIN journal'
                   PROVE  InColumns(journal'[e].lines)
        OBVIOUS
      <4>3. CASE e \in DOMAIN journal
        BY <4>1, <4>3 DEF Columned
      <4>4. CASE e \notin DOMAIN journal
        <5> DEFINE i == e - Len(journal)
        <5>1. i \in DOMAIN es /\ e = Len(journal) + i
          BY <4>1, <4>4
        <5> HIDE DEF i
        <5> QED
          BY <4>1, <4>2, <5>1
      <4> QED
        BY <4>3, <4>4
    <3> QED
      BY <2>1, <3>1, <3>2
  <2>3. \A mc \in Members \X Currencies : IsAmount(limits'[mc])
    <3>1. CASE TxnStep(w)
      <4>1. UNCHANGED limits
        BY <3>1 DEF TxnStep, Create, Begin, CheckApproval, CommitApproval, Reject, Pay, Deliver,
                    Reverse, CheckEdit, CommitEdit, Fail
      <4> QED
        BY <4>1 DEF Columned
    <3>2. ASSUME NEW m \in Members, NEW c \in Currencies, NEW x \in LimitValues, SetLimit(w, m, c, x)
          PROVE  \A mc \in Members \X Currencies : IsAmount(limits'[mc])
      <4>1. limits' = [limits EXCEPT ![<<m, c>>] = x] /\ IsAmount(x)
        BY <3>2, InputAssumption DEF SetLimit
      <4>2. limits \in [Members \X Currencies -> Int]
        BY DEF IInv, TypeOK
      <4> QED
        BY <4>1, <4>2 DEF Columned
    <3>3. CASE /\ SettleStep(w)
               /\ ~\E m \in Members, c \in Currencies, x \in LimitValues : SetLimit(w, m, c, x)
      <4>1. UNCHANGED limits
        BY <3>3 DEF SettleStep, Deposit, Withdraw, MemberPayment, AdjustBox, ReverseEntry, Settle
      <4> QED
        BY <4>1 DEF Columned
    <3> QED
      BY <2>1, <3>1, <3>2, <3>3
  <2> QED
    BY <2>2, <2>3 DEF Columned
<1> QED
  BY <1>1, <1>2

LEMMA ColumnedAlways == Spec => []Columned
<1>1. Init => Columned
  <2>1. IsAmount(0)
    BY UnitAssumption DEF IsAmount
  <2> QED
    BY <2>1 DEF Init, Columned
<1>2. Columned /\ IInv /\ [Next]_vars => Columned'
  BY ColumnedSteps
<1> QED
  BY <1>1, <1>2, Invariance, PTL DEF Spec

LEMMA SumAmount ==
    ASSUME NEW f, NEW S, IsFiniteSet(S), \A x \in S : f[x] \in Int /\ IsAmount(f[x])
    PROVE  SumOn(f, S) \in Int /\ IsAmount(SumOn(f, S))
<1> DEFINE B == {s \in SUBSET S : ~IsAmount(SumOn(f, s))}
<1>1. SumOn(f, S) \in Int
  BY SumType
<1> SUFFICES ASSUME B # {} PROVE FALSE
  BY <1>1
<1>2. PICK s \in B : \A x \in s : s \ {x} \notin B
  BY SmallestSubset
<1>3. IsFiniteSet(s) /\ s \in SUBSET S /\ ~IsAmount(SumOn(f, s))
  BY <1>2, FS_Subset
<1>4. CASE s = {}
  <2>1. IsAmount(0)
    BY UnitAssumption DEF IsAmount
  <2> QED
    BY <1>3, <1>4, <2>1, SumEmpty
<1>5. CASE s # {}
  <2> DEFINE p == Picked(s)
  <2>1. p \in s
    BY <1>5, PickedIn
  <2>2. IsAmount(SumOn(f, s \ {p}))
    BY <1>2, <1>3, <2>1
  <2>3. f[p] \in Int /\ IsAmount(f[p])
    BY <1>3, <2>1
  <2>4. IsFiniteSet(s \ {p})
    BY <1>3, FS_RemoveElement
  <2>5. SumOn(f, s \ {p}) \in Int
    BY <1>3, <2>4, SumType
  <2>6. SumOn(f, s) = f[p] + SumOn(f, s \ {p})
    BY <1>3, <1>5, SumSteps
  <2> HIDE DEF p
  <2> QED
    BY <1>3, <2>2, <2>3, <2>5, <2>6, AmountsAdd
<1> QED
  BY <1>4, <1>5

LEMMA NetAmount ==
    ASSUME NEW lines \in Seq(Line), InColumns(lines), NEW a
    PROVE  Net(lines, a) \in Int /\ IsAmount(Net(lines, a))
<1> DEFINE n == [i \in DOMAIN lines |->
                    IF lines[i].account = a THEN lines[i].debit - lines[i].credit ELSE 0]
<1>1. DOMAIN lines = 1 .. Len(lines) /\ Len(lines) \in Nat /\ IsAmount(0)
  BY UnitAssumption DEF IsAmount
<1>2. \A i \in DOMAIN lines : lines[i].debit \in Int /\ lines[i].credit \in Int
  <2>1. \A i \in DOMAIN lines : lines[i] \in Line
    OBVIOUS
  <2> QED
    BY <2>1 DEF Line
<1>3. ASSUME NEW i \in DOMAIN lines
      PROVE  /\ lines[i].debit - lines[i].credit \in Int
             /\ IsAmount(lines[i].debit - lines[i].credit)
  <2> DEFINE x == lines[i].debit
             y == lines[i].credit
  <2>1. x \in Int /\ y \in Int /\ IsAmount(x) /\ IsAmount(y)
    BY <1>2 DEF InColumns
  <2> HIDE DEF x, y
  <2>2. x - y \in Int /\ IsAmount(x - y)
    BY <2>1, AmountsAdd
  <2> QED
    BY <2>2 DEF x, y
<1>4. \A i \in DOMAIN lines : n[i] \in Int /\ IsAmount(n[i])
  BY <1>1, <1>3
<1>5. Net(lines, a) = SumOn(n, DOMAIN lines)
  BY DEF Net, SumFunction, SumOn
<1>6. IsFiniteSet(DOMAIN lines)
  BY <1>1, FS_Interval
<1> HIDE DEF n
<1> QED
  BY <1>4, <1>5, <1>6, SumAmount

LEMMA BalanceAmount ==
    ASSUME NEW history \in Seq(Entry), \A e \in DOMAIN history : InColumns(history[e].lines), NEW a
    PROVE  Balance(history, a) \in Int /\ IsAmount(Balance(history, a))
<1> DEFINE f == [e \in DOMAIN history |-> Net(history[e].lines, a)]
<1>1. DOMAIN history = 1 .. Len(history) /\ Len(history) \in Nat
  OBVIOUS
<1>2. \A e \in DOMAIN history : f[e] \in Int /\ IsAmount(f[e])
  BY EntryLines, NetAmount
<1>3. Balance(history, a) = SumOn(f, DOMAIN history)
  BY DEF Balance, SumFunction, SumOn
<1>4. IsFiniteSet(DOMAIN history)
  BY <1>1, FS_Interval
<1> HIDE DEF f
<1> QED
  BY <1>2, <1>3, <1>4, SumAmount

LEMMA SeenAmount ==
    ASSUME Columned, IInv, NEW w \in Workers, Charges(w), NEW a
    PROVE  /\ Balance(Seen(journal, workers[w]), a) \in Int
           /\ IsAmount(Balance(Seen(journal, workers[w]), a))
<1>1. journal \in Seq(Entry) /\ workers[w].pc = "checked"
  BY DEF IInv, TypeOK, Charges, CommitApproval, CommitEdit, AtStep
<1>2. CASE workers[w].op # "edit"
  BY <1>1, <1>2, BalanceAmount DEF Seen, Columned
<1>3. CASE workers[w].op = "edit"
  <2> DEFINE mirror == Mirror(journal, workers[w].undo)
             seen   == Append(journal, mirror)
  <2>1. workers[w].undo \in DOMAIN journal
    BY <1>1, <1>3, WorkerBusy
  <2>2. mirror \in Entry /\ Written(mirror)
    BY <1>1, <2>1, MirrorType DEF Written
  <2> HIDE DEF mirror
  <2>3. InColumns(mirror.lines)
    BY <1>1, <2>2, WrittenInColumns DEF Columned
  <2>4. seen \in Seq(Entry) /\ \A e \in DOMAIN seen : InColumns(seen[e].lines)
    BY <1>1, <2>2, <2>3 DEF Columned
  <2>5. Seen(journal, workers[w]) = seen
    BY <1>3 DEF Seen, mirror
  <2> HIDE DEF seen
  <2> QED
    BY <2>4, <2>5, BalanceAmount
<1> QED
  BY <1>2, <1>3

LEMMA ChargeCommits ==
    ASSUME BInv, Columned, NEW w \in Workers, Charges(w)
    PROVE  LET t == workers[w].txn  row == txns[t]  new == txns'[t] IN
           /\ t \in Txns /\ row \in Row /\ row # NoRow /\ new \in Row /\ new # NoRow
           /\ \A u \in Txns \ {t} : txns'[u] = txns[u]
           /\ row.approval = IF CommitApproval(w) THEN "pending" ELSE "accepted"
           /\ row.payment = "unpaid" /\ row.delivery = "not_delivered"
           /\ new.approval = "accepted"
           /\ new.payment = "unpaid" /\ new.delivery = "not_delivered"
           /\ new.by = row.by /\ new.currency_received = row.currency_received
           /\ new.currency_delivered = row.currency_delivered
           /\ Alone => Balance(journal', MemberAccount(new))
                          <= limits[new.by, new.currency_received]
           /\ UNCHANGED limits
<1> DEFINE t     == workers[w].txn
           copy  == workers[w].copy
           row   == txns[t]
           new   == txns'[t]
           entry == ApprovalEntry(t, copy)
           seen  == Seen(journal, workers[w])
           limit == limits[copy.by, copy.currency_received]
<1>1. workers[w].pc = "checked" /\ IInv /\ SInv /\ TypeOK
  BY DEF Charges, CommitApproval, CommitEdit, AtStep, BInv, SInv, IInv
<1>2. /\ t \in Txns /\ copy \in Row /\ copy.box \in Boxes /\ SameParties(row, copy)
  BY <1>1, WorkerBusy
<1>3. /\ row \in Row /\ row # NoRow /\ SamePayment(row, copy)
      /\ row.delivery = "not_delivered" /\ copy.delivery = "not_delivered"
      /\ workers[w].op = "approve" => row.approval = "pending"
      /\ workers[w].op = "edit" => row.approval = "accepted"
      /\ NamesPosted(journal, t, row)
  BY <1>1, BusyFresh DEF RowFits
<1>4. /\ copy.payment_entry = NoEntry /\ Figures(copy)
      /\ Alone => Balance(seen, MemberAccount(copy)) + Owed(copy) <= limit
  BY <1>1, BusyPriced
<1>5. row.payment = "unpaid"
  BY <1>3, <1>4 DEF SamePayment, NamesPosted, Row
<1>6. PICK e \in Nat : txns' = [txns EXCEPT ![t] = Accepted(copy, e)]
  <2>1. Len(journal) + 1 \in Nat /\ Len(journal) + 2 \in Nat
    BY <1>1 DEF TypeOK
  <2> QED
    BY <2>1 DEF Charges, CommitApproval, CommitEdit
<1>7. new = Accepted(copy, e) /\ \A u \in Txns \ {t} : txns'[u] = txns[u]
  BY <1>1, <1>2, <1>6 DEF TypeOK
<1>8. UNCHANGED limits /\ workers[w].op = IF CommitApproval(w) THEN "approve" ELSE "edit"
  BY DEF Charges, CommitApproval, CommitEdit, AtStep
<1>9. Balance(journal', MemberAccount(copy)) = Balance(seen, MemberAccount(copy)) + Stored(Owed(copy))
  <2>1. entry \in Entry /\ entry.lines = Saved(ApprovalLines(copy)) /\ seen \in Seq(Entry)
        /\ journal' = Append(seen, entry)
    BY ChargedJournal
  <2> HIDE DEF entry, seen
  <2>2. Balance(journal', MemberAccount(copy))
           = Balance(seen, MemberAccount(copy)) + Net(entry.lines, MemberAccount(copy))
    BY <2>1, BalanceAppend
  <2> QED
    BY <1>2, <2>1, <2>2, MemberShare
<1>10. Alone => Balance(journal', MemberAccount(copy)) <= limit
  <2>1. Balance(seen, MemberAccount(copy)) \in Int /\ IsAmount(Balance(seen, MemberAccount(copy)))
    BY <1>1, SeenAmount
  <2>2. limit \in Int /\ IsAmount(limit)
    <3> DEFINE mc == <<copy.by, copy.currency_received>>
    <3>0. copy.by \in Members /\ copy.currency_received \in Currencies
      BY <1>2 DEF Row
    <3>1. mc \in Members \X Currencies /\ limit = limits[mc]
      BY <3>0, Zenon
    <3>2. limits \in [Members \X Currencies -> Int]
      BY <1>1 DEF TypeOK
    <3> HIDE DEF mc, limit
    <3>3. limits[mc] \in Int
      BY <3>1, <3>2
    <3>4. IsAmount(limits[mc])
      BY <3>1 DEF Columned
    <3> QED
      BY <3>1, <3>3, <3>4
  <2>3. Owed(copy) \in Int /\ Stored(Owed(copy)) \in Int
    BY <1>2, RowNumbers, StoredRounds
  <2> DEFINE x == Owed(copy)
             b == Balance(seen, MemberAccount(copy))
  <2> HIDE DEF limit, b, x
  <2>4. limit - b \in Int /\ IsAmount(limit - b)
    <3>1. b \in Int /\ IsAmount(b)
      BY <2>1 DEF b
    <3> QED
      BY <2>2, <3>1, AmountsAdd
  <2>5. Alone => x <= limit - b
    BY <1>4, <2>1, <2>2, <2>3 DEF b, x
  <2>6. Alone => Stored(x) <= limit - b
    BY <2>3, <2>4, <2>5, StoredBelow DEF x
  <2> QED
    BY <1>9, <2>1, <2>2, <2>3, <2>6 DEF b, x
<1> HIDE DEF copy, row, new, t, seen
<1>11. /\ new \in Row /\ SameTerms(Columns(copy), new) /\ new.approval = "accepted"
       /\ new.payment = copy.payment /\ new.delivery = copy.delivery
  <2>1. Accepted(copy, e).delivery = copy.delivery
    BY <1>2 DEF Accepted, Columns, Row
  <2> QED
    BY <1>2, <1>4, <1>6, <1>7, <2>1, AcceptedType, AcceptedTerms
<1>12. /\ MemberAccount(new) = MemberAccount(copy) /\ new.by = copy.by
       /\ new.currency_received = copy.currency_received
       /\ new.currency_delivered = copy.currency_delivered
  <2>1. /\ Columns(copy).by = copy.by
        /\ Columns(copy).currency_received = copy.currency_received
        /\ Columns(copy).currency_delivered = copy.currency_delivered
    BY <1>2 DEF Columns, Row
  <2> QED
    BY <1>11, <2>1 DEF SameTerms, MemberAccount
<1>13. /\ t \in Txns /\ row \in Row /\ row # NoRow /\ new \in Row /\ new # NoRow
       /\ \A u \in Txns \ {t} : txns'[u] = txns[u]
       /\ row.approval = IF CommitApproval(w) THEN "pending" ELSE "accepted"
       /\ row.payment = "unpaid" /\ row.delivery = "not_delivered"
       /\ new.approval = "accepted"
       /\ new.payment = "unpaid" /\ new.delivery = "not_delivered"
       /\ new.by = row.by /\ new.currency_received = row.currency_received
       /\ new.currency_delivered = row.currency_delivered
       /\ Alone => Balance(journal', MemberAccount(new))
                      <= limits[new.by, new.currency_received]
       /\ UNCHANGED limits
  BY <1>2, <1>3, <1>5, <1>7, <1>8, <1>10, <1>11, <1>12, NoRowIsNoRow
  DEF SameParties, SamePayment
<1> QED
  BY <1>13 DEF t, row, new

(* With one worker an approval or an edit never leaves the member owing    *)
(* more than the limit: the check of check_credit_limit still holds when   *)
(* the entry is posted.  Here it takes more than Apart, since the check    *)
(* reads what requests on other transactions of the member post (the run   *)
(* credit_race shows two that overlap).                                    *)
THEOREM CreditLimitRespectedSerial ==
    ASSUME Alone, NoManualReversal PROVE Spec => CreditLimitRespected
<1> DEFINE Limited == \A e \in DOMAIN journal' \ DOMAIN journal :
                         journal'[e].type = "transaction" =>
                            LET row == txns'[journal'[e].ref] IN
                            Balance(journal', MemberAccount(row))
                               <= limits[row.by, row.currency_received]
<1>1. ASSUME BInv, Columned, Next PROVE Limited
  <2>1. CASE \E w \in Workers : Charges(w)
    <3>1. PICK w \in Workers : Charges(w)
      BY <2>1
    <3>2. \A e \in DOMAIN journal' \ DOMAIN journal :
             journal'[e].type = "transaction" => journal'[e].ref = workers[w].txn
      BY <1>1, <3>1, ChargedJournal
    <3>3. LET row == txns'[workers[w].txn] IN
          Balance(journal', MemberAccount(row)) <= limits[row.by, row.currency_received]
      BY <1>1, <3>1, ChargeCommits
    <3> QED
      BY <3>2, <3>3
  <2>2. IInv
    BY <1>1 DEF BInv, SInv
  <2> QED
    BY <1>1, <2>1, <2>2, OthersPostNoTransaction
<1>2. UNCHANGED vars => Limited
  BY DEF vars
<1>3. BInv /\ Columned /\ [Next]_vars => [Limited]_vars
  BY <1>1, <1>2
<1> HIDE DEF Limited
<1>4. Apart
  BY DEF Alone, Apart
<1>5. Spec => [][Limited]_vars
  BY <1>3, <1>4, BooksInvariance, ColumnedAlways, PTL DEF Spec
<1> QED
  BY <1>5 DEF CreditLimitRespected, Limited

(***************************************************************************)
(* What the journal tells of a pending row: no approval entry was ever     *)
(* posted for it, so that the one its approval posts is the only one until *)
(* an edit posts another.                                                  *)
(***************************************************************************)
Announced ==
    \A e \in DOMAIN journal :
       journal[e].type = "transaction" =>
          /\ journal[e].ref \in Txns /\ txns[journal[e].ref] # NoRow
          /\ txns[journal[e].ref].approval # "pending"

LEMMA AnnouncedSteps ==
    ASSUME Announced, BInv, Columned, [Next]_vars
    PROVE  Announced'
<1>1. CASE UNCHANGED vars
  BY <1>1 DEF vars, Announced
<1>2. CASE Next
  <2>1. IInv
    BY DEF BInv, SInv
  <2>2. PICK v \in Workers : GoodStep(v)
    BY <1>2, <2>1, NextGood
  <2>3. ASSUME NEW e \in DOMAIN journal, journal'[e].type = "transaction"
        PROVE  /\ journal'[e].ref \in Txns /\ txns'[journal'[e].ref] # NoRow
               /\ txns'[journal'[e].ref].approval # "pending"
    <3> DEFINE u == journal[e].ref
    <3>1. journal'[e] = journal[e]
      BY <2>2 DEF GoodStep, Grows
    <3>2. u \in Txns /\ txns[u] # NoRow /\ txns[u].approval # "pending"
      BY <2>3, <3>1 DEF Announced
    <3>3. RowStep(u)
      BY <2>2, <3>2 DEF GoodStep
    <3>4. txns'[u] # NoRow /\ txns'[u].approval # "pending"
      BY <3>2, <3>3 DEF RowStep, Created, RowMovesForward
    <3> QED
      BY <3>1, <3>2, <3>4
  <2>4. ASSUME NEW e \in DOMAIN journal' \ DOMAIN journal, journal'[e].type = "transaction"
        PROVE  /\ journal'[e].ref \in Txns /\ txns'[journal'[e].ref] # NoRow
               /\ txns'[journal'[e].ref].approval # "pending"
    <3>1. PICK w \in Workers : Charges(w)
      BY <1>2, <2>1, <2>4, OthersPostNoTransaction
    <3>2. journal'[e].ref = workers[w].txn
      BY <2>4, <3>1, ChargedJournal
    <3>3. /\ workers[w].txn \in Txns /\ txns'[workers[w].txn] # NoRow
          /\ txns'[workers[w].txn].approval = "accepted"
      BY <3>1, ChargeCommits, Zenon
    <3> QED
      BY <3>2, <3>3
  <2> QED
    BY <2>3, <2>4 DEF Announced
<1> QED
  BY <1>1, <1>2

LEMMA AnnouncedAlways == ASSUME NoManualReversal PROVE Spec /\ []Apart => []Announced
<1>1. Init => Announced
  BY DEF Init, Announced
<1>2. Announced /\ BInv /\ Columned /\ [Next]_vars => Announced'
  BY AnnouncedSteps
<1> QED
  BY <1>1, <1>2, BooksInvariance, ColumnedAlways, PTL DEF Spec

(***************************************************************************)
(* The books as functions of the ledger.                                   *)
(***************************************************************************)
Deals  == [t \in Txns |-> IF Created(t) THEN DealOf(t, txns[t]) ELSE NoRow]
Debts  == [mc \in Members \X Currencies |-> Balance(journal, SmallOffice(mc[1], mc[2]))]
Earned == [c \in Currencies |-> -Balance(journal, TenantAccount("fees_profit", c))]

(* Claims, Margins and Moves bound what TLC enumerates; nothing in the     *)
(* code bounds what a transaction charges or a settlement moves, and here  *)
(* they are left unbounded.                                                *)
Unbounded == Int \subseteq Claims /\ Int \subseteq Margins /\ Int \subseteq Moves

LEMMA BooksAre ==
    /\ Books!Init <=> /\ Deals = [t \in Txns |-> NoRow]
                      /\ Debts = [mc \in Members \X Currencies |-> 0]
                      /\ Earned = [c \in Currencies |-> 0]
                      /\ limits = [mc \in Members \X Currencies |-> 0]
    /\ (UNCHANGED <<Deals, Debts, Earned, limits>>) => UNCHANGED Books!vars
  BY DEF Books!Init, Books!vars, Books!NoDeal, NoRow, Deals, Debts, Earned

(* Updates of columns of the record of one transaction.                    *)
Charging(f, t, owed, margin, doubt) ==
    [f EXCEPT ![t].approval = "accepted", ![t].owed = owed,
              ![t].margin = margin, ![t].doubt = doubt]
Collecting(f, t, x) == [f EXCEPT ![t].payment = "paid", ![t].collected = x]
Closing(f, t)       == [f EXCEPT ![t].approval = "reversed", ![t].payment = "unpaid",
                                 ![t].owed = 0, ![t].margin = 0,
                                 ![t].doubt = 0, ![t].collected = 0]

(* Each action of the books, said of the ledger.                           *)
LEMMA ChargeIs ==
    ASSUME NEW t, NEW owed, NEW margin, NEW doubt
    PROVE  Books!Charge(t, owed, margin, doubt) <=>
             /\ Deals' = Charging(Deals, t, owed, margin, doubt)
             /\ Debts' = [Debts EXCEPT ![<<Deals[t].by, Deals[t].currency>>]
                                          = @ - Deals[t].owed + owed]
             /\ Debts'[<<Deals[t].by, Deals[t].currency>>]
                  <= limits[<<Deals[t].by, Deals[t].currency>>]
             /\ Earned' = [Earned EXCEPT ![Deals[t].currency] = @ - Deals[t].margin + margin]
             /\ UNCHANGED limits
  BY DEF Books!Charge, Books!Holder, Charging, Deals, Debts, Earned

LEMMA AcceptReviseAre ==
    ASSUME NEW t, NEW owed \in Claims, NEW margin \in Margins
    PROVE  /\ Deals[t].approval = "pending" /\ Books!Charge(t, owed, margin, 0) => Books!Accept(t)
           /\ /\ Deals[t].approval = "accepted" /\ Deals[t].delivery = "not_delivered"
              /\ Deals[t].payment = "unpaid" /\ Books!Charge(t, owed, margin, Slack)
              => Books!Revise(t)
  BY DEF Books!Accept, Books!Revise, Books!InHand, Books!Standing, Deals

LEMMA CreateIs ==
    ASSUME NEW t
    PROVE  Books!Create(t) <=>
             /\ Deals[t] = NoRow
             /\ \E m \in Members, c \in Currencies :
                   Deals' = [Deals EXCEPT ![t] = Books!Deal(m, c)]
             /\ UNCHANGED <<Debts, Earned, limits>>
  BY DEF Books!Create, Books!NoDeal, NoRow, Deals, Debts, Earned

LEMMA RejectIs ==
    ASSUME NEW t
    PROVE  Books!Reject(t) <=>
             /\ Deals[t].approval = "pending"
             /\ Deals' = [Deals EXCEPT ![t].approval = "cancelled"]
             /\ UNCHANGED <<Debts, Earned, limits>>
  BY DEF Books!Reject, Deals, Debts, Earned

LEMMA PayIs ==
    ASSUME NEW t, NEW x \in Claims,
           Deals[t].approval = "accepted", Deals[t].payment = "unpaid",
           x - Deals[t].owed <= Deals[t].doubt, Deals[t].owed - x <= Deals[t].doubt,
           Deals' = Collecting(Deals, t, x),
           Debts' = [Debts EXCEPT ![<<Deals[t].by, Deals[t].currency>>] = @ - x],
           UNCHANGED <<Earned, limits>>
    PROVE  Books!Pay(t)
  BY DEF Books!Pay, Collecting, Books!Standing, Books!Holder, Deals, Debts, Earned

LEMMA DeliverIs ==
    ASSUME NEW t
    PROVE  Books!Deliver(t) <=>
             /\ Deals[t].approval = "accepted" /\ Deals[t].delivery = "not_delivered"
             /\ Deals' = [Deals EXCEPT ![t].delivery = "delivered"]
             /\ UNCHANGED <<Debts, Earned, limits>>
  BY DEF Books!Deliver, Books!InHand, Books!Standing, Deals, Debts, Earned

LEMMA ReverseIs ==
    ASSUME NEW t
    PROVE  Books!Reverse(t) <=>
             /\ Deals[t].approval = "accepted" /\ Deals[t].delivery = "not_delivered"
             /\ Deals' = Closing(Deals, t)
             /\ Debts' = [Debts EXCEPT ![<<Deals[t].by, Deals[t].currency>>]
                                          = @ - Deals[t].owed + Deals[t].collected]
             /\ Earned' = [Earned EXCEPT ![Deals[t].currency] = @ - Deals[t].margin]
             /\ UNCHANGED limits
  BY DEF Books!Reverse, Closing, Books!InHand, Books!Standing, Books!Holder, Deals, Debts, Earned

LEMMA SettleIs ==
    ASSUME NEW m \in Members, NEW c \in Currencies, NEW x
    PROVE  /\ /\ x \in Moves /\ UNCHANGED <<Deals, Earned, limits>>
              /\ Debts' = [Debts EXCEPT ![<<m, c>>] = @ + x]
              => Books!Settle
           /\ /\ x \in LimitValues /\ UNCHANGED <<Deals, Debts, Earned>>
              /\ limits' = [limits EXCEPT ![<<m, c>>] = x]
              => Books!SetLimit
<1>1. <<m, c>> \in Members \X Currencies
  OBVIOUS
<1> QED
  BY <1>1 DEF Books!Settle, Books!SetLimit, Deals, Debts, Earned

(* The record of a transaction, read off a journal.                        *)
DealRecord(m, c, o, g, u, x, a, p, d) ==
    [by |-> m, currency |-> c, owed |-> o, margin |-> g, doubt |-> u, collected |-> x,
     approval |-> a, payment |-> p, delivery |-> d]

Held(row) == row.approval = "accepted"

ClaimIn(history, row) ==
    IF Held(row) THEN Net(history[row.approval_entry].lines, MemberAccount(row)) ELSE 0
GainIn(history, row) ==
    IF Held(row) THEN -Net(history[row.approval_entry].lines, Profit(row.currency_received)) ELSE 0
DoubtIn(history, t, row) == IF Held(row) /\ EditedIn(history, t, row) THEN Slack ELSE 0
CashIn(history, row) ==
    IF Held(row) /\ row.payment = "paid"
    THEN -Net(history[row.payment_entry].lines, MemberAccount(row)) ELSE 0

DealIn(history, t, row) ==
    DealRecord(row.by, row.currency_received, ClaimIn(history, row), GainIn(history, row),
               DoubtIn(history, t, row), CashIn(history, row),
               row.approval, row.payment, row.delivery)

LEMMA DealsAre ==
    /\ Deals = [t \in Txns |-> IF txns[t] # NoRow THEN DealIn(journal, t, txns[t]) ELSE NoRow]
    /\ Deals' = [t \in Txns |-> IF txns'[t] # NoRow THEN DealIn(journal', t, txns'[t]) ELSE NoRow]
<1>1. ASSUME NEW t \in Txns
      PROVE  /\ DealOf(t, txns[t]) = DealIn(journal, t, txns[t])
             /\ DealOf(t, txns[t])' = DealIn(journal', t, txns'[t])
  BY DEF DealOf, PostedOn, Edited, DealIn, DealRecord, Held, ClaimIn, GainIn, DoubtIn, CashIn,
         EditedIn, Profit
<1>2. Deals = [t \in Txns |-> IF txns[t] # NoRow THEN DealIn(journal, t, txns[t]) ELSE NoRow]
  BY <1>1 DEF Deals, Created
<1>3. Deals' = [t \in Txns |-> IF txns'[t] # NoRow THEN DealIn(journal', t, txns'[t]) ELSE NoRow]
  BY <1>1 DEF Deals, Created
<1> QED
  BY <1>2, <1>3

(* What an accepted row has on its member's account and on the fees, and   *)
(* how far the claim lies from the sum of the columns.                     *)
LEMMA HeldEffects ==
    ASSUME NEW history \in Seq(Entry), NEW t, NEW row,
           RowFits(history, t, row), Booked(history, t, row), Held(row)
    PROVE  /\ ClaimIn(history, row) \in Int /\ GainIn(history, row) \in Int
           /\ Within(ClaimIn(history, row), Owed(row), DoubtIn(history, t, row))
           /\ \A m, c : Net(history[row.approval_entry].lines, SmallOffice(m, c))
                 = IF row.by = m /\ row.currency_received = c THEN ClaimIn(history, row) ELSE 0
           /\ \A c : Net(history[row.approval_entry].lines, Profit(c))
                 = IF row.currency_received = c THEN -GainIn(history, row) ELSE 0
<1> DEFINE lines == history[row.approval_entry].lines
           in    == row.currency_received
           out   == row.currency_delivered
           box   == BoxAccount(row.box, out)
<1>1. row \in Row /\ row.box \in Boxes
  BY DEF RowFits, Boxed, Held
<1>2. PICK was : PostedAs(history, t, row, was)
  BY DEF Booked, Held
<1>3. PICK owed \in Int, margin \in Int, cost \in Int :
         /\ lines = ApprovalOf(row, owed, margin, cost, row.amount_delivered)
         /\ Within(owed, Owed(row), RowDoubt(history, t, row))
  BY <1>1, <1>2, ChargeLines
<1>4. row.amount_delivered \in Int
  BY <1>1, RowNumbers
<1>5. ASSUME NEW a
      PROVE  Net(lines, a) =
                On(MemberAccount(row), a, owed) + On(Profit(in), a, -margin)
                + IF ~IsDual(row) THEN On(box, a, -cost)
                  ELSE On(Fx(in), a, -cost) + On(Fx(out), a, row.amount_delivered)
                       + On(box, a, -row.amount_delivered)
  BY <1>1, <1>3, <1>4, ApprovalNet
<1> HIDE DEF lines
<1>6. ASSUME NEW m, NEW c
      PROVE  Net(lines, SmallOffice(m, c)) = IF row.by = m /\ in = c THEN owed ELSE 0
  <2> DEFINE a == SmallOffice(m, c)
  <2>1. Profit(in) # a /\ Fx(in) # a /\ Fx(out) # a /\ box # a
    BY OtherAccount
  <2>2. MemberAccount(row) = a <=> row.by = m /\ in = c
    BY SameAccount DEF MemberAccount
  <2> HIDE DEF a, box, in, out
  <2>3. Net(lines, a) = IF MemberAccount(row) = a THEN owed ELSE 0
    BY <1>5, <2>1 DEF On
  <2> QED
    BY <2>2, <2>3 DEF a
<1>7. ASSUME NEW c
      PROVE  Net(lines, Profit(c)) = IF in = c THEN -margin ELSE 0
  <2> DEFINE a == Profit(c)
  <2>1. MemberAccount(row) # a /\ Fx(in) # a /\ Fx(out) # a /\ box # a
    BY OtherAccount DEF MemberAccount
  <2>2. Profit(in) = a <=> in = c
    BY SameAccount
  <2> HIDE DEF a, box, in, out
  <2>3. Net(lines, a) = IF Profit(in) = a THEN -margin ELSE 0
    BY <1>5, <2>1 DEF On
  <2> QED
    BY <2>2, <2>3 DEF a
<1>8. Net(lines, MemberAccount(row)) = owed
  BY <1>6 DEF MemberAccount
<1>9. ClaimIn(history, row) = owed /\ GainIn(history, row) = margin
  BY <1>3, <1>7, <1>8 DEF ClaimIn, GainIn, lines, Held
<1>10. DoubtIn(history, t, row) = RowDoubt(history, t, row)
  BY DEF DoubtIn, RowDoubt
<1> QED
  BY <1>3, <1>6, <1>7, <1>9, <1>10 DEF lines

(* A payment takes from the member's account what the columns add up to.   *)
LEMMA PaidEffects ==
    ASSUME NEW history, NEW t, NEW row \in Row, Booked(history, t, row), row.payment = "paid"
    PROVE  /\ Held(row) /\ CashIn(history, row) = Owed(row) /\ Owed(row) \in Int
           /\ \A m, c : Net(history[row.payment_entry].lines, SmallOffice(m, c))
                 = IF row.by = m /\ row.currency_received = c THEN -Owed(row) ELSE 0
           /\ \A c : Net(history[row.payment_entry].lines, Profit(c)) = 0
<1> DEFINE in == row.currency_received
<1>1. Held(row) /\ history[row.payment_entry].lines = PaymentLines(row)
  BY DEF Booked, Held
<1>2. Owed(row) \in Int
  BY RowNumbers
<1>3. ASSUME NEW a
      PROVE  Net(PaymentLines(row), a)
                = On(Shop(in), a, Owed(row)) + On(MemberAccount(row), a, -Owed(row))
  BY PaymentNet
<1>4. ASSUME NEW m, NEW c
      PROVE  Net(PaymentLines(row), SmallOffice(m, c)) = IF row.by = m /\ in = c THEN -Owed(row) ELSE 0
  <2>1. Shop(in) # SmallOffice(m, c)
    BY OtherAccount
  <2>2. MemberAccount(row) = SmallOffice(m, c) <=> row.by = m /\ in = c
    BY SameAccount DEF MemberAccount
  <2> QED
    BY <1>2, <1>3, <2>1, <2>2 DEF On
<1>5. ASSUME NEW c
      PROVE  Net(PaymentLines(row), Profit(c)) = 0
  <2>1. Shop(in) # Profit(c) /\ MemberAccount(row) # Profit(c)
    BY OtherAccount DEF MemberAccount
  <2> QED
    BY <1>3, <2>1 DEF On
<1>6. Net(PaymentLines(row), MemberAccount(row)) = -Owed(row)
  BY <1>4 DEF MemberAccount
<1> QED
  BY <1>1, <1>2, <1>4, <1>5, <1>6 DEF CashIn

LEMMA RowEffects ==
    ASSUME NEW history \in Seq(Entry), NEW t, NEW row,
           RowFits(history, t, row), Booked(history, t, row)
    PROVE  LET open == ClaimIn(history, row) - CashIn(history, row) IN
           /\ \A m, c : EffectOn(history, row, SmallOffice(m, c))
                           = IF row.by = m /\ row.currency_received = c THEN open ELSE 0
           /\ \A c : EffectOn(history, row, Profit(c))
                        = IF row.currency_received = c THEN -GainIn(history, row) ELSE 0
           /\ ClaimIn(history, row) \in Int /\ GainIn(history, row) \in Int
           /\ CashIn(history, row) \in Int
<1>1. row \in Row /\ row # NoRow
  BY RowReads
<1>2. CASE Held(row) /\ row.payment = "paid"
  <2>1. CashIn(history, row) = Owed(row) /\ Owed(row) \in Int
    BY <1>1, <1>2, PaidEffects
  <2>2. ClaimIn(history, row) \in Int /\ GainIn(history, row) \in Int
    BY <1>2, HeldEffects
  <2>3. ASSUME NEW a
        PROVE  EffectOn(history, row, a) = Net(history[row.approval_entry].lines, a)
                                           + Net(history[row.payment_entry].lines, a)
    BY <1>1, <1>2 DEF EffectOn, Held
  <2>4. ASSUME NEW m, NEW c
        PROVE  EffectOn(history, row, SmallOffice(m, c))
                  = IF row.by = m /\ row.currency_received = c
                    THEN ClaimIn(history, row) - CashIn(history, row) ELSE 0
    <3>1. Net(history[row.approval_entry].lines, SmallOffice(m, c))
             = IF row.by = m /\ row.currency_received = c THEN ClaimIn(history, row) ELSE 0
      BY <1>2, HeldEffects
    <3>2. Net(history[row.payment_entry].lines, SmallOffice(m, c))
             = IF row.by = m /\ row.currency_received = c THEN -Owed(row) ELSE 0
      BY <1>1, <1>2, PaidEffects
    <3> QED
      BY <2>1, <2>2, <2>3, <3>1, <3>2
  <2>5. ASSUME NEW c
        PROVE  EffectOn(history, row, Profit(c))
                  = IF row.currency_received = c THEN -GainIn(history, row) ELSE 0
    <3>1. Net(history[row.approval_entry].lines, Profit(c))
             = IF row.currency_received = c THEN -GainIn(history, row) ELSE 0
      BY <1>2, HeldEffects
    <3>2. Net(history[row.payment_entry].lines, Profit(c)) = 0
      BY <1>1, <1>2, PaidEffects
    <3> QED
      BY <2>2, <2>3, <3>1, <3>2
  <2> QED
    BY <2>1, <2>2, <2>4, <2>5
<1>3. CASE Held(row) /\ row.payment # "paid"
  <2>1. CashIn(history, row) = 0
    BY <1>3 DEF CashIn
  <2>2. ClaimIn(history, row) \in Int /\ GainIn(history, row) \in Int
    BY <1>3, HeldEffects
  <2>3. ASSUME NEW a
        PROVE  EffectOn(history, row, a) = Net(history[row.approval_entry].lines, a) + 0
    BY <1>1, <1>3 DEF EffectOn, Held
  <2>4. ASSUME NEW m, NEW c
        PROVE  EffectOn(history, row, SmallOffice(m, c))
                  = IF row.by = m /\ row.currency_received = c
                    THEN ClaimIn(history, row) - CashIn(history, row) ELSE 0
    <3>1. Net(history[row.approval_entry].lines, SmallOffice(m, c))
             = IF row.by = m /\ row.currency_received = c THEN ClaimIn(history, row) ELSE 0
      BY <1>3, HeldEffects
    <3> QED
      BY <2>1, <2>2, <2>3, <3>1
  <2>5. ASSUME NEW c
        PROVE  EffectOn(history, row, Profit(c))
                  = IF row.currency_received = c THEN -GainIn(history, row) ELSE 0
    <3>1. Net(history[row.approval_entry].lines, Profit(c))
             = IF row.currency_received = c THEN -GainIn(history, row) ELSE 0
      BY <1>3, HeldEffects
    <3> QED
      BY <2>2, <2>3, <3>1
  <2> QED
    BY <2>1, <2>2, <2>4, <2>5
<1>4. CASE ~Held(row)
  <2>1. row.payment # "paid"
    BY <1>4 DEF Booked, Held
  <2>2. \A a : EffectOn(history, row, a) = 0
    BY <1>1, <1>4, <2>1 DEF EffectOn, Held
  <2>3. ClaimIn(history, row) = 0 /\ GainIn(history, row) = 0 /\ CashIn(history, row) = 0
    BY <1>4 DEF ClaimIn, GainIn, CashIn
  <2> QED
    BY <2>2, <2>3
<1> QED
  BY <1>2, <1>3, <1>4

LEMMA BooksType ==
    ASSUME BInv
    PROVE  /\ Debts \in [Members \X Currencies -> Int]
           /\ Earned \in [Currencies -> Int]
<1>1. journal \in Seq(Entry)
  BY DEF BInv, SInv, IInv, TypeOK
<1> QED
  BY <1>1, BalanceType DEF Debts, Earned

(* A step announces no approval but of t.                                  *)
NoneBut(t) ==
    \A e \in DOMAIN journal' \ DOMAIN journal :
       journal'[e].type = "transaction" => journal'[e].ref = t

(* What a row that keeps its approval entry keeps in the books.            *)
LEMMA KeptRecord ==
    ASSUME Grows(journal, journal'), NEW t, NEW row, NEW new, NamesPosted(journal, t, row),
           new.approval = row.approval, new.approval_entry = row.approval_entry,
           new.by = row.by, new.currency_received = row.currency_received,
           \A e \in DOMAIN journal' \ DOMAIN journal :
              journal'[e].type = "transaction" => journal'[e].ref # t
    PROVE  /\ ClaimIn(journal', new) = ClaimIn(journal, row)
           /\ GainIn(journal', new) = GainIn(journal, row)
           /\ DoubtIn(journal', t, new) = DoubtIn(journal, t, row)
           /\ new.payment = row.payment /\ new.payment_entry = row.payment_entry
                 => CashIn(journal', new) = CashIn(journal, row)
<1>1. MemberAccount(new) = MemberAccount(row)
  BY DEF MemberAccount
<1>2. Held(row) => journal'[row.approval_entry] = journal[row.approval_entry]
  BY DEF NamesPosted, Grows, Held
<1>3. row.payment = "paid" => journal'[row.payment_entry] = journal[row.payment_entry]
  BY DEF NamesPosted, Grows
<1>4. EditedIn(journal', t, new) <=> EditedIn(journal, t, row)
  BY DEF EditedIn, Grows
<1> QED
  BY <1>1, <1>2, <1>3, <1>4 DEF ClaimIn, GainIn, DoubtIn, CashIn, Held

LEMMA OneDeal ==
    ASSUME BInv, Grows(journal, journal'), NEW t \in Txns, NoneBut(t), txns[t] # NoRow,
           txns'[t] # NoRow, \A u \in Txns \ {t} : txns'[u] = txns[u]
    PROVE  /\ Deals' = [Deals EXCEPT ![t] = DealIn(journal', t, txns'[t])]
           /\ Deals[t] = DealIn(journal, t, txns[t])
           /\ Deals = [u \in Txns |-> Deals[u]]
<1>1. ASSUME NEW u \in Txns \ {t}, txns[u] # NoRow
      PROVE  DealIn(journal', u, txns'[u]) = DealIn(journal, u, txns[u])
  <2> DEFINE row == txns[u]
  <2>1. NamesPosted(journal, u, row)
    BY <1>1 DEF BInv, SInv, IInv, Created, RowFits
  <2>2. \A e \in DOMAIN journal' \ DOMAIN journal :
           journal'[e].type = "transaction" => journal'[e].ref # u
    BY DEF NoneBut
  <2> HIDE DEF row
  <2>3. /\ ClaimIn(journal', row) = ClaimIn(journal, row)
        /\ GainIn(journal', row) = GainIn(journal, row)
        /\ DoubtIn(journal', u, row) = DoubtIn(journal, u, row)
        /\ CashIn(journal', row) = CashIn(journal, row)
    BY <2>1, <2>2, KeptRecord
  <2>4. DealIn(journal', u, row) = DealIn(journal, u, row)
    BY <2>3 DEF DealIn
  <2> QED
    BY <2>4 DEF row
<1> DEFINE old(u) == IF txns[u] # NoRow THEN DealIn(journal, u, txns[u]) ELSE NoRow
           now(u) == IF txns'[u] # NoRow THEN DealIn(journal', u, txns'[u]) ELSE NoRow
<1>2. Deals = [u \in Txns |-> old(u)] /\ Deals' = [u \in Txns |-> now(u)]
  BY DealsAre
<1>3. \A u \in Txns \ {t} : now(u) = old(u)
  BY <1>1
<1>4. now(t) = DealIn(journal', t, txns'[t]) /\ old(t) = DealIn(journal, t, txns[t])
  OBVIOUS
<1> HIDE DEF old, now
<1>5. Deals' = [Deals EXCEPT ![t] = now(t)] /\ Deals[t] = old(t) /\ Deals = [u \in Txns |-> Deals[u]]
  BY <1>2, <1>3
<1> QED
  BY <1>4, <1>5

(* A handler that writes the row of t moves the debt of its member and the *)
(* profit in its currency by what the row has on the two accounts.         *)
Moved(f, k, x, y) == [f EXCEPT ![k] = @ - x + y]
Less(f, k, x)     == [f EXCEPT ![k] = @ - x]

LEMMA RebookedMoves ==
    ASSUME BInv, BInv', NEW t \in Txns, Rebooked(t), txns[t] # NoRow,
           txns'[t].by = txns[t].by,
           txns'[t].currency_received = txns[t].currency_received
    PROVE  LET row == txns[t]  new == txns'[t]
               x == ClaimIn(journal, row)   p == CashIn(journal, row)
               y == ClaimIn(journal', new)  q == CashIn(journal', new)
           IN
           /\ Debts' = Moved(Debts, <<row.by, row.currency_received>>, x - p, y - q)
           /\ Earned' = Moved(Earned, row.currency_received,
                              GainIn(journal, row), GainIn(journal', new))
           /\ row.by \in Members /\ row.currency_received \in Currencies
           /\ x \in Int /\ p \in Int /\ y \in Int /\ q \in Int
           /\ GainIn(journal, row) \in Int /\ GainIn(journal', new) \in Int
<1> DEFINE row == txns[t]
           new == txns'[t]
           own == row.by
           cur == row.currency_received
           x   == ClaimIn(journal, row)
           p   == CashIn(journal, row)
           y   == ClaimIn(journal', new)
           q   == CashIn(journal', new)
           g   == GainIn(journal, row)
           h   == GainIn(journal', new)
<1>1. /\ new # NoRow /\ \A u \in Txns \ {t} : txns'[u] = txns[u]
      /\ \A a : Balance(journal', a) = Balance(journal, a) - EffectOn(journal, row, a)
                                         + EffectOn(journal', new, a)
  BY DEF Rebooked
<1>2. /\ RowFits(journal, t, row) /\ Booked(journal, t, row)
      /\ RowFits(journal', t, new) /\ Booked(journal', t, new)
      /\ journal \in Seq(Entry) /\ journal' \in Seq(Entry)
  BY <1>1 DEF BInv, SInv, IInv, Created, TypeOK
<1>3. own \in Members /\ cur \in Currencies /\ new.by = own /\ new.currency_received = cur
  BY <1>2 DEF RowFits, Row
<1>4. \A a : Balance(journal, a) \in Int
  BY <1>2, BalanceType
<1> HIDE DEF row, new
<1>5. x \in Int /\ p \in Int /\ y \in Int /\ q \in Int /\ g \in Int /\ h \in Int
  BY <1>2, RowEffects
<1>6. \A m, c : /\ EffectOn(journal, row, SmallOffice(m, c))
                      = IF own = m /\ cur = c THEN x - p ELSE 0
                /\ EffectOn(journal', new, SmallOffice(m, c))
                      = IF own = m /\ cur = c THEN y - q ELSE 0
  BY <1>2, <1>3, RowEffects
<1>7. \A c : /\ EffectOn(journal, row, Profit(c)) = IF cur = c THEN -g ELSE 0
             /\ EffectOn(journal', new, Profit(c)) = IF cur = c THEN -h ELSE 0
  BY <1>2, <1>3, RowEffects
<1> HIDE DEF own, cur, x, p, y, q, g, h
<1>8. ASSUME NEW m, NEW c
      PROVE  Balance(journal', SmallOffice(m, c))
                = IF m = own /\ c = cur
                  THEN Balance(journal, SmallOffice(m, c)) - (x - p) + (y - q)
                  ELSE Balance(journal, SmallOffice(m, c))
  BY <1>1, <1>4, <1>5, <1>6
<1>9. ASSUME NEW c
      PROVE  -Balance(journal', Profit(c))
                = IF c = cur THEN -Balance(journal, Profit(c)) - g + h
                  ELSE -Balance(journal, Profit(c))
  BY <1>1, <1>4, <1>5, <1>7
<1>10. Debts' = Moved(Debts, <<own, cur>>, x - p, y - q)
  <2>1. ASSUME NEW mc \in Members \X Currencies
        PROVE  Balance(journal', SmallOffice(mc[1], mc[2]))
                  = IF mc = <<own, cur>>
                    THEN Balance(journal, SmallOffice(mc[1], mc[2])) - (x - p) + (y - q)
                    ELSE Balance(journal, SmallOffice(mc[1], mc[2]))
    <3>1. mc[1] \in Members /\ mc[2] \in Currencies
          /\ (mc = <<own, cur>> <=> mc[1] = own /\ mc[2] = cur)
      OBVIOUS
    <3> QED
      BY <1>8, <3>1
  <2>2. <<own, cur>> \in Members \X Currencies
    BY <1>3
  <2> QED
    BY <2>1, <2>2 DEF Debts, Moved
<1>11. Earned' = Moved(Earned, cur, g, h)
  BY <1>3, <1>9 DEF Earned, Profit, Moved
<1> QED
  BY <1>3, <1>5, <1>10, <1>11 DEF row, new, own, cur, x, p, y, q, g, h

LEMMA OneColumn ==
    ASSUME NEW T, NEW f, f = [u \in T |-> f[u]], NEW t \in T, NEW x
    PROVE  /\ [f EXCEPT ![t].approval = x] = [f EXCEPT ![t] = [f[t] EXCEPT !.approval = x]]
           /\ [f EXCEPT ![t].delivery = x] = [f EXCEPT ![t] = [f[t] EXCEPT !.delivery = x]]
  OBVIOUS

Charged(r, owed, margin, doubt) ==
    [r EXCEPT !.approval = "accepted", !.owed = owed, !.margin = margin, !.doubt = doubt]
Collected(r, x) == [r EXCEPT !.payment = "paid", !.collected = x]
Closed(r)       == [r EXCEPT !.approval = "reversed", !.payment = "unpaid",
                             !.owed = 0, !.margin = 0, !.doubt = 0, !.collected = 0]

LEMMA ManyColumns ==
    ASSUME NEW T, NEW f, f = [u \in T |-> f[u]], NEW t \in T, NEW x, NEW y, NEW z
    PROVE  /\ Charging(f, t, x, y, z) = [f EXCEPT ![t] = Charged(f[t], x, y, z)]
           /\ Collecting(f, t, x) = [f EXCEPT ![t] = Collected(f[t], x)]
           /\ Closing(f, t) = [f EXCEPT ![t] = Closed(f[t])]
<1>1. Charging(f, t, x, y, z) = [f EXCEPT ![t] = Charged(f[t], x, y, z)]
  BY DEF Charged, Charging
<1>2. Collecting(f, t, x) = [f EXCEPT ![t] = Collected(f[t], x)]
  BY DEF Collected, Collecting
<1>3. Closing(f, t) = [f EXCEPT ![t] = Closed(f[t])]
  BY DEF Closed, Closing
<1> QED
  BY <1>1, <1>2, <1>3

LEMMA ChargedRecord ==
    ASSUME NEW m, NEW c, NEW o, NEW g, NEW u, NEW x, NEW a, NEW p, NEW d, NEW y, NEW z, NEW s,
           NEW r, r = DealRecord(m, c, o, g, u, x, a, p, d)
    PROVE  Charged(r, y, z, s) = DealRecord(m, c, y, z, s, x, "accepted", p, d)
<1> DEFINE r1 == [r EXCEPT !.approval = "accepted"]
           r2 == [r1 EXCEPT !.owed = y]
           r3 == [r2 EXCEPT !.margin = z]
           r4 == [r3 EXCEPT !.doubt = s]
<1>1. Charged(r, y, z, s) = r4
  BY DEF Charged
<1>2. r1 = DealRecord(m, c, o, g, u, x, "accepted", p, d)
  BY DEF DealRecord
<1> HIDE DEF r1
<1>3. r2 = DealRecord(m, c, y, g, u, x, "accepted", p, d)
  BY <1>2 DEF DealRecord
<1> HIDE DEF r2
<1>4. r3 = DealRecord(m, c, y, z, u, x, "accepted", p, d)
  BY <1>3 DEF DealRecord
<1> HIDE DEF r3
<1>5. r4 = DealRecord(m, c, y, z, s, x, "accepted", p, d)
  BY <1>4 DEF DealRecord
<1> QED
  BY <1>1, <1>5

LEMMA CollectedRecord ==
    ASSUME NEW m, NEW c, NEW o, NEW g, NEW u, NEW x, NEW a, NEW p, NEW d, NEW y,
           NEW r, r = DealRecord(m, c, o, g, u, x, a, p, d)
    PROVE  Collected(r, y) = DealRecord(m, c, o, g, u, y, a, "paid", d)
<1> DEFINE r1 == [r EXCEPT !.payment = "paid"]
           r2 == [r1 EXCEPT !.collected = y]
<1>1. Collected(r, y) = r2
  BY DEF Collected
<1>2. r1 = DealRecord(m, c, o, g, u, x, a, "paid", d)
  BY DEF DealRecord
<1> HIDE DEF r1
<1>3. r2 = DealRecord(m, c, o, g, u, y, a, "paid", d)
  BY <1>2 DEF DealRecord
<1> QED
  BY <1>1, <1>3

LEMMA ClosedRecord ==
    ASSUME NEW m, NEW c, NEW o, NEW g, NEW u, NEW x, NEW a, NEW p, NEW d,
           NEW r, r = DealRecord(m, c, o, g, u, x, a, p, d)
    PROVE  Closed(r) = DealRecord(m, c, 0, 0, 0, 0, "reversed", "unpaid", d)
<1> DEFINE r1 == [r EXCEPT !.approval = "reversed"]
           r2 == [r1 EXCEPT !.payment = "unpaid"]
           r3 == [r2 EXCEPT !.owed = 0]
           r4 == [r3 EXCEPT !.margin = 0]
           r5 == [r4 EXCEPT !.doubt = 0]
           r6 == [r5 EXCEPT !.collected = 0]
<1>1. Closed(r) = r6
  BY DEF Closed
<1>2. r1 = DealRecord(m, c, o, g, u, x, "reversed", p, d)
  BY DEF DealRecord
<1> HIDE DEF r1
<1>3. r2 = DealRecord(m, c, o, g, u, x, "reversed", "unpaid", d)
  BY <1>2 DEF DealRecord
<1> HIDE DEF r2
<1>4. r3 = DealRecord(m, c, 0, g, u, x, "reversed", "unpaid", d)
  BY <1>3 DEF DealRecord
<1> HIDE DEF r3
<1>5. r4 = DealRecord(m, c, 0, 0, u, x, "reversed", "unpaid", d)
  BY <1>4 DEF DealRecord
<1> HIDE DEF r4
<1>6. r5 = DealRecord(m, c, 0, 0, 0, x, "reversed", "unpaid", d)
  BY <1>5 DEF DealRecord
<1> HIDE DEF r5
<1>7. r6 = DealRecord(m, c, 0, 0, 0, 0, "reversed", "unpaid", d)
  BY <1>6 DEF DealRecord
<1> QED
  BY <1>1, <1>7

LEMMA LastOne ==
    ASSUME NEW old \in Seq(Entry), NEW new \in Seq(Entry), Grows(old, new),
           Len(new) = Len(old) + 1
    PROVE  \A e \in DOMAIN new : e = Len(old) + 1 \/ (e \in DOMAIN old /\ new[e] = old[e])
<1>1. Len(old) \in Nat /\ DOMAIN old = 1..Len(old) /\ DOMAIN new = 1..Len(new)
  OBVIOUS
<1>2. ASSUME NEW e \in DOMAIN new
      PROVE  e = Len(old) + 1 \/ e \in DOMAIN old
  BY <1>1
<1>3. \A e \in DOMAIN old : new[e] = old[e]
  BY DEF Grows
<1> QED
  BY <1>2, <1>3

(* The first approval leaves no doubt about a claim; an edit leaves what   *)
(* its rounding may have made.                                             *)
LEMMA ChargeDoubt ==
    ASSUME BInv, BInv', Announced, NEW w \in Workers, Charges(w),
           Held(txns'[workers[w].txn]), CommitEdit(w) => Held(txns[workers[w].txn])
    PROVE  DoubtIn(journal', workers[w].txn, txns'[workers[w].txn])
              = IF CommitApproval(w) THEN 0 ELSE Slack
<1> DEFINE t   == workers[w].txn
           row == txns[t]
           new == txns'[t]
<1>1. IInv /\ TypeOK /\ workers[w].pc = "checked"
      /\ (CommitApproval(w) => workers[w].op = "approve")
      /\ (CommitEdit(w) => workers[w].op = "edit")
  BY DEF BInv, SInv, IInv, Charges, CommitApproval, CommitEdit, AtStep
<1>2. t \in Txns /\ workers[w].copy \in Row /\ row # NoRow /\ NamesPosted(journal, t, row)
  BY <1>1, WorkerBusy, NoRowIsNoRow DEF RowFits
<1>3. txns \in [Txns -> Row \cup {NoRow}] /\ journal \in Seq(Entry)
  BY <1>1 DEF TypeOK
<1>4. CASE CommitApproval(w)
  <2>1. new = Accepted(workers[w].copy, Len(journal) + 1)
    BY <1>2, <1>3, <1>4 DEF CommitApproval
  <2>2. new.approval_entry = Len(journal) + 1
    <3> DEFINE copy == workers[w].copy
    <3>1. copy \in Row
      BY <1>2
    <3> HIDE DEF copy
    <3>2. Accepted(copy, Len(journal) + 1).approval_entry = Len(journal) + 1
      BY <3>1 DEF Accepted, Columns, Row
    <3> QED
      BY <2>1, <3>2 DEF copy
  <2>3. row.approval = "pending"
    BY <1>1, <1>4, BusyFresh DEF BInv
  <2>4. \A e \in DOMAIN journal : ~(journal[e].type = "transaction" /\ journal[e].ref = t)
    BY <2>3 DEF Announced
  <2>5. Grows(journal, journal') /\ Len(journal') = Len(journal) + 1
    <3> DEFINE entry == ApprovalEntry(t, workers[w].copy)
    <3>1. entry \in Entry
      <4>1. workers[w].copy.box \in Boxes
        BY <1>1, <1>4, WorkerBusy
      <4> QED
        BY <1>2, <1>3, <4>1, ApprovalEntryType
    <3>2. journal' = journal \o <<entry>>
      BY <1>4 DEF CommitApproval, Post
    <3> HIDE DEF entry
    <3> QED
      BY <1>3, <3>1, <3>2 DEF Grows
  <2>6. \A e \in DOMAIN journal' : e = Len(journal) + 1 \/ (e \in DOMAIN journal /\ journal'[e] = journal[e])
    <3>1. journal' \in Seq(Entry)
      BY DEF BInv, SInv, IInv, TypeOK
    <3> QED
      BY <1>3, <2>5, <3>1, LastOne
  <2>7. ~EditedIn(journal', t, new)
    BY <2>2, <2>4, <2>6 DEF EditedIn
  <2> QED
    BY <1>4, <2>7 DEF DoubtIn
<1>5. CASE CommitEdit(w)
  <2>1. new = Accepted(workers[w].copy, Len(journal) + 2)
    BY <1>2, <1>3, <1>5 DEF CommitEdit
  <2>2. new.approval_entry = Len(journal) + 2
    <3> DEFINE copy == workers[w].copy
    <3>1. copy \in Row
      BY <1>2
    <3> HIDE DEF copy
    <3>2. Accepted(copy, Len(journal) + 2).approval_entry = Len(journal) + 2
      BY <3>1 DEF Accepted, Columns, Row
    <3> QED
      BY <2>1, <3>2 DEF copy
  <2>3. /\ row.approval_entry \in DOMAIN journal
        /\ journal[row.approval_entry].type = "transaction" /\ journal[row.approval_entry].ref = t
    BY <1>2, <1>5 DEF NamesPosted, Held
  <2>4. Grows(journal, journal')
    <3>1. /\ Mirror(journal, workers[w].undo) \in Entry
          /\ ApprovalEntry(t, workers[w].copy) \in Entry
      <4>1. workers[w].undo \in DOMAIN journal /\ workers[w].copy.box \in Boxes
        BY <1>1, <1>5, WorkerBusy
      <4> QED
        BY <1>2, <1>3, <4>1, MirrorType, ApprovalEntryType
    <3> DEFINE es == <<Mirror(journal, workers[w].undo), ApprovalEntry(t, workers[w].copy)>>
    <3>2. es \in Seq(Entry) /\ Post(es)
      BY <1>5, <3>1 DEF CommitEdit
    <3> HIDE DEF es
    <3> QED
      BY <1>1, <3>2, PostGrows
  <2>5. /\ row.approval_entry \in DOMAIN journal' /\ row.approval_entry # new.approval_entry
        /\ journal'[row.approval_entry] = journal[row.approval_entry]
    <3>1. journal' \in Seq(Entry)
      BY DEF BInv, SInv, IInv, TypeOK
    <3> QED
      BY <1>3, <2>2, <2>3, <2>4, <3>1 DEF Grows
  <2>6. EditedIn(journal', t, new)
    BY <2>3, <2>5 DEF EditedIn
  <2>7. ~CommitApproval(w)
    BY <1>1, <1>5
  <2> QED
    BY <2>6, <2>7 DEF DoubtIn
<1> QED
  BY <1>4, <1>5 DEF Charges

(* What the four handlers that leave the figures of a row alone do to it.  *)
ClosesRow(w) == Reject(w) \/ Pay(w) \/ Deliver(w) \/ Reverse(w)

(* A handler that commits announces no approval but of its transaction.    *)
LEMMA WriterSteps ==
    ASSUME BInv, NEW w \in Workers, Charges(w) \/ ClosesRow(w)
    PROVE  /\ Grows(journal, journal') /\ NoneBut(workers[w].txn)
           /\ ClosesRow(w) => \A e \in DOMAIN journal' \ DOMAIN journal :
                                 journal'[e].type # "transaction"
<1>1. IInv /\ TypeOK /\ journal \in Seq(Entry)
  BY DEF BInv, SInv, IInv, TypeOK
<1>2. TxnStep(w)
  BY DEF Charges, ClosesRow, TxnStep
<1>3. Grows(journal, journal')
  <2>1. Next
    BY <1>2 DEF Next
  <2> QED
    BY <1>1, <2>1, NextGood DEF GoodStep
<1>4. ClosesRow(w) => ~Charges(w)
  BY DEF Charges, ClosesRow, CommitApproval, CommitEdit, Reject, Pay, Deliver, Reverse, AtStep
<1>5. CASE Charges(w)
  BY <1>3, <1>4, <1>5, ChargedJournal DEF NoneBut
<1>6. CASE ClosesRow(w)
  <2>1. UNCHANGED journal \/ \E es \in Seq(Entry) : Writes(w, es)
    BY <1>1, <1>2, TxnWrites
  <2>2. ASSUME NEW es \in Seq(Entry), Writes(w, es)
        PROVE  \A e \in DOMAIN journal' \ DOMAIN journal : journal'[e].type # "transaction"
    BY <1>1, <1>4, <1>6, <2>2, NewEntries DEF Writes
  <2>3. \A e \in DOMAIN journal' \ DOMAIN journal : journal'[e].type # "transaction"
    BY <2>1, <2>2
  <2> QED
    BY <1>3, <2>3 DEF NoneBut
<1> QED
  BY <1>5, <1>6

(* approve_transaction and edit_accepted_transaction.                      *)
LEMMA ChargeImplements ==
    ASSUME Alone, Unbounded, BInv, BInv', Columned, Announced, NEW w \in Workers, Charges(w)
    PROVE  Books!Next
<1> DEFINE t   == workers[w].txn
           row == txns[t]
           new == txns'[t]
           own == <<row.by, row.currency_received>>
           cur == row.currency_received
<1>1. /\ t \in Txns /\ row \in Row /\ row # NoRow /\ new \in Row /\ new # NoRow
      /\ row.payment = "unpaid" /\ row.delivery = "not_delivered"
      /\ new.approval = "accepted"
      /\ new.payment = "unpaid" /\ new.delivery = "not_delivered"
      /\ new.by = row.by /\ new.currency_received = row.currency_received
  BY ChargeCommits, Zenon
<1>a. \A u \in Txns \ {t} : txns'[u] = txns[u]
  BY ChargeCommits, Zenon
<1>b. row.approval = IF CommitApproval(w) THEN "pending" ELSE "accepted"
  BY ChargeCommits, Zenon
<1>c. UNCHANGED limits
  BY ChargeCommits, Zenon
<1>d. Balance(journal', MemberAccount(new)) <= limits[new.by, new.currency_received]
  BY ChargeCommits, Zenon
<1>2. Rebooked(t) /\ Grows(journal, journal') /\ NoneBut(t)
  BY CommitApprovalBooks, CommitEditBooks, WriterSteps DEF Charges
<1> DEFINE owed   == ClaimIn(journal', new)
           margin == GainIn(journal', new)
           doubt  == IF CommitApproval(w) THEN 0 ELSE Slack
<1>3. DoubtIn(journal', t, new) = doubt
  <2>1. CommitEdit(w) => Held(row)
    <3>1. CommitEdit(w) => ~CommitApproval(w)
      <4>1. CommitEdit(w) => workers[w].op = "edit"
        BY DEF CommitEdit, AtStep
      <4>2. CommitApproval(w) => workers[w].op = "approve"
        BY DEF CommitApproval, AtStep
      <4> QED
        BY <4>1, <4>2
    <3> QED
      BY <1>b, <3>1 DEF Held
  <2> QED
    BY <1>1, <2>1, ChargeDoubt DEF Held
<1>4. CashIn(journal, row) = 0 /\ CashIn(journal', new) = 0
  BY <1>1 DEF CashIn
<1>5. /\ Debts' = Moved(Debts, own, ClaimIn(journal, row) - CashIn(journal, row),
                                    owed - CashIn(journal', new))
      /\ Earned' = Moved(Earned, cur, GainIn(journal, row), margin)
      /\ row.by \in Members /\ cur \in Currencies
      /\ ClaimIn(journal, row) \in Int /\ owed \in Int
      /\ GainIn(journal, row) \in Int /\ margin \in Int
  BY <1>1, <1>2, RebookedMoves, Zenon
<1>6. /\ Deals' = [Deals EXCEPT ![t] = DealIn(journal', t, new)]
      /\ Deals[t] = DealIn(journal, t, row) /\ Deals = [u \in Txns |-> Deals[u]]
  BY <1>1, <1>2, <1>a, OneDeal
<1> HIDE DEF row, new, t
<1>7. /\ Deals[t] = DealRecord(row.by, cur, ClaimIn(journal, row), GainIn(journal, row),
                               DoubtIn(journal, t, row), 0,
                               row.approval, "unpaid", "not_delivered")
      /\ DealIn(journal', t, new) = DealRecord(row.by, cur, owed, margin, doubt, 0,
                                               "accepted", "unpaid", "not_delivered")
  BY <1>1, <1>3, <1>4, <1>6 DEF DealIn
<1> HIDE DEF owed, margin, doubt
<1>8. DealIn(journal', t, new) = Charged(Deals[t], owed, margin, doubt)
  BY <1>7, ChargedRecord
<1>9. Deals' = Charging(Deals, t, owed, margin, doubt)
  BY <1>1, <1>6, <1>8, ManyColumns
<1>10. /\ Deals[t].by = row.by /\ Deals[t].currency = cur
       /\ Deals[t].owed = ClaimIn(journal, row) /\ Deals[t].margin = GainIn(journal, row)
       /\ Deals[t].approval = row.approval /\ Deals[t].payment = "unpaid"
       /\ Deals[t].delivery = "not_delivered"
  BY <1>7 DEF DealRecord
<1>11. Debts'[own] <= limits[own]
  <2>1. own \in Members \X Currencies
    BY <1>5
  <2>2. Debts'[own] = Balance(journal', SmallOffice(row.by, cur))
    BY <2>1 DEF Debts
  <2>3. MemberAccount(new) = SmallOffice(row.by, cur)
    BY <1>1 DEF MemberAccount
  <2>4. Balance(journal', SmallOffice(row.by, cur)) <= limits[row.by, cur]
    BY <1>1, <1>d, <2>3, Zenon
  <2>5. Debts'[own] <= limits[row.by, cur]
    BY <2>2, <2>4, Zenon
  <2> QED
    BY <2>5, Zenon
<1>12. own = <<Deals[t].by, Deals[t].currency>>
  BY <1>10
<1> HIDE DEF own, cur
<1>13. /\ Debts' = [Debts EXCEPT ![own] = @ - Deals[t].owed + owed]
       /\ Earned' = [Earned EXCEPT ![Deals[t].currency] = @ - Deals[t].margin + margin]
  <2>1. Deals[t].owed - 0 = Deals[t].owed /\ owed - 0 = owed
    BY <1>5, <1>10
  <2> QED
    BY <1>4, <1>5, <1>10, <2>1 DEF Moved
<1>14. Books!Charge(t, owed, margin, doubt)
  BY <1>c, <1>9, <1>11, <1>12, <1>13, ChargeIs
<1>15. owed \in Claims /\ margin \in Margins
  BY <1>5 DEF Unbounded
<1>16. CASE CommitApproval(w)
  <2>1. Books!Charge(t, owed, margin, 0) /\ Deals[t].approval = "pending"
    BY <1>b, <1>10, <1>14, <1>16 DEF doubt
  <2>2. Books!Accept(t)
    BY <1>15, <2>1, AcceptReviseAre
  <2> QED
    BY <1>1, <2>2 DEF Books!Next
<1>17. CASE ~CommitApproval(w)
  <2>1. Books!Charge(t, owed, margin, Slack) /\ Deals[t].approval = "accepted"
    BY <1>b, <1>10, <1>14, <1>17 DEF doubt
  <2>2. Books!Revise(t)
    BY <1>10, <1>15, <2>1, AcceptReviseAre
  <2> QED
    BY <1>1, <2>2 DEF Books!Next
<1> QED
  BY <1>16, <1>17

LEMMA ColumnsWritten ==
    ASSUME BInv, NEW w \in Workers, ClosesRow(w)
    PROVE  LET row == txns[workers[w].txn]  new == txns'[workers[w].txn] IN
           /\ Reject(w) => /\ row.approval = "pending" /\ new.approval = "cancelled"
                           /\ new.payment = row.payment /\ new.delivery = row.delivery
           /\ Pay(w) => /\ row.approval = "accepted" /\ new.approval = "accepted"
                        /\ row.payment = "unpaid" /\ new.payment = "paid"
                        /\ new.delivery = row.delivery
           /\ Deliver(w) => /\ row.approval = "accepted" /\ new.approval = "accepted"
                            /\ row.delivery = "not_delivered" /\ new.delivery = "delivered"
                            /\ new.payment = row.payment /\ new.payment_entry = row.payment_entry
           /\ Reverse(w) => /\ row.approval = "accepted" /\ new.approval = "reversed"
                            /\ row.delivery = "not_delivered" /\ new.delivery = row.delivery
                            /\ new.payment = "unpaid"
           /\ row \in Row /\ new \in Row /\ SameTerms(row, new)
           /\ new.approval_entry = row.approval_entry
           /\ NamesPosted(journal, workers[w].txn, row)
           /\ workers[w].txn \in Txns /\ UNCHANGED limits
<1> DEFINE t    == workers[w].txn
           row  == txns[t]
           new  == txns'[t]
<1>1. /\ workers[w].pc = "loaded" /\ SInv /\ IInv
      /\ Reject(w) => workers[w].op = "reject"
      /\ Pay(w) => workers[w].op = "pay"
      /\ Deliver(w) => workers[w].op = "deliver"
      /\ Reverse(w) => workers[w].op = "reverse"
  BY DEF ClosesRow, Reject, Pay, Deliver, Reverse, AtStep, BInv, SInv
<1>2. /\ t \in Txns /\ row \in Row /\ row # NoRow /\ workers[w].copy = row
      /\ Admits(workers[w].op, row) /\ RowFits(journal, t, row)
  BY <1>1, BusyFresh
<1>3. txns \in [Txns -> Row \cup {NoRow}]
  BY <1>1 DEF IInv, TypeOK
<1>4. /\ Reject(w) => txns' = [txns EXCEPT ![t].approval = "cancelled"]
      /\ Pay(w) => txns' = [txns EXCEPT ![t].payment = "paid", ![t].payment_entry = Len(journal) + 1]
      /\ Deliver(w) => txns' = [txns EXCEPT ![t].delivery = "delivered"]
      /\ Reverse(w) => txns' = [txns EXCEPT ![t] = Undone(row)]
      /\ UNCHANGED limits
  BY <1>2 DEF ClosesRow, Reject, Pay, Deliver, Reverse
<1>5. Len(journal) + 1 \in Nat
  BY <1>1 DEF IInv, TypeOK
<1>6. row.payment \in {"paid", "unpaid"} /\ row.delivery \in {"delivered", "not_delivered"}
  BY <1>2 DEF Row
<1>7. row.payment_entry = NoEntry => row.payment = "unpaid"
  BY <1>2, <1>6 DEF RowFits, NamesPosted
<1>8. NamesPosted(journal, t, row)
  BY <1>2 DEF RowFits
<1> HIDE DEF row, t
<1>9. CASE Reject(w)
  <2>1. new = [row EXCEPT !.approval = "cancelled"]
    BY <1>2, <1>3, <1>4, <1>9 DEF row
  <2>2. CanReject(row)
    BY <1>1, <1>2, <1>9 DEF Admits
  <2> HIDE DEF new
  <2>3. /\ new \in Row /\ SameTerms(row, new) /\ new.approval = "cancelled"
        /\ new.payment = row.payment /\ new.delivery = row.delivery
        /\ new.approval_entry = row.approval_entry
    BY <1>2, <2>1 DEF Row, SameTerms
  <2> QED
    BY <1>1, <1>2, <1>4, <1>8, <1>9, <2>2, <2>3 DEF CanReject, row, t, new
<1>10. CASE Deliver(w)
  <2>1. new = [row EXCEPT !.delivery = "delivered"]
    BY <1>2, <1>3, <1>4, <1>10 DEF row
  <2>2. CanDeliver(row)
    BY <1>1, <1>2, <1>10 DEF Admits
  <2> HIDE DEF new
  <2>3. /\ new \in Row /\ SameTerms(row, new) /\ new.delivery = "delivered"
        /\ new.payment = row.payment /\ new.approval = row.approval
        /\ new.approval_entry = row.approval_entry /\ new.payment_entry = row.payment_entry
    BY <1>2, <2>1 DEF Row, SameTerms
  <2> QED
    BY <1>1, <1>2, <1>4, <1>6, <1>8, <1>10, <2>2, <2>3 DEF CanDeliver, row, t, new
<1>11. CASE Pay(w)
  <2>1. new = [row EXCEPT !.payment = "paid", !.payment_entry = Len(journal) + 1]
    BY <1>2, <1>3, <1>4, <1>11 DEF row
  <2>2. CanPay(row)
    BY <1>1, <1>2, <1>11 DEF Admits
  <2> HIDE DEF new
  <2>3. /\ new \in Row /\ SameTerms(row, new) /\ new.delivery = row.delivery
        /\ new.payment = "paid" /\ new.approval = row.approval
        /\ new.approval_entry = row.approval_entry
    BY <1>2, <1>5, <2>1 DEF Row, SameTerms
  <2> QED
    BY <1>1, <1>2, <1>4, <1>6, <1>8, <1>11, <2>2, <2>3 DEF CanPay, row, t, new
<1>12. CASE Reverse(w)
  <2>1. new = Undone(row)
    BY <1>2, <1>3, <1>4, <1>12 DEF row
  <2>2. CanReverse(row)
    BY <1>1, <1>2, <1>12 DEF Admits
  <2> HIDE DEF new
  <2>3. /\ new \in Row /\ SameTerms(row, new) /\ new.delivery = row.delivery
        /\ new.approval = "reversed" /\ new.payment = "unpaid"
        /\ new.approval_entry = row.approval_entry
    BY <1>2, <1>7, <2>1 DEF Undone, Row, SameTerms
  <2> QED
    BY <1>1, <1>2, <1>4, <1>6, <1>8, <1>12, <2>2, <2>3 DEF CanReverse, row, t, new
<1> QED
  BY <1>9, <1>10, <1>11, <1>12 DEF ClosesRow

(* Adding to an entry what it already has changes nothing.                 *)
LEMMA SameColumn ==
    ASSUME NEW K, NEW f \in [K -> Int], NEW k \in K, NEW x \in Int, NEW y \in Int
    PROVE  /\ Moved(f, k, x, x) = f /\ Moved(f, k, x, 0) = Less(f, k, x)
           /\ Moved(f, k, x - 0, x - y) = Less(f, k, y)
           /\ Moved(f, k, x - y, 0 - 0) = Moved(f, k, x, y)
<1>1. f[k] \in Int /\ f = [f EXCEPT ![k] = f[k]]
  OBVIOUS
<1>2. /\ f[k] - x + x = f[k] /\ f[k] - x + 0 = f[k] - x
      /\ f[k] - (x - 0) + (x - y) = f[k] - y
      /\ f[k] - (x - y) + (0 - 0) = f[k] - x + y
  BY <1>1
<1>3. Moved(f, k, x, x) = [f EXCEPT ![k] = f[k] - x + x]
  BY DEF Moved
<1>4. Moved(f, k, x, 0) = [f EXCEPT ![k] = f[k] - x + 0]
  BY DEF Moved
<1>5. Less(f, k, x) = [f EXCEPT ![k] = f[k] - x]
  BY DEF Less
<1>6. /\ Moved(f, k, x - 0, x - y) = [f EXCEPT ![k] = f[k] - (x - 0) + (x - y)]
      /\ Less(f, k, y) = [f EXCEPT ![k] = f[k] - y]
  BY DEF Moved, Less
<1>7. /\ Moved(f, k, x - y, 0 - 0) = [f EXCEPT ![k] = f[k] - (x - y) + (0 - 0)]
      /\ Moved(f, k, x, y) = [f EXCEPT ![k] = f[k] - x + y]
  BY DEF Moved
<1> QED
  BY <1>1, <1>2, <1>3, <1>4, <1>5, <1>6, <1>7

(* reject_transaction, mark_paid, mark_delivered and reverse_transaction.  *)
LEMMA CloseImplements ==
    ASSUME Unbounded, BInv, BInv', NEW w \in Workers, ClosesRow(w)
    PROVE  LET t == workers[w].txn IN
           Books!Reject(t) \/ Books!Pay(t) \/ Books!Deliver(t) \/ Books!Reverse(t)
<1> DEFINE t   == workers[w].txn
           row == txns[t]
           new == txns'[t]
           own == <<row.by, row.currency_received>>
           cur == row.currency_received
           x   == ClaimIn(journal, row)
           g   == GainIn(journal, row)
           u   == DoubtIn(journal, t, row)
           p   == CashIn(journal, row)
           y   == ClaimIn(journal', new)
           h   == GainIn(journal', new)
           v   == DoubtIn(journal', t, new)
           q   == CashIn(journal', new)
<1>1. /\ Reject(w) => /\ row.approval = "pending" /\ new.approval = "cancelled"
                      /\ new.payment = row.payment /\ new.delivery = row.delivery
      /\ Pay(w) => /\ row.approval = "accepted" /\ new.approval = "accepted"
                   /\ row.payment = "unpaid" /\ new.payment = "paid"
                   /\ new.delivery = row.delivery
      /\ Deliver(w) => /\ row.approval = "accepted" /\ new.approval = "accepted"
                       /\ row.delivery = "not_delivered" /\ new.delivery = "delivered"
                       /\ new.payment = row.payment /\ new.payment_entry = row.payment_entry
      /\ Reverse(w) => /\ row.approval = "accepted" /\ new.approval = "reversed"
                       /\ row.delivery = "not_delivered" /\ new.delivery = row.delivery
                       /\ new.payment = "unpaid"
      /\ row \in Row /\ new \in Row /\ SameTerms(row, new)
      /\ new.approval_entry = row.approval_entry /\ NamesPosted(journal, t, row)
      /\ t \in Txns
  BY ColumnsWritten, Zenon
<1>2. UNCHANGED limits
  BY ColumnsWritten, Zenon
<1>3. row # NoRow /\ new # NoRow
  BY <1>1, NoRowIsNoRow
<1>4. Rebooked(t)
  BY RejectBooks, PayBooks, DeliverBooks, ReverseBooks DEF ClosesRow
<1>5. new.by = row.by /\ new.currency_received = cur
  BY <1>1 DEF SameTerms
<1>6. /\ Debts' = Moved(Debts, own, x - p, y - q)
      /\ Earned' = Moved(Earned, cur, g, h)
      /\ row.by \in Members /\ cur \in Currencies
      /\ x \in Int /\ p \in Int /\ y \in Int /\ q \in Int /\ g \in Int /\ h \in Int
  <2>1. t \in Txns
    BY <1>1
  <2> QED
    BY <1>3, <1>4, <1>5, <2>1, RebookedMoves, Zenon
<1>7. /\ Grows(journal, journal') /\ NoneBut(t)
      /\ \A e \in DOMAIN journal' \ DOMAIN journal : journal'[e].type # "transaction"
  BY WriterSteps
<1>8. /\ Deals' = [Deals EXCEPT ![t] = DealIn(journal', t, new)]
      /\ Deals[t] = DealIn(journal, t, row) /\ Deals = [s \in Txns |-> Deals[s]]
  <2>1. \A s \in Txns \ {t} : txns'[s] = txns[s]
    BY <1>4 DEF Rebooked
  <2> QED
    BY <1>1, <1>3, <1>7, <2>1, OneDeal
<1>9. new.approval = row.approval =>
         /\ y = x /\ h = g /\ v = u
         /\ new.payment = row.payment /\ new.payment_entry = row.payment_entry => q = p
  BY <1>1, <1>5, <1>7, KeptRecord
<1>10. new.payment = "paid" /\ new.approval = "accepted" => q = Owed(new) /\ Within(y, q, v)
  <2>1. journal' \in Seq(Entry) /\ RowFits(journal', t, new) /\ Booked(journal', t, new)
    BY <1>1, <1>3 DEF BInv, SInv, IInv, TypeOK, Created
  <2> QED
    BY <1>1, <2>1, PaidEffects, HeldEffects
<1>11. /\ row.approval # "accepted" => x = 0 /\ g = 0 /\ u = 0 /\ p = 0
       /\ new.approval # "accepted" => y = 0 /\ h = 0 /\ v = 0 /\ q = 0
       /\ row.payment # "paid" => p = 0
  BY DEF ClaimIn, GainIn, DoubtIn, CashIn, Held
<1> DEFINE K == Members \X Currencies
<1>12. own \in K /\ Debts \in [K -> Int] /\ Earned \in [Currencies -> Int]
  BY <1>6, BooksType
<1> HIDE DEF row, new, t
<1>13. /\ Deals[t] = DealRecord(row.by, cur, x, g, u, p, row.approval, row.payment, row.delivery)
       /\ DealIn(journal', t, new)
             = DealRecord(row.by, cur, y, h, v, q, new.approval, new.payment, new.delivery)
  BY <1>5, <1>8 DEF DealIn
<1>14. /\ Deals[t].by = row.by /\ Deals[t].currency = cur
       /\ Deals[t].owed = x /\ Deals[t].margin = g /\ Deals[t].doubt = u
       /\ Deals[t].collected = p /\ Deals[t].approval = row.approval
       /\ Deals[t].payment = row.payment /\ Deals[t].delivery = row.delivery
  BY <1>13 DEF DealRecord
<1>15. <<Deals[t].by, Deals[t].currency>> = own
  BY <1>14
<1> HIDE DEF own, cur, K, x, g, u, p, y, h, v, q
<1>16. /\ Moved(Debts, own, 0, 0) = Debts
       /\ Moved(Debts, own, x - p, x - p) = Debts
       /\ Moved(Debts, own, x - 0, x - q) = Less(Debts, own, q)
       /\ Moved(Debts, own, x - p, 0 - 0) = Moved(Debts, own, x, p)
       /\ Moved(Earned, cur, 0, 0) = Earned
       /\ Moved(Earned, cur, g, g) = Earned
       /\ Moved(Earned, cur, g, 0) = Less(Earned, cur, g)
  <2>1. x - p \in Int
    BY <1>6
  <2> QED
    BY <1>6, <1>12, <2>1, SameColumn
<1>17. CASE Reject(w)
  <2>1. /\ x = 0 /\ g = 0 /\ u = 0 /\ p = 0 /\ y = 0 /\ h = 0 /\ v = 0 /\ q = 0
        /\ row.approval = "pending" /\ new.approval = "cancelled"
        /\ new.payment = row.payment /\ new.delivery = row.delivery
    BY <1>1, <1>11, <1>17
  <2>2. UNCHANGED <<Debts, Earned>>
    BY <1>6, <1>16, <2>1
  <2>3. DealIn(journal', t, new) = [Deals[t] EXCEPT !.approval = "cancelled"]
    <3>1. DealIn(journal', t, new)
             = DealRecord(row.by, cur, x, g, u, p, "cancelled", row.payment, row.delivery)
      BY <1>13, <2>1
    <3> QED
      BY <1>13, <3>1 DEF DealRecord
  <2>4. Deals' = [Deals EXCEPT ![t].approval = "cancelled"]
    BY <1>1, <1>8, <2>3, OneColumn
  <2>5. Books!Reject(t)
    BY <1>2, <1>14, <2>1, <2>2, <2>4, RejectIs
  <2> QED
    BY <2>5 DEF t
<1>18. CASE Deliver(w)
  <2>1. /\ row.approval = "accepted" /\ new.approval = "accepted"
        /\ row.delivery = "not_delivered" /\ new.delivery = "delivered"
        /\ new.payment = row.payment /\ y = x /\ h = g /\ v = u /\ q = p
    BY <1>1, <1>9, <1>18
  <2>2. UNCHANGED <<Debts, Earned>>
    BY <1>6, <1>16, <2>1
  <2>3. DealIn(journal', t, new) = [Deals[t] EXCEPT !.delivery = "delivered"]
    <3>1. DealIn(journal', t, new)
             = DealRecord(row.by, cur, x, g, u, p, row.approval, row.payment, "delivered")
      BY <1>13, <2>1
    <3> QED
      BY <1>13, <3>1 DEF DealRecord
  <2>4. Deals' = [Deals EXCEPT ![t].delivery = "delivered"]
    BY <1>1, <1>8, <2>3, OneColumn
  <2>5. Books!Deliver(t)
    BY <1>2, <1>14, <2>1, <2>2, <2>4, DeliverIs
  <2> QED
    BY <2>5 DEF t
<1>19. CASE Pay(w)
  <2>1. /\ row.approval = "accepted" /\ new.approval = "accepted"
        /\ row.payment = "unpaid" /\ new.payment = "paid" /\ new.delivery = row.delivery
        /\ y = x /\ h = g /\ v = u
    BY <1>1, <1>9, <1>19
  <2>2. p = 0 /\ Within(x, q, u)
    BY <1>10, <1>11, <2>1
  <2>3. UNCHANGED Earned /\ Debts' = Less(Debts, own, q)
    BY <1>6, <1>16, <2>1, <2>2
  <2>4. DealIn(journal', t, new) = Collected(Deals[t], q)
    <3>1. DealIn(journal', t, new)
             = DealRecord(row.by, cur, x, g, u, q, row.approval, "paid", row.delivery)
      BY <1>13, <2>1
    <3>2. Collected(Deals[t], q)
             = DealRecord(row.by, cur, x, g, u, q, row.approval, "paid", row.delivery)
      BY <1>13, CollectedRecord
    <3> QED
      BY <3>1, <3>2
  <2>5. Deals' = Collecting(Deals, t, q)
    BY <1>1, <1>8, <2>4, ManyColumns
  <2>6. q - Deals[t].owed <= Deals[t].doubt /\ Deals[t].owed - q <= Deals[t].doubt
    BY <1>14, <2>2 DEF Within
  <2>7. q \in Claims
    BY <1>6 DEF Unbounded
  <2>8. Debts' = [Debts EXCEPT ![<<Deals[t].by, Deals[t].currency>>] = @ - q]
    BY <1>15, <2>3 DEF Less
  <2>9. Books!Pay(t)
    BY <1>2, <1>14, <2>1, <2>3, <2>5, <2>6, <2>7, <2>8, PayIs
  <2> QED
    BY <2>9 DEF t
<1>20. CASE Reverse(w)
  <2>1. /\ row.approval = "accepted" /\ new.approval = "reversed"
        /\ row.delivery = "not_delivered" /\ new.delivery = row.delivery
        /\ new.payment = "unpaid" /\ y = 0 /\ h = 0 /\ v = 0 /\ q = 0
    BY <1>1, <1>11, <1>20
  <2>2. Earned' = Less(Earned, cur, g) /\ Debts' = Moved(Debts, own, x, p)
    BY <1>6, <1>16, <2>1
  <2>3. DealIn(journal', t, new) = Closed(Deals[t])
    <3>1. DealIn(journal', t, new)
             = DealRecord(row.by, cur, 0, 0, 0, 0, "reversed", "unpaid", row.delivery)
      BY <1>13, <2>1
    <3>2. Closed(Deals[t])
             = DealRecord(row.by, cur, 0, 0, 0, 0, "reversed", "unpaid", row.delivery)
      BY <1>13, ClosedRecord
    <3> QED
      BY <3>1, <3>2
  <2>4. Deals' = Closing(Deals, t)
    BY <1>1, <1>8, <2>3, ManyColumns
  <2>5. /\ Debts' = [Debts EXCEPT ![<<Deals[t].by, Deals[t].currency>>]
                                     = @ - Deals[t].owed + Deals[t].collected]
        /\ Earned' = [Earned EXCEPT ![Deals[t].currency] = @ - Deals[t].margin]
    BY <1>14, <1>15, <2>2 DEF Moved, Less
  <2>6. Books!Reverse(t)
    BY <1>2, <1>14, <2>1, <2>4, <2>5, ReverseIs
  <2> QED
    BY <2>6 DEF t
<1> QED
  BY <1>17, <1>18, <1>19, <1>20 DEF ClosesRow, t

(* The two lines of a settlement, as the columns keep them.                *)
LEMMA SavedTransfer ==
    ASSUME NEW p, NEW q, NEW x \in Int
    PROVE  Saved(<<Debit(p, x), Credit(q, x)>>) = <<Debit(p, Stored(x)), Credit(q, Stored(x))>>
<1> DEFINE a   == Debit(p, x)
           b   == Credit(q, x)
           two == <<a, b>>
<1>1. SavedLine(a) = Debit(p, Stored(x)) /\ SavedLine(b) = Credit(q, Stored(x))
  BY SavedSide
<1> HIDE DEF a, b
<1>2. Saved(two) = [i \in DOMAIN two |-> SavedLine(two[i])]
  BY DEF Saved, SavedLine
<1>3. [i \in DOMAIN two |-> SavedLine(two[i])] = <<SavedLine(a), SavedLine(b)>>
  OBVIOUS
<1>4. Saved(two) = <<Debit(p, Stored(x)), Credit(q, Stored(x))>>
  BY <1>1, <1>2, <1>3
<1> QED
  BY <1>4 DEF a, b

(* What a posting does to a member's account and to the fees.              *)
Nets(lines, m, c, x) ==
    /\ \A n, d : Net(lines, SmallOffice(n, d)) = IF n = m /\ d = c THEN x ELSE 0
    /\ \A d : Net(lines, Profit(d)) = 0

LEMMA TwoLinesNet ==
    ASSUME NEW other, NEW m, NEW c, NEW x \in Int,
           NEW e, e = SmallOffice(m, c),
           Debit(e, x) \in Line, Credit(e, x) \in Line,
           Debit(other, x) \in Line, Credit(other, x) \in Line,
           \A n, d : other # SmallOffice(n, d), \A d : other # Profit(d)
    PROVE  /\ Nets(<<Debit(other, x), Credit(e, x)>>, m, c, -x)
           /\ Nets(<<Debit(e, x), Credit(other, x)>>, m, c, x)
<1>1. ASSUME NEW a
      PROVE  /\ Net(<<Debit(other, x), Credit(e, x)>>, a) = On(other, a, x) + On(e, a, -x)
             /\ Net(<<Debit(e, x), Credit(other, x)>>, a) = On(e, a, x) + On(other, a, -x)
  BY NetOfTwo, PartOfLine
<1>2. ASSUME NEW n, NEW d
      PROVE  /\ \A y : On(other, SmallOffice(n, d), y) = 0
             /\ \A y : On(e, SmallOffice(n, d), y) = IF n = m /\ d = c THEN y ELSE 0
  BY SameAccount DEF On
<1>3. ASSUME NEW d
      PROVE  /\ \A y : On(other, Profit(d), y) = 0
             /\ \A y : On(e, Profit(d), y) = 0
  BY OtherAccount DEF On
<1>4. ASSUME NEW n, NEW d
      PROVE  /\ Net(<<Debit(other, x), Credit(e, x)>>, SmallOffice(n, d))
                   = IF n = m /\ d = c THEN -x ELSE 0
             /\ Net(<<Debit(e, x), Credit(other, x)>>, SmallOffice(n, d))
                   = IF n = m /\ d = c THEN x ELSE 0
  BY <1>1, <1>2
<1>5. ASSUME NEW d
      PROVE  /\ Net(<<Debit(other, x), Credit(e, x)>>, Profit(d)) = 0
             /\ Net(<<Debit(e, x), Credit(other, x)>>, Profit(d)) = 0
  BY <1>1, <1>3
<1> QED
  BY <1>4, <1>5 DEF Nets

(* Two lines away from the members' and the fee accounts.                  *)
LEMMA ElsewhereNet ==
    ASSUME NEW other, NEW b, NEW c, NEW x \in Int,
           Debit(other, x) \in Line, Credit(b, x) \in Line,
           \A n, d : other # SmallOffice(n, d) /\ b # SmallOffice(n, d),
           \A d : other # Profit(d) /\ b # Profit(d)
    PROVE  /\ \A n, d : Net(<<Debit(other, x), Credit(b, x)>>, SmallOffice(n, d)) = 0
           /\ \A d : Net(<<Debit(other, x), Credit(b, x)>>, Profit(d)) = 0
<1>1. ASSUME NEW a
      PROVE  Net(<<Debit(other, x), Credit(b, x)>>, a) = On(other, a, x) + On(b, a, -x)
  BY NetOfTwo, PartOfLine
<1> QED
  BY <1>1 DEF On

(* A journal that grows by no approval leaves the records alone.           *)
LEMMA DealsKept ==
    ASSUME BInv, UNCHANGED txns, Grows(journal, journal'),
           \A e \in DOMAIN journal' \ DOMAIN journal : journal'[e].type # "transaction"
    PROVE  UNCHANGED Deals
<1>1. ASSUME NEW t \in Txns, txns[t] # NoRow
      PROVE  DealIn(journal', t, txns'[t]) = DealIn(journal, t, txns[t])
  <2> DEFINE row == txns[t]
  <2>1. NamesPosted(journal, t, row) /\ txns'[t] = row
    BY <1>1 DEF BInv, SInv, IInv, Created, RowFits
  <2> HIDE DEF row
  <2>2. /\ ClaimIn(journal', row) = ClaimIn(journal, row)
        /\ GainIn(journal', row) = GainIn(journal, row)
        /\ DoubtIn(journal', t, row) = DoubtIn(journal, t, row)
        /\ CashIn(journal', row) = CashIn(journal, row)
    BY <2>1, KeptRecord
  <2>3. DealIn(journal', t, row) = DealIn(journal, t, row)
    BY <2>2 DEF DealIn
  <2> QED
    BY <2>1, <2>3 DEF row
<1> DEFINE old(t) == IF txns[t] # NoRow THEN DealIn(journal, t, txns[t]) ELSE NoRow
           now(t) == IF txns'[t] # NoRow THEN DealIn(journal', t, txns'[t]) ELSE NoRow
<1>2. Deals = [t \in Txns |-> old(t)] /\ Deals' = [t \in Txns |-> now(t)]
  BY DealsAre
<1>3. \A t \in Txns : now(t) = old(t)
  BY <1>1
<1> HIDE DEF old, now
<1> QED
  BY <1>2, <1>3

LEMMA DirectMoves ==
    ASSUME BInv, NEW w \in Workers, NEW op, NEW lines \in Seq(Line), Settle(w, op, lines)
    PROVE  LET kept == Saved(lines) IN
           /\ UNCHANGED <<Deals, limits>>
           /\ Debts' = [mc \in Members \X Currencies |->
                           Debts[mc] + Net(kept, SmallOffice(mc[1], mc[2]))]
           /\ Earned' = [c \in Currencies |-> Earned[c] - Net(kept, Profit(c))]
           /\ Debts \in [Members \X Currencies -> Int] /\ Earned \in [Currencies -> Int]
<1> DEFINE kept  == Saved(lines)
           entry == Posting("settlement", NoRef, lines)
           es    == <<entry>>
<1>1. \A a : Balance(journal', a) = Balance(journal, a) + Net(kept, a)
  BY SettleBooks
<1>2. UNCHANGED <<txns, limits>> /\ Post(es)
  BY DEF Settle
<1>3. entry \in Entry /\ entry.type = "settlement"
  BY PostingType DEF EntryType
<1>4. TypeOK /\ kept \in Seq(Line)
  BY SavedType DEF BInv, SInv, IInv
<1>5. UNCHANGED Deals
  <2> HIDE DEF entry
  <2>1. es \in Seq(Entry) /\ \A i \in DOMAIN es : es[i].type # "transaction"
    BY <1>3
  <2> HIDE DEF es
  <2>2. /\ Grows(journal, journal')
        /\ \A e \in DOMAIN journal' \ DOMAIN journal : journal'[e].type # "transaction"
    BY <1>2, <1>4, <2>1, PostGrows, NewEntries
  <2> QED
    BY <1>2, <2>2, DealsKept
<1> HIDE DEF kept, es
<1>6. ASSUME NEW a
      PROVE  Balance(journal, a) \in Int /\ Net(kept, a) \in Int
             /\ -Balance(journal', a) = -Balance(journal, a) - Net(kept, a)
  <2>1. Balance(journal, a) \in Int /\ Net(kept, a) \in Int
    BY <1>4, BalanceType, NetType DEF TypeOK
  <2> QED
    BY <1>1, <2>1
<1>7. Debts' = [mc \in Members \X Currencies |->
                   Debts[mc] + Net(kept, SmallOffice(mc[1], mc[2]))]
  BY <1>1 DEF Debts
<1>8. Earned' = [c \in Currencies |-> Earned[c] - Net(kept, Profit(c))]
  BY <1>6 DEF Earned, Profit
<1>9. UNCHANGED <<Deals, limits>>
  BY <1>2, <1>5
<1> QED
  BY <1>7, <1>8, <1>9, BooksType DEF kept

LEMMA SettleImplements ==
    ASSUME BInv, NEW w \in Workers, NEW op, NEW lines \in Seq(Line), Settle(w, op, lines),
           NEW m \in Members, NEW c \in Currencies, NEW x \in Int, x \in Moves,
           Nets(Saved(lines), m, c, x)
    PROVE  Books!Settle
<1> DEFINE kept == Saved(lines)
<1>1. /\ UNCHANGED <<Deals, limits>>
      /\ Debts' = [mc \in Members \X Currencies |->
                           Debts[mc] + Net(kept, SmallOffice(mc[1], mc[2]))]
      /\ Earned' = [d \in Currencies |-> Earned[d] - Net(kept, Profit(d))]
      /\ Debts \in [Members \X Currencies -> Int] /\ Earned \in [Currencies -> Int]
  BY DirectMoves
<1> HIDE DEF kept
<1>2. Nets(kept, m, c, x)
  BY DEF kept
<1>3. UNCHANGED Earned
  BY <1>1, <1>2 DEF Nets
<1>4. ASSUME NEW mc \in Members \X Currencies
      PROVE  Debts[mc] + Net(kept, SmallOffice(mc[1], mc[2]))
                = IF mc = <<m, c>> THEN Debts[mc] + x ELSE Debts[mc]
  <2>1. mc = <<m, c>> <=> mc[1] = m /\ mc[2] = c
    OBVIOUS
  <2>2. Net(kept, SmallOffice(mc[1], mc[2])) = IF mc[1] = m /\ mc[2] = c THEN x ELSE 0
    BY <1>2 DEF Nets
  <2>3. Debts[mc] \in Int
    BY <1>1
  <2> QED
    BY <2>1, <2>2, <2>3
<1>5. Debts' = [Debts EXCEPT ![<<m, c>>] = @ + x]
  <2>1. <<m, c>> \in Members \X Currencies
    OBVIOUS
  <2>2. Debts' = [mc \in Members \X Currencies |->
                     IF mc = <<m, c>> THEN Debts[mc] + x ELSE Debts[mc]]
    BY <1>1, <1>4
  <2> QED
    BY <1>1, <2>1, <2>2
<1>6. UNCHANGED <<Deals, Earned, limits>>
  BY <1>1, <1>3
<1> HIDE DEF Deals, Debts, Earned
<1> QED
  BY <1>5, <1>6, SettleIs

(* Deposits, withdrawals and payments of members; adjustments of a box.    *)
LEMMA SettlementsImplement ==
    ASSUME Unbounded, BInv, NEW w \in Workers, NEW c \in Currencies, NEW x \in SettleAmounts
    PROVE  /\ \A m \in Members, b \in Boxes :
                Deposit(w, m, b, c, x) \/ Withdraw(w, m, b, c, x) => Books!Settle
           /\ \A m \in Members : MemberPayment(w, m, c, x) => Books!Settle
           /\ \A b \in Boxes, direction \in {"in", "out"} :
                AdjustBox(w, b, c, x, direction) => UNCHANGED Books!vars
<1> DEFINE s == Stored(x)
<1>1. x \in Int
  BY InputAssumption
<1>2. s \in Int /\ -s \in Int
  BY <1>1, StoredRounds
<1>3. s \in Moves /\ -s \in Moves
  BY <1>2 DEF Unbounded
<1>4. \A p, q : Saved(<<Debit(p, x), Credit(q, x)>>) = <<Debit(p, s), Credit(q, s)>>
  BY <1>1, SavedTransfer
<1> HIDE DEF s
(* A member, and an account that is nobody's: what moves between them.     *)
<1>5. ASSUME NEW m \in Members, NEW other \in Account,
             \A n, d : other # SmallOffice(n, d), \A d : other # Profit(d)
      PROVE  LET in  == <<Debit(other, x), Credit(SmallOffice(m, c), x)>>
                 out == <<Debit(SmallOffice(m, c), x), Credit(other, x)>>
             IN  /\ in \in Seq(Line) /\ out \in Seq(Line)
                 /\ Nets(Saved(in), m, c, -s) /\ Nets(Saved(out), m, c, s)
  <2> DEFINE e == SmallOffice(m, c)
  <2>1. e \in Account /\ e = SmallOffice(m, c)
    BY AccountType
  <2> HIDE DEF e
  <2>2. /\ Debit(other, x) \in Line /\ Credit(e, x) \in Line
        /\ Debit(e, x) \in Line /\ Credit(other, x) \in Line
        /\ Debit(other, s) \in Line /\ Credit(e, s) \in Line
        /\ Debit(e, s) \in Line /\ Credit(other, s) \in Line
    BY <1>1, <1>2, <1>5, <2>1, LineType
  <2>3. /\ Nets(<<Debit(other, s), Credit(e, s)>>, m, c, -s)
        /\ Nets(<<Debit(e, s), Credit(other, s)>>, m, c, s)
    BY <1>2, <1>5, <2>1, <2>2, TwoLinesNet
  <2>4. /\ <<Debit(other, x), Credit(e, x)>> \in Seq(Line)
        /\ <<Debit(e, x), Credit(other, x)>> \in Seq(Line)
    BY <2>2
  <2>5. /\ Nets(Saved(<<Debit(other, x), Credit(e, x)>>), m, c, -s)
        /\ Nets(Saved(<<Debit(e, x), Credit(other, x)>>), m, c, s)
    BY <1>4, <2>3
  <2> QED
    BY <2>4, <2>5 DEF e
<1>6. ASSUME NEW m \in Members, NEW b \in Boxes, Deposit(w, m, b, c, x) \/ Withdraw(w, m, b, c, x)
      PROVE  Books!Settle
  <2> DEFINE box == BoxAccount(b, c)
             in  == <<Debit(box, x), Credit(SmallOffice(m, c), x)>>
             out == <<Debit(SmallOffice(m, c), x), Credit(box, x)>>
  <2>1. box \in Account /\ \A n, d : box # SmallOffice(n, d)
    BY AccountType, OtherAccount
  <2>2. \A d : box # Profit(d)
    BY OtherAccount
  <2>3. Settle(w, "deposit", in) \/ Settle(w, "withdraw", out)
    BY <1>6 DEF Deposit, Withdraw
  <2> HIDE DEF box
  <2>4. /\ in \in Seq(Line) /\ out \in Seq(Line)
        /\ Nets(Saved(in), m, c, -s) /\ Nets(Saved(out), m, c, s)
    BY <1>5, <2>1, <2>2
  <2> HIDE DEF in, out
  <2> QED
    BY <1>2, <1>3, <2>3, <2>4, SettleImplements
<1>7. ASSUME NEW m \in Members, MemberPayment(w, m, c, x)
      PROVE  Books!Settle
  <2> DEFINE shop == Shop(c)
             in   == <<Debit(shop, x), Credit(SmallOffice(m, c), x)>>
  <2>1. shop \in Account /\ \A n, d : shop # SmallOffice(n, d)
    BY AccountType, OtherAccount DEF TenantKinds, Shop
  <2>2. \A d : shop # Profit(d)
    BY OtherAccount
  <2>3. Settle(w, "payment", in)
    BY <1>7 DEF MemberPayment, Shop
  <2> HIDE DEF shop
  <2>4. in \in Seq(Line) /\ Nets(Saved(in), m, c, -s)
    BY <1>5, <2>1, <2>2
  <2> HIDE DEF in
  <2> QED
    BY <1>2, <1>3, <2>3, <2>4, SettleImplements
<1>8. ASSUME NEW b \in Boxes, NEW direction \in {"in", "out"}, AdjustBox(w, b, c, x, direction)
      PROVE  UNCHANGED Books!vars
  <2> DEFINE box   == BoxAccount(b, c)
             adj   == TenantAccount("adjustment", c)
             lines == IF direction = "in" THEN <<Debit(box, x), Credit(adj, x)>>
                                          ELSE <<Debit(adj, x), Credit(box, x)>>
             kept  == Saved(lines)
  <2>1. /\ Debit(box, x) \in Line /\ Credit(box, x) \in Line
        /\ Debit(adj, x) \in Line /\ Credit(adj, x) \in Line
        /\ Debit(box, s) \in Line /\ Credit(box, s) \in Line
        /\ Debit(adj, s) \in Line /\ Credit(adj, s) \in Line
    BY <1>1, <1>2, SettlementLines
  <2>2. /\ \A n, d : box # SmallOffice(n, d) /\ adj # SmallOffice(n, d)
        /\ \A d : box # Profit(d) /\ adj # Profit(d)
    BY OtherAccount DEF Profit, TenantAccount
  <2>3. Settle(w, "adjust", lines)
    BY <1>8 DEF AdjustBox
  <2> HIDE DEF box, adj
  <2>4. /\ lines \in Seq(Line)
        /\ kept = IF direction = "in" THEN <<Debit(box, s), Credit(adj, s)>>
                                      ELSE <<Debit(adj, s), Credit(box, s)>>
    BY <1>4, <2>1
  <2>5. /\ \A n, d : Net(kept, SmallOffice(n, d)) = 0
        /\ \A d : Net(kept, Profit(d)) = 0
    BY <1>2, <2>1, <2>2, <2>4, ElsewhereNet
  <2> HIDE DEF lines
  <2>6. /\ UNCHANGED <<Deals, limits>>
        /\ Debts' = [mc \in Members \X Currencies |->
                        Debts[mc] + Net(kept, SmallOffice(mc[1], mc[2]))]
        /\ Earned' = [d \in Currencies |-> Earned[d] - Net(kept, Profit(d))]
        /\ Debts \in [Members \X Currencies -> Int] /\ Earned \in [Currencies -> Int]
    BY <2>3, <2>4, DirectMoves
  <2> HIDE DEF kept
  <2>7. UNCHANGED <<Deals, Debts, Earned, limits>>
    BY <2>5, <2>6
  <2> QED
    BY <2>7, BooksAre
<1> QED
  BY <1>6, <1>7, <1>8

LEMMA NewDeal ==
    ASSUME NEW history, NEW t, NEW d
    PROVE  DealIn(history, t, NewRow(d)) = Books!Deal(d.by, d.currency_received)
<1> DEFINE row == NewRow(d)
<1>1. /\ row.by = d.by /\ row.currency_received = d.currency_received
      /\ row.approval = "pending" /\ row.payment = "unpaid" /\ row.delivery = "not_delivered"
  BY DEF NewRow
<1> HIDE DEF row
<1>2. /\ ClaimIn(history, row) = 0 /\ GainIn(history, row) = 0
      /\ DoubtIn(history, t, row) = 0 /\ CashIn(history, row) = 0
  BY <1>1 DEF ClaimIn, GainIn, DoubtIn, CashIn, Held
<1>3. DealIn(history, t, row)
         = DealRecord(d.by, d.currency_received, 0, 0, 0, 0, "pending", "unpaid", "not_delivered")
  BY <1>1, <1>2 DEF DealIn
<1> QED
  BY <1>3 DEF row, DealRecord, Books!Deal

(* create_transaction and the limits.                                      *)
LEMMA CreateImplements ==
    ASSUME BInv, NEW w \in Workers, NEW t \in Txns, NEW d \in Drafts, Create(w, t, d)
    PROVE  Books!Next
<1> DEFINE new == NewRow(d)
<1>1. /\ txns[t] = NoRow /\ txns' = [txns EXCEPT ![t] = new]
      /\ UNCHANGED <<journal, limits>> /\ txns \in [Txns -> Row \cup {NoRow}]
  BY DEF Create, Created, BInv, SInv, IInv, TypeOK
<1>2. d.by \in Members /\ d.currency_received \in Currencies
  BY InputAssumption DEF Draft
<1>3. new # NoRow
  <2>1. new.approval = "pending" /\ NoRow.approval = "absent"
    BY DEF NewRow, NoRow
  <2> QED
    BY <2>1
<1>4. DealIn(journal', t, new) = Books!Deal(d.by, d.currency_received)
  BY NewDeal
<1> HIDE DEF new
<1>5. txns'[t] = new /\ \A u \in Txns \ {t} : txns'[u] = txns[u]
  BY <1>1
<1> DEFINE old(u) == IF txns[u] # NoRow THEN DealIn(journal, u, txns[u]) ELSE NoRow
           now(u) == IF txns'[u] # NoRow THEN DealIn(journal', u, txns'[u]) ELSE NoRow
<1>6. Deals = [u \in Txns |-> old(u)] /\ Deals' = [u \in Txns |-> now(u)]
  BY DealsAre
<1>7. \A u \in Txns \ {t} : now(u) = old(u)
  BY <1>1, <1>5
<1>8. old(t) = NoRow /\ now(t) = DealIn(journal', t, new)
  BY <1>1, <1>3, <1>5
<1> HIDE DEF old, now
<1>9. Deals' = [Deals EXCEPT ![t] = now(t)] /\ Deals[t] = old(t)
  BY <1>6, <1>7
<1>10. UNCHANGED <<Debts, Earned, limits>>
  BY <1>1 DEF Debts, Earned
<1>11. Deals[t] = NoRow /\ Deals' = [Deals EXCEPT ![t] = Books!Deal(d.by, d.currency_received)]
  BY <1>4, <1>8, <1>9
<1> HIDE DEF Deals, Debts, Earned
<1>12. Books!Create(t)
  BY <1>2, <1>10, <1>11, CreateIs
<1> QED
  BY <1>12 DEF Books!Next

LEMMA SameBooks ==
    ASSUME UNCHANGED <<journal, txns>>
    PROVE  UNCHANGED <<Deals, Debts, Earned>>
<1>1. UNCHANGED Deals
  BY DealsAre
<1>2. UNCHANGED <<Debts, Earned>>
  BY DEF Debts, Earned
<1> QED
  BY <1>1, <1>2

LEMMA LimitImplements ==
    ASSUME NEW w \in Workers, NEW m \in Members, NEW c \in Currencies, NEW x \in LimitValues,
           SetLimit(w, m, c, x)
    PROVE  Books!Next
<1>1. limits' = [limits EXCEPT ![<<m, c>>] = x] /\ UNCHANGED <<journal, txns>>
  BY DEF SetLimit
<1>2. UNCHANGED <<Deals, Debts, Earned>>
  BY <1>1, SameBooks
<1> HIDE DEF Deals, Debts, Earned
<1>3. Books!SetLimit
  BY <1>1, <1>2, SettleIs
<1> QED
  BY <1>3 DEF Books!Next

(* Loading a row, the credit check and an answer that writes nothing.      *)
LEMMA QuietImplements ==
    ASSUME UNCHANGED <<journal, txns, limits>>
    PROVE  UNCHANGED Books!vars
<1>1. UNCHANGED <<Deals, Debts, Earned, limits>>
  BY SameBooks
<1> QED
  BY <1>1, BooksAre

LEMMA NextImplements ==
    ASSUME Alone, NoManualReversal, Unbounded, BInv, BInv', Columned, Announced, Next
    PROVE  [Books!Next]_(Books!vars)
<1>1. PICK w \in Workers : TxnStep(w) \/ SettleStep(w)
  BY DEF Next
<1>2. CASE TxnStep(w)
  <2>1. ASSUME NEW t \in Txns, NEW d \in Drafts, Create(w, t, d)
        PROVE  Books!Next
    BY <2>1, CreateImplements
  <2>2. CASE Charges(w)
    BY <2>2, ChargeImplements
  <2>3. CASE ClosesRow(w)
    <3>1. workers[w].txn \in Txns
      BY <2>3, ColumnsWritten
    <3> QED
      BY <2>3, <3>1, CloseImplements DEF Books!Next
  <2>4. ASSUME \/ \E op \in TxnOps, t \in Txns : Begin(w, op, t)
               \/ \E q \in Quotes : CheckApproval(w, q)
               \/ \E edit \in Edits : CheckEdit(w, edit)
               \/ Fail(w)
        PROVE  UNCHANGED Books!vars
    <3>1. ASSUME NEW op \in TxnOps, NEW t \in Txns, Begin(w, op, t)
          PROVE  UNCHANGED <<journal, txns, limits>>
      BY <3>1 DEF Begin
    <3>2. ASSUME NEW q \in Quotes, CheckApproval(w, q)
          PROVE  UNCHANGED <<journal, txns, limits>>
      BY <3>2 DEF CheckApproval
    <3>3. ASSUME NEW edit \in Edits, CheckEdit(w, edit)
          PROVE  UNCHANGED <<journal, txns, limits>>
      BY <3>3 DEF CheckEdit
    <3>4. ASSUME Fail(w)
          PROVE  UNCHANGED <<journal, txns, limits>>
      BY <3>4 DEF Fail
    <3>5. UNCHANGED <<journal, txns, limits>>
      BY <2>4, <3>1, <3>2, <3>3, <3>4
    <3> QED
      BY <3>5, QuietImplements
  <2> QED
    BY <1>2, <2>1, <2>2, <2>3, <2>4 DEF TxnStep, Charges, ClosesRow
<1>3. CASE SettleStep(w)
  <2>1. \A e : ~ReverseEntry(w, e)
    BY DEF NoManualReversal, ReverseEntry
  <2>2. ASSUME NEW m \in Members, NEW c \in Currencies, NEW x \in LimitValues, SetLimit(w, m, c, x)
        PROVE  Books!Next
    BY <2>2, LimitImplements
  <2>3. ASSUME NEW m \in Members, NEW b \in Boxes, NEW c \in Currencies, NEW x \in SettleAmounts,
               Deposit(w, m, b, c, x) \/ Withdraw(w, m, b, c, x)
        PROVE  Books!Next
    BY <2>3, SettlementsImplement DEF Books!Next
  <2>4. ASSUME NEW m \in Members, NEW c \in Currencies, NEW x \in SettleAmounts,
               MemberPayment(w, m, c, x)
        PROVE  Books!Next
    BY <2>4, SettlementsImplement DEF Books!Next
  <2>5. ASSUME NEW b \in Boxes, NEW c \in Currencies, NEW x \in SettleAmounts,
               NEW direction \in {"in", "out"}, AdjustBox(w, b, c, x, direction)
        PROVE  UNCHANGED Books!vars
    BY <2>5, SettlementsImplement
  <2> QED
    BY <1>3, <2>1, <2>2, <2>3, <2>4, <2>5 DEF SettleStep
<1> QED
  BY <1>1, <1>2, <1>3

LEMMA InitImplements == Init => Books!Init
<1> SUFFICES ASSUME Init PROVE Books!Init
  OBVIOUS
<1>1. journal = << >> /\ txns = [t \in Txns |-> NoRow]
      /\ limits = [mc \in Members \X Currencies |-> 0]
  BY DEF Init
<1>2. \A a : Balance(journal, a) = 0
  <2>1. DOMAIN journal = {}
    BY <1>1
  <2> QED
    BY <2>1, SumEmpty DEF Balance, SumFunction, SumOn
<1>3. Deals = [t \in Txns |-> NoRow]
  BY <1>1 DEF Deals, Created
<1>4. Debts = [mc \in Members \X Currencies |-> 0] /\ Earned = [c \in Currencies |-> 0]
  BY <1>2 DEF Debts, Earned
<1> QED
  BY <1>1, <1>3, <1>4, BooksAre

(* With one request at a time the handlers with their journal implement    *)
(* the books of the office: every commit of a service is one operation on  *)
(* the record of its transaction, the debt of its member and the profit,   *)
(* and the loads, the credit checks and the refusals change none of them.  *)
(* What the columns and the lines were rounded to shows only where the     *)
(* books allow it: in the collection of a transaction that was edited.     *)
THEOREM ImplementsOfficeBooksSerial ==
    ASSUME Alone, NoManualReversal, Unbounded
    PROVE  Spec => ImplementsOfficeBooks
<1>1. BInv /\ BInv' /\ Columned /\ Announced /\ [Next]_vars => [Books!Next]_(Books!vars)
  <2> SUFFICES ASSUME BInv, BInv', Columned, Announced, [Next]_vars
               PROVE  [Books!Next]_(Books!vars)
    OBVIOUS
  <2>1. CASE Next
    BY <2>1, NextImplements
  <2>2. CASE UNCHANGED vars
    <3>1. UNCHANGED <<journal, txns, limits>>
      BY <2>2 DEF vars
    <3> QED
      BY <3>1, QuietImplements
  <2> QED
    BY <2>1, <2>2
<1>2. Apart
  BY DEF Alone, Apart
<1> QED
  BY <1>1, <1>2, InitImplements, BooksInvariance, ColumnedAlways, AnnouncedAlways, PTL
     DEF Spec, ImplementsOfficeBooks, Books!Spec

=============================================================================
