------------------------ MODULE AdapterSessionProofs ------------------------
(***************************************************************************)
(* Theorems about AdapterSession: the books a session keeps of a frame say *)
(* the same, residency is what is registered, and work is held back only   *)
(* for a frame the client was told to protect.                             *)
(***************************************************************************)
EXTENDS AdapterSession, TwinOpsProofs, FiniteSetTheorems, WellFoundedInduction

-----------------------------------------------------------------------------
(* Sums over finite sets.                                                  *)

\* Among some subsets of a finite set there is one that holds no other of them.
LEMMA LeastSubset ==
    ASSUME NEW S, IsFiniteSet(S), NEW B, B \subseteq SUBSET S, B # {}
    PROVE  \E least \in B : \A T \in B : T \subseteq least => T = least
<1> DEFINE Less == StrictSubsetOrdering(S)
           All == FiniteSubsetsOf(S)
<1>1. IsWellFoundedOn(Less, All)
  BY FS_StrictSubsetOrderingWellFounded
<1>2. All = SUBSET S
  BY FS_FiniteSubsetsOfFinite
<1>3. \A T, U \in SUBSET S : T \subseteq U /\ T # U => <<T, U>> \in Less
  BY DEF StrictSubsetOrdering
<1> HIDE DEF Less, All
<1>4. PICK least \in B : \A T \in B : <<T, least>> \notin Less
  BY <1>1, <1>2, WFMin
<1> QED BY <1>3, <1>4

\* f sums the weights w over every subset of S, the way the folds of the library do:
\* some element first, then the rest.
First(s) == CHOOSE x \in s : TRUE

Sums(f, w, S) ==
    f = [s \in SUBSET S |-> IF s = {} THEN 0 ELSE w[First(s)] + f[s \ {First(s)}]]

\* The first element is one of them.
LEMMA FirstIn == \A s : s # {} => First(s) \in s
BY DEF First

\* What such a function says of the subsets.
SumsParts(f, w, S) ==
    /\ f[{}] = 0
    /\ \A s \in SUBSET S : s # {} => First(s) \in s /\ f[s] = w[First(s)] + f[s \ {First(s)}]

\* Read off the definition of such a function.
LEMMA SumsAt ==
    ASSUME NEW S, NEW w, NEW f, Sums(f, w, S)
    PROVE  SumsParts(f, w, S)
<1> DEFINE value(s) == IF s = {} THEN 0 ELSE w[First(s)] + f[s \ {First(s)}]
<1>1. f = [s \in SUBSET S |-> value(s)]
  BY DEF Sums
<1> HIDE DEF value
<1>2. \A s \in SUBSET S : f[s] = value(s)
  BY <1>1
<1> QED BY <1>2, FirstIn DEF value, SumsParts

\* Two of them say the same of a common subset.
LEMMA SumsAgree ==
    ASSUME NEW S, IsFiniteSet(S), NEW T, NEW w, NEW f, NEW g,
           Sums(f, w, S), Sums(g, w, T), S \subseteq T
    PROVE  \A s \in SUBSET S : f[s] = g[s]
<1> DEFINE B == {s \in SUBSET S : f[s] # g[s]}
<1> SUFFICES ASSUME B # {} PROVE FALSE
  OBVIOUS
<1>0. B \subseteq SUBSET S
  OBVIOUS
<1>1. PICK s \in B : \A t \in B : t \subseteq s => t = s
  <2> HIDE DEF B
  <2> QED BY <1>0, LeastSubset
<1>f. SumsParts(f, w, S) /\ SumsParts(g, w, T)
  BY SumsAt
<1>2. f[{}] = 0 /\ (s # {} => First(s) \in s /\ f[s] = w[First(s)] + f[s \ {First(s)}])
  BY <1>f DEF SumsParts
<1>3. g[{}] = 0 /\ (s # {} => g[s] = w[First(s)] + g[s \ {First(s)}])
  BY <1>f DEF SumsParts
<1>4. s # {}
  BY <1>2, <1>3
<1>5. s \ {First(s)} \notin B
  BY <1>1, <1>2, <1>4
<1> QED BY <1>2, <1>3, <1>4, <1>5

\* There is one for every finite set.
LEMMA SumsExist ==
    ASSUME NEW S, IsFiniteSet(S), NEW w
    PROVE  \E f : Sums(f, w, S)
<1> DEFINE B == {s \in SUBSET S : ~ \E f : Sums(f, w, s)}
<1> SUFFICES ASSUME B # {} PROVE FALSE
  OBVIOUS
<1>0. B \subseteq SUBSET S
  OBVIOUS
<1>1. PICK s \in B : \A t \in B : t \subseteq s => t = s
  <2> HIDE DEF B
  <2> QED BY <1>0, LeastSubset
<1> DEFINE smaller(t) == CHOOSE f : Sums(f, w, t)
           sum(t) == IF t = {} THEN 0
                     ELSE w[First(t)] + smaller(t \ {First(t)})[t \ {First(t)}]
           f == [t \in SUBSET s |-> sum(t)]
<1>2. ASSUME NEW t \in SUBSET s, t # s PROVE Sums(smaller(t), w, t)
  BY <1>1, <1>2
<1>3. ASSUME NEW t \in SUBSET s, t # {}
      PROVE  f[t \ {First(t)}] = smaller(t \ {First(t)})[t \ {First(t)}]
  <2> DEFINE u == t \ {First(t)}
             v == u \ {First(u)}
  <2>1. First(t) \in t /\ u \in SUBSET s /\ u # s /\ v \in SUBSET s /\ v \in SUBSET u /\ v # s
    BY <1>3, FirstIn
  <2>2. Sums(smaller(u), w, u) /\ Sums(smaller(v), w, v)
    BY <1>2, <2>1
  <2>3. f[u] = IF u = {} THEN 0 ELSE w[First(u)] + smaller(v)[v]
    BY <2>1
  <2>4. IsFiniteSet(v)
    BY <2>1, <1>1, FS_Subset
  <2> HIDE DEF smaller, f, u, v
  <2>5. smaller(u)[u] = IF u = {} THEN 0 ELSE w[First(u)] + smaller(u)[v]
    <3>1. SumsParts(smaller(u), w, u)
      BY <2>2, SumsAt
    <3> QED BY <3>1 DEF SumsParts, v
  <2>6. smaller(v)[v] = smaller(u)[v]
    BY <2>1, <2>2, <2>4, SumsAgree
  <2>7. f[u] = smaller(u)[u]
    BY <2>3, <2>5, <2>6
  <2> QED BY <2>7 DEF u
<1>4. \A t \in SUBSET s : sum(t) = IF t = {} THEN 0 ELSE w[First(t)] + f[t \ {First(t)}]
  <2> HIDE DEF smaller, f
  <2> QED BY <1>3
<1>5. Sums(f, w, s)
  <2> HIDE DEF sum
  <2> SUFFICES f = [t \in SUBSET s |-> IF t = {} THEN 0 ELSE w[First(t)] + f[t \ {First(t)}]]
    BY DEF Sums
  <2> QED BY <1>4
<1> QED BY <1>1, <1>5

\* The sum of naturals is one, whichever element is added last.
LEMMA SumsSplit ==
    ASSUME NEW S, IsFiniteSet(S), NEW w, \A x \in S : w[x] \in Nat, NEW f, Sums(f, w, S)
    PROVE  \A s \in SUBSET S : /\ f[s] \in Nat
                               /\ \A x \in s : f[s] = w[x] + f[s \ {x}]
<1>0. SumsParts(f, w, S)
  BY SumsAt
<1>1. \A s \in SUBSET S : s # {} => First(s) \in s /\ f[s] = w[First(s)] + f[s \ {First(s)}]
  BY <1>0 DEF SumsParts
<1>2. f[{}] = 0
  BY <1>0 DEF SumsParts
<1>3. ASSUME NEW s \in SUBSET S PROVE f[s] \in Nat
  <2> DEFINE B == {t \in SUBSET S : f[t] \notin Nat}
  <2> SUFFICES ASSUME B # {} PROVE FALSE
    OBVIOUS
  <2>0. B \subseteq SUBSET S
    OBVIOUS
  <2>1. PICK t \in B : \A u \in B : u \subseteq t => u = t
    <3> HIDE DEF B
    <3> QED BY <2>0, LeastSubset
  <2>2. t # {} /\ t \in SUBSET S /\ f[t] \notin Nat
    BY <1>2
  <2>3. First(t) \in t /\ f[t] = w[First(t)] + f[t \ {First(t)}]
    BY <1>1, <2>2
  <2>4. f[t \ {First(t)}] \in Nat
    BY <2>1, <2>3
  <2>5. w[First(t)] \in Nat
    BY <2>2, <2>3
  <2> QED BY <2>2, <2>3, <2>4, <2>5
<1>4. ASSUME NEW s \in SUBSET S, NEW x \in s PROVE f[s] = w[x] + f[s \ {x}]
  <2> DEFINE B == {t \in SUBSET S : \E y \in t : f[t] # w[y] + f[t \ {y}]}
  <2> SUFFICES ASSUME B # {} PROVE FALSE
    BY <1>4
  <2>0. B \subseteq SUBSET S
    OBVIOUS
  <2>1. PICK t \in B : \A u \in B : u \subseteq t => u = t
    <3> HIDE DEF B
    <3> QED BY <2>0, LeastSubset
  <2>2. t \in SUBSET S
    OBVIOUS
  <2>3. PICK y \in t : f[t] # w[y] + f[t \ {y}]
    OBVIOUS
  <2> DEFINE z == First(t)
             both == t \ {y, z}
  <2>4. z \in t /\ f[t] = w[z] + f[t \ {z}]
    BY <1>1, <2>2, <2>3
  <2>5. y # z
    BY <2>3, <2>4
  <2>6. /\ t \ {z} \in SUBSET S /\ t \ {z} # t /\ y \in t \ {z} /\ (t \ {z}) \ {y} = both
        /\ t \ {y} \in SUBSET S /\ t \ {y} # t /\ z \in t \ {y} /\ (t \ {y}) \ {z} = both
        /\ both \in SUBSET S
    BY <2>2, <2>3, <2>4, <2>5
  <2>7. t \ {z} \notin B /\ t \ {y} \notin B
    BY <2>1, <2>6
  <2>8. f[t \ {z}] = w[y] + f[both] /\ f[t \ {y}] = w[z] + f[both]
    BY <2>6, <2>7
  <2>9. w[y] \in Nat /\ w[z] \in Nat /\ f[both] \in Nat
    BY <1>3, <2>2, <2>3, <2>4, <2>6
  <2> HIDE DEF z, both
  <2> QED BY <2>3, <2>4, <2>8, <2>9
<1> QED BY <1>3, <1>4

\* What the library's sum computes.
LEMMA CostSumIs ==
    ASSUME NEW S, IsFiniteSet(S), NEW w, \A x \in S : w[x] = x.cost
    PROVE  \E f : Sums(f, w, S) /\ CostSum(S) = f[S]
<1> DEFINE Folds(f) == f = [s \in SUBSET S |-> IF s = {} THEN 0
                                               ELSE First(s).cost + f[s \ {First(s)}]]
<1>1. CostSum(S) = (CHOOSE f : Folds(f))[S]
  BY DEF CostSum, MapThenSumSet, MapThenFoldSet, First
<1>2. \A f : Folds(f) <=> Sums(f, w, S)
  <2>1. \A s \in SUBSET S : s # {} => w[First(s)] = First(s).cost
    BY FirstIn
  <2>2. ASSUME NEW f
        PROVE  [s \in SUBSET S |-> IF s = {} THEN 0 ELSE First(s).cost + f[s \ {First(s)}]]
               = [s \in SUBSET S |-> IF s = {} THEN 0 ELSE w[First(s)] + f[s \ {First(s)}]]
    BY <2>1
  <2> QED BY <2>2 DEF Sums
<1> HIDE DEF Folds
<1>3. Folds(CHOOSE f : Folds(f))
  BY <1>2, SumsExist
<1> QED BY <1>1, <1>2, <1>3

\* The same for sizes.
LEMMA SizeSumIs ==
    ASSUME NEW S, IsFiniteSet(S), NEW w, \A x \in S : w[x] = x.size
    PROVE  \E f : Sums(f, w, S) /\ SizeSum(S) = f[S]
<1> DEFINE Folds(f) == f = [s \in SUBSET S |-> IF s = {} THEN 0
                                               ELSE First(s).size + f[s \ {First(s)}]]
<1>1. SizeSum(S) = (CHOOSE f : Folds(f))[S]
  BY DEF SizeSum, MapThenSumSet, MapThenFoldSet, First
<1>2. \A f : Folds(f) <=> Sums(f, w, S)
  <2>1. \A s \in SUBSET S : s # {} => w[First(s)] = First(s).size
    BY FirstIn
  <2>2. ASSUME NEW f
        PROVE  [s \in SUBSET S |-> IF s = {} THEN 0 ELSE First(s).size + f[s \ {First(s)}]]
               = [s \in SUBSET S |-> IF s = {} THEN 0 ELSE w[First(s)] + f[s \ {First(s)}]]
    BY <2>1
  <2> QED BY <2>2 DEF Sums
<1> HIDE DEF Folds
<1>3. Folds(CHOOSE f : Folds(f))
  BY <1>2, SumsExist
<1> QED BY <1>1, <1>2, <1>3

\* One more weight is added to the sum.
LEMMA SumsGrow ==
    ASSUME NEW S, IsFiniteSet(S), NEW x, x \notin S,
           NEW w, \A y \in S \cup {x} : w[y] \in Nat,
           NEW f, Sums(f, w, S), NEW g, Sums(g, w, S \cup {x})
    PROVE  f[S] \in Nat /\ g[S \cup {x}] = f[S] + w[x]
<1> DEFINE T == S \cup {x}
<1>1. IsFiniteSet(T) /\ T \in SUBSET T /\ S \in SUBSET T /\ x \in T /\ T \ {x} = S
  BY FS_AddElement
<1> HIDE DEF T
<1>2. Sums(g, w, T) /\ \A y \in T : w[y] \in Nat
  BY DEF T
<1>3. f[S] \in Nat
  BY SumsSplit
<1>4. g[T] = w[x] + g[S]
  BY <1>1, <1>2, SumsSplit
<1>5. f[S] = g[S]
  BY <1>1, <1>2, SumsAgree
<1>6. w[x] \in Nat
  BY <1>1, <1>2
<1> QED BY <1>3, <1>4, <1>5, <1>6 DEF T

\* Sums of costs: of nothing, and of one operation more.
LEMMA CostEmpty == CostSum({}) = 0
<1>1. PICK f : Sums(f, [x \in {} |-> 0], {}) /\ CostSum({}) = f[{}]
  BY CostSumIs, FS_EmptySet
<1>2. SumsParts(f, [x \in {} |-> 0], {})
  BY <1>1, SumsAt
<1> QED BY <1>1, <1>2 DEF SumsParts

\* One more thing adds its cost.
LEMMA CostAdd ==
    ASSUME NEW S, IsFiniteSet(S), NEW x, x \notin S, \A y \in S : y.cost \in Nat, x.cost \in Nat
    PROVE  CostSum(S) \in Nat /\ CostSum(S \cup {x}) = CostSum(S) + x.cost
<1> DEFINE w == [y \in S \cup {x} |-> y.cost]
<1>1. /\ \A y \in S \cup {x} : w[y] \in Nat /\ w[y] = y.cost
      /\ \A y \in S : w[y] = y.cost
  OBVIOUS
<1>2. IsFiniteSet(S \cup {x})
  BY FS_AddElement
<1> HIDE DEF w
<1>3. PICK f : Sums(f, w, S) /\ CostSum(S) = f[S]
  BY <1>1, CostSumIs
<1>4. PICK g : Sums(g, w, S \cup {x}) /\ CostSum(S \cup {x}) = g[S \cup {x}]
  BY <1>1, <1>2, CostSumIs
<1>5. f[S] \in Nat /\ g[S \cup {x}] = f[S] + w[x]
  BY <1>1, <1>3, <1>4, SumsGrow
<1> QED BY <1>1, <1>3, <1>4, <1>5

\* Nothing has no size.
LEMMA SizeEmpty == SizeSum({}) = 0
<1>1. PICK f : Sums(f, [x \in {} |-> 0], {}) /\ SizeSum({}) = f[{}]
  BY SizeSumIs, FS_EmptySet
<1>2. SumsParts(f, [x \in {} |-> 0], {})
  BY <1>1, SumsAt
<1> QED BY <1>1, <1>2 DEF SumsParts

\* One more thing adds its size.
LEMMA SizeAdd ==
    ASSUME NEW S, IsFiniteSet(S), NEW x, x \notin S, \A y \in S : y.size \in Nat, x.size \in Nat
    PROVE  SizeSum(S) \in Nat /\ SizeSum(S \cup {x}) = SizeSum(S) + x.size
<1> DEFINE w == [y \in S \cup {x} |-> y.size]
<1>1. /\ \A y \in S \cup {x} : w[y] \in Nat /\ w[y] = y.size
      /\ \A y \in S : w[y] = y.size
  OBVIOUS
<1>2. IsFiniteSet(S \cup {x})
  BY FS_AddElement
<1> HIDE DEF w
<1>3. PICK f : Sums(f, w, S) /\ SizeSum(S) = f[S]
  BY <1>1, SizeSumIs
<1>4. PICK g : Sums(g, w, S \cup {x}) /\ SizeSum(S \cup {x}) = g[S \cup {x}]
  BY <1>1, <1>2, SizeSumIs
<1>5. f[S] \in Nat /\ g[S \cup {x}] = f[S] + w[x]
  BY <1>1, <1>3, <1>4, SumsGrow
<1> QED BY <1>1, <1>3, <1>4, <1>5

\* A sum of costs is a number.
LEMMA CostType ==
    ASSUME NEW S, IsFiniteSet(S), \A x \in S : x.cost \in Nat
    PROVE  CostSum(S) \in Nat
<1>1. CASE S = {}
  BY <1>1, CostEmpty
<1>2. CASE S # {}
  <2>1. PICK x \in S : TRUE
    BY <1>2
  <2>2. IsFiniteSet(S \ {x}) /\ x \notin S \ {x} /\ (S \ {x}) \cup {x} = S
    BY <2>1, FS_RemoveElement
  <2>3. CostSum(S \ {x}) \in Nat /\ CostSum((S \ {x}) \cup {x}) = CostSum(S \ {x}) + x.cost
    BY <2>2, CostAdd
  <2>4. x.cost \in Nat /\ CostSum(S) = CostSum(S \ {x}) + x.cost
    BY <2>1, <2>2, <2>3
  <2> QED BY <2>3, <2>4
<1> QED BY <1>1, <1>2

\* So is a sum of sizes.
LEMMA SizeType ==
    ASSUME NEW S, IsFiniteSet(S), \A x \in S : x.size \in Nat
    PROVE  SizeSum(S) \in Nat
<1>1. CASE S = {}
  BY <1>1, SizeEmpty
<1>2. CASE S # {}
  <2>1. PICK x \in S : TRUE
    BY <1>2
  <2>2. IsFiniteSet(S \ {x}) /\ x \notin S \ {x} /\ (S \ {x}) \cup {x} = S
    BY <2>1, FS_RemoveElement
  <2>3. SizeSum(S \ {x}) \in Nat /\ SizeSum((S \ {x}) \cup {x}) = SizeSum(S \ {x}) + x.size
    BY <2>2, SizeAdd
  <2>4. x.size \in Nat /\ SizeSum(S) = SizeSum(S \ {x}) + x.size
    BY <2>1, <2>2, <2>3
  <2> QED BY <2>3, <2>4
<1> QED BY <1>1, <1>2

\* Two parts of a set share its costs out.
LEMMA CostUnion ==
    ASSUME NEW S, IsFiniteSet(S), NEW T, IsFiniteSet(T), S \cap T = {},
           \A x \in S \cup T : x.cost \in Nat
    PROVE  CostSum(S \cup T) = CostSum(S) + CostSum(T)
<1> DEFINE B == {t \in SUBSET T : CostSum(S \cup t) # CostSum(S) + CostSum(t)}
<1> SUFFICES ASSUME B # {} PROVE FALSE
  OBVIOUS
<1>0. B \subseteq SUBSET T
  OBVIOUS
<1>1. PICK t \in B : \A u \in B : u \subseteq t => u = t
  <2> HIDE DEF B
  <2> QED BY <1>0, LeastSubset
<1>2. t \in SUBSET T /\ CostSum(S \cup t) # CostSum(S) + CostSum(t)
  OBVIOUS
<1>3. CostSum(S) \in Nat
  BY CostType
<1>4. t # {}
  <2>1. CostSum(S \cup {}) = CostSum(S)
    <3>1. S \cup {} = S
      OBVIOUS
    <3> QED BY <3>1
  <2>2. CostSum(S) + CostSum({}) = CostSum(S)
    BY <1>3, CostEmpty
  <2> HIDE DEF B
  <2> QED BY <1>2, <2>1, <2>2
<1>5. PICK x \in t : TRUE
  BY <1>4
<1> DEFINE u == t \ {x}
<1>6. /\ u \in SUBSET T /\ u # t /\ u \subseteq t /\ x \notin u /\ u \cup {x} = t
      /\ x \notin S \cup u /\ (S \cup u) \cup {x} = S \cup t
  BY <1>2, <1>5
<1>7. IsFiniteSet(u) /\ IsFiniteSet(S \cup u)
  BY <1>6, FS_Subset, FS_Union
<1>8. CostSum(S \cup u) = CostSum(S) + CostSum(u)
  BY <1>1, <1>6
<1>9. x.cost \in Nat /\ (\A y \in u : y.cost \in Nat) /\ (\A y \in S \cup u : y.cost \in Nat)
  BY <1>2, <1>5, <1>6
<1> HIDE DEF u, B
<1>10. CostSum(u) \in Nat /\ CostSum(t) = CostSum(u) + x.cost
  BY <1>6, <1>7, <1>9, CostAdd
<1>11. CostSum(S \cup t) = CostSum(S \cup u) + x.cost
  BY <1>6, <1>7, <1>9, CostAdd
<1> QED BY <1>2, <1>3, <1>8, <1>9, <1>10, <1>11

\* The image of a finite set is finite.
LEMMA ImageFinite ==
    ASSUME NEW S, IsFiniteSet(S), NEW m
    PROVE  IsFiniteSet({m[x] : x \in S})
<1> DEFINE T == {m[x] : x \in S}
           g == [x \in S |-> m[x]]
<1>1. g \in Surjection(S, T)
  BY DEF Surjection
<1> QED BY <1>1, FS_Surjection

\* Entries made one for one from others, at the same cost, cost as much together.
LEMMA CostImage ==
    ASSUME NEW S, IsFiniteSet(S), NEW m,
           \A x \in S : x.cost \in Nat /\ m[x].cost = x.cost,
           \A x, y \in S : m[x] = m[y] => x = y
    PROVE  CostSum({m[x] : x \in S}) = CostSum(S)
<1> DEFINE Image(s) == {m[x] : x \in s}
           B == {s \in SUBSET S : CostSum(Image(s)) # CostSum(s)}
<1> SUFFICES ASSUME B # {} PROVE FALSE
  OBVIOUS
<1>0. B \subseteq SUBSET S
  OBVIOUS
<1>1. PICK s \in B : \A u \in B : u \subseteq s => u = s
  <2> HIDE DEF B
  <2> QED BY <1>0, LeastSubset
<1>2. s \in SUBSET S /\ CostSum(Image(s)) # CostSum(s)
  OBVIOUS
<1>3. s # {}
  <2>1. Image({}) = {}
    OBVIOUS
  <2> QED BY <1>2, <2>1
<1>4. PICK x \in s : TRUE
  BY <1>3
<1> DEFINE u == s \ {x}
<1>5. u \in SUBSET S /\ u # s /\ u \subseteq s /\ x \notin u /\ u \cup {x} = s /\ x \in S
  BY <1>2, <1>4
<1>6. m[x] \notin Image(u) /\ Image(s) = Image(u) \cup {m[x]}
  BY <1>5
<1>7. IsFiniteSet(u) /\ IsFiniteSet(Image(u))
  <2>1. IsFiniteSet(u)
    BY <1>5, FS_Subset
  <2> HIDE DEF u
  <2> QED BY <2>1, ImageFinite
<1>8. CostSum(Image(u)) = CostSum(u)
  BY <1>1, <1>5
<1>9. /\ x.cost \in Nat /\ m[x].cost = x.cost
      /\ \A y \in u : y.cost \in Nat
      /\ \A y \in Image(u) : y.cost \in Nat
  BY <1>5
<1> HIDE DEF u, B, Image
<1>10. CostSum(s) = CostSum(u) + x.cost
  BY <1>5, <1>7, <1>9, CostAdd
<1>11. CostSum(Image(s)) = CostSum(Image(u)) + m[x].cost
  BY <1>6, <1>7, <1>9, CostAdd
<1> QED BY <1>2, <1>8, <1>9, <1>10, <1>11

-----------------------------------------------------------------------------
(* The statistics of a frame.                                              *)

IsStats(s) ==
    s = [target |-> s.target, begun |-> s.begun, ended |-> s.ended,
         operations |-> s.operations, decisions |-> s.decisions, actions |-> s.actions,
         cost |-> s.cost, saved |-> s.saved, transfer |-> s.transfer, queues |-> s.queues]

\* fs has the statistics of frames.
IsBook(fs) ==
    /\ fs = [f \in DOMAIN fs |-> fs[f]]
    /\ NoFrame \notin DOMAIN fs
    /\ \A f \in DOMAIN fs : IsStats(fs[f]) /\ fs[f].target \in Nat

\* What is looked up is there afterwards, and new only if it was not there.
LookedUp(known, fs, f) ==
    /\ IsBook(known)
    /\ DOMAIN known = DOMAIN fs \cup ({f} \ {NoFrame})
    /\ \A x \in DOMAIN fs : known[x] = fs[x]
    /\ f \notin DOMAIN fs /\ f # NoFrame => known[f] = NewStats

\* Looking a frame up adds at most the statistics of a new one.
LEMMA WithStatsForm ==
    ASSUME NEW fs, IsBook(fs), NEW f, NEW known, known = WithStats(fs, f)
    PROVE  LookedUp(known, fs, f)
<1>1. IsStats(NewStats) /\ NewStats.target \in Nat
  BY NumbersAreNatural DEF IsStats, NewStats
<1>2. CASE f = NoFrame \/ f \in DOMAIN fs
  BY <1>2 DEF WithStats, IsBook, LookedUp
<1>3. CASE ~(f = NoFrame \/ f \in DOMAIN fs)
  <2>1. known = Bind(fs, f, NewStats)
    BY <1>3 DEF WithStats
  <2> HIDE DEF NewStats
  <2>2. /\ DOMAIN known = DOMAIN fs \cup {f} /\ known[f] = NewStats
        /\ known = [x \in DOMAIN known |-> known[x]]
        /\ \A x \in DOMAIN fs : known[x] = fs[x]
    BY <1>3, <2>1 DEF Bind
  <2> QED BY <1>1, <1>3, <2>2 DEF IsBook, LookedUp
<1> QED BY <1>2, <1>3

\* The statistics of a frame with an operation more.
Charged(s, op, decided) ==
    [s EXCEPT !.operations = @ + 1,
              !.decisions = @ + (IF decided = "none" THEN 0 ELSE 1),
              !.cost = @ + (IF decided = "none" THEN op.cost ELSE 0),
              !.transfer = @ + (IF decided = "none" /\ op.type \in Transfers THEN op.bytes ELSE 0),
              !.queues = IF decided = "none" THEN ChargedQueue(@, op) ELSE @,
              !.saved = @ + (IF decided = "none" THEN 0 ELSE op.cost)]

\* A charge rewrites the statistics of one frame.
LEMMA ChargeForm ==
    ASSUME NEW fs, IsBook(fs), NEW f \in DOMAIN fs, NEW op, NEW decided
    PROVE  Charge(fs, f, op, decided = "none") = [fs EXCEPT ![f] = Charged(fs[f], op, decided)]
BY ZenonT(60) DEF Charge, Charged, IsBook, IsStats

\* What a charge makes of each number.
LEMMA ChargedForm ==
    ASSUME NEW s, IsStats(s), NEW op, NEW decided, NEW c, c = Charged(s, op, decided)
    PROVE  /\ IsStats(c)
           /\ c.target = s.target /\ c.begun = s.begun /\ c.ended = s.ended
           /\ c.operations = s.operations + 1
           /\ c.decisions = s.decisions + (IF decided = "none" THEN 0 ELSE 1)
           /\ c.actions = s.actions
           /\ c.cost = s.cost + (IF decided = "none" THEN op.cost ELSE 0)
           /\ c.saved = s.saved + (IF decided = "none" THEN 0 ELSE op.cost)
           /\ c.transfer = s.transfer + (IF decided = "none" /\ op.type \in Transfers THEN op.bytes ELSE 0)
           /\ c.queues = IF decided = "none" THEN ChargedQueue(s.queues, op) ELSE s.queues
BY DEF Charged, IsStats

\* Recording actions rewrites one count of one frame.
LEMMA RecordActionsForm ==
    ASSUME NEW fs, IsBook(fs), NEW f, NEW actions, NEW recorded,
           recorded = RecordActions(fs, f, actions)
    PROVE  IF f = NoFrame THEN recorded = fs
           ELSE LET known == WithStats(fs, f)
                IN  recorded = [known EXCEPT ![f].actions = @ + Cardinality(actions)]
BY DEF RecordActions

\* One field of one frame's statistics is set.
Rewritten(gs, fs, f, s) ==
    /\ IsBook(gs) /\ DOMAIN gs = DOMAIN fs /\ gs[f] = s
    /\ \A x \in DOMAIN fs : x # f => gs[x] = fs[x]

\* A book of which one frame is rewritten.
LEMMA BookForm ==
    ASSUME NEW fs, IsBook(fs), NEW f \in DOMAIN fs, NEW s, IsStats(s), s.target \in Nat,
           NEW gs, gs = [fs EXCEPT ![f] = s]
    PROVE  Rewritten(gs, fs, f, s)
BY DEF IsBook, Rewritten

\* Counting actions leaves the other numbers alone.
LEMMA ActionsForm ==
    ASSUME NEW s, IsStats(s), NEW n, NEW c, c = [s EXCEPT !.actions = n]
    PROVE  /\ IsStats(c)
           /\ c.target = s.target /\ c.begun = s.begun /\ c.ended = s.ended
           /\ c.operations = s.operations /\ c.decisions = s.decisions
           /\ c.actions = n
           /\ c.cost = s.cost /\ c.saved = s.saved /\ c.transfer = s.transfer
           /\ c.queues = s.queues
BY DEF IsStats

-----------------------------------------------------------------------------
(* The books of a frame.  E holds what was executed, D what was eliminated *)
(* and A the actions given.                                                *)

In(E, f) == {o \in E : o.frame = f}
Moving(E) == {o \in E : o.type \in Transfers}
On(E, q) == {o \in E : o.queue = q}
Out(D, f) == {id \in DOMAIN D : D[id].frame = f}
Savings(D, f) == {[id |-> id, cost |-> D[id].cost] : id \in Out(D, f)}
Given(A, f) == {a \in A : a[2] = f}

WorkAddsUp(s, E, D, f) ==
    /\ s.operations = Cardinality(In(E, f)) + Cardinality(Out(D, f))
    /\ s.decisions = Cardinality(Out(D, f))
    /\ s.cost = CostSum(In(E, f))
    /\ s.transfer = SizeSum(Moving(In(E, f)))
    /\ s.queues = [q \in {o.queue : o \in In(E, f)} |-> CostSum(On(In(E, f), q))]
    /\ s.saved = CostSum(Savings(D, f))

\* Finitely many operations, of known weights.
IsWork(E, D) ==
    /\ IsFiniteSet(E)
    /\ \A o \in E : o.cost \in Nat /\ o.size \in Nat
    /\ IsFiniteSet(DOMAIN D)
    /\ \A id \in DOMAIN D : D[id].cost \in Nat

\* A frame without work has the statistics of a new one.
LEMMA NoWork ==
    ASSUME NEW E, NEW D, NEW f, In(E, f) = {}, Out(D, f) = {}
    PROVE  WorkAddsUp(NewStats, E, D, f)
<1>1. Cardinality({}) = 0
  BY FS_EmptySet
<1>2. Savings(D, f) = {} /\ Moving(In(E, f)) = {}
  BY DEF Savings, Moving
<1>3. [q \in {o.queue : o \in In(E, f)} |-> CostSum(On(In(E, f), q))] = Empty
  BY DEF Empty
<1>4. /\ NewStats.operations = 0 /\ NewStats.decisions = 0 /\ NewStats.cost = 0
      /\ NewStats.transfer = 0 /\ NewStats.queues = Empty /\ NewStats.saved = 0
  BY DEF NewStats
<1> QED BY <1>1, <1>2, <1>3, <1>4, CostEmpty, SizeEmpty DEF WorkAddsUp

\* The savings of a frame can be summed.
LEMMA SavingsFinite ==
    ASSUME NEW E, NEW D, IsWork(E, D), NEW f
    PROVE  IsFiniteSet(Savings(D, f)) /\ \A x \in Savings(D, f) : x.cost \in Nat
<1> DEFINE m == [id \in Out(D, f) |-> [id |-> id, cost |-> D[id].cost]]
<1>1. Savings(D, f) = {m[id] : id \in Out(D, f)}
  BY DEF Savings
<1>2. IsFiniteSet(Out(D, f))
  <2>1. Out(D, f) \subseteq DOMAIN D
    BY DEF Out
  <2> QED BY <2>1, FS_Subset DEF IsWork
<1>3. IsFiniteSet(Savings(D, f))
  <2> HIDE DEF m
  <2> QED BY <1>1, <1>2, ImageFinite
<1>4. \A x \in Savings(D, f) : x.cost \in Nat
  BY DEF Savings, Out, IsWork
<1> QED BY <1>3, <1>4

\* The statistics of an executed operation's frame take it in.
LEMMA KeptWork ==
    ASSUME NEW E, NEW D, IsWork(E, D), NEW f, NEW s, WorkAddsUp(s, E, D, f),
           NEW o, o \notin E, o.frame = f, o.cost \in Nat, o.size \in Nat,
           NEW c,
           c.operations = s.operations + 1,
           c.decisions = s.decisions + 0,
           c.cost = s.cost + o.cost,
           c.saved = s.saved + 0,
           c.transfer = s.transfer + (IF o.type \in Transfers THEN o.size ELSE 0),
           c.queues = Bind(s.queues, o.queue,
                           o.cost + (IF o.queue \in DOMAIN s.queues THEN s.queues[o.queue] ELSE 0))
    PROVE  WorkAddsUp(c, E \cup {o}, D, f)
<1> DEFINE F == E \cup {o}
           X == In(E, f)
<1>1. In(F, f) = X \cup {o} /\ o \notin X /\ X \subseteq E
  BY DEF In
<1>2. IsFiniteSet(X)
  BY <1>1, FS_Subset DEF IsWork
<1>3. \A x \in X : x.cost \in Nat /\ x.size \in Nat
  BY <1>1 DEF IsWork
<1>4. IsFiniteSet(Out(D, f))
  <2>1. Out(D, f) \subseteq DOMAIN D
    BY DEF Out
  <2> QED BY <2>1, FS_Subset DEF IsWork
<1>5. /\ Cardinality(X) \in Nat /\ Cardinality(Out(D, f)) \in Nat
      /\ Cardinality(X \cup {o}) = Cardinality(X) + 1
  BY <1>1, <1>2, <1>4, FS_CardinalityType, FS_AddElement
<1> HIDE DEF X, F
<1>6. c.operations = Cardinality(In(F, f)) + Cardinality(Out(D, f))
  <2>1. s.operations = Cardinality(X) + Cardinality(Out(D, f))
    BY DEF WorkAddsUp, X
  <2> QED BY <1>1, <1>5, <2>1
<1>7. c.decisions = Cardinality(Out(D, f))
  <2>1. s.decisions = Cardinality(Out(D, f))
    BY DEF WorkAddsUp
  <2> QED BY <1>5, <2>1
<1>8. c.cost = CostSum(In(F, f))
  <2>1. s.cost = CostSum(X)
    BY DEF WorkAddsUp, X
  <2>2. CostSum(X \cup {o}) = CostSum(X) + o.cost
    BY <1>1, <1>2, <1>3, CostAdd
  <2> QED BY <1>1, <2>1, <2>2
<1>9. c.transfer = SizeSum(Moving(In(F, f)))
  <2>1. s.transfer = SizeSum(Moving(X))
    BY DEF WorkAddsUp, X
  <2>2. IsFiniteSet(Moving(X)) /\ o \notin Moving(X) /\ \A x \in Moving(X) : x.size \in Nat
    <3>1. Moving(X) \subseteq X
      BY DEF Moving
    <3> QED BY <1>1, <1>2, <1>3, <3>1, FS_Subset
  <2>3. SizeSum(Moving(X)) \in Nat /\ SizeSum(Moving(X) \cup {o}) = SizeSum(Moving(X)) + o.size
    BY <2>2, SizeAdd
  <2>4. Moving(X \cup {o}) = IF o.type \in Transfers THEN Moving(X) \cup {o} ELSE Moving(X)
    BY DEF Moving
  <2> QED BY <1>1, <2>1, <2>3, <2>4
<1>10. c.queues = [q \in {x.queue : x \in In(F, f)} |-> CostSum(On(In(F, f), q))]
  <2> DEFINE Q == {x.queue : x \in X}
             sum(q) == CostSum(On(X, q))
  <2>1. s.queues = [q \in Q |-> sum(q)]
    BY DEF WorkAddsUp, X
  <2>2. {x.queue : x \in X \cup {o}} = Q \cup {o.queue}
    OBVIOUS
  <2>3. \A q : q # o.queue => On(X \cup {o}, q) = On(X, q)
    BY DEF On
  <2>4. On(X \cup {o}, o.queue) = On(X, o.queue) \cup {o}
    BY DEF On
  <2>5. On(X, o.queue) \subseteq X
    BY DEF On
  <2>6. /\ CostSum(On(X, o.queue)) \in Nat
        /\ CostSum(On(X, o.queue) \cup {o}) = CostSum(On(X, o.queue)) + o.cost
    <3>1. IsFiniteSet(On(X, o.queue)) /\ o \notin On(X, o.queue)
      BY <1>1, <1>2, <2>5, FS_Subset
    <3>2. \A x \in On(X, o.queue) : x.cost \in Nat
      BY <1>3, <2>5
    <3> QED BY <3>1, <3>2, CostAdd
  <2>7. o.queue \notin Q => On(X, o.queue) = {}
    BY DEF On
  <2>8. CostSum(On(X \cup {o}, o.queue)) = o.cost + (IF o.queue \in Q THEN sum(o.queue) ELSE 0)
    <3> DEFINE before == CostSum(On(X, o.queue))
    <3>1. CostSum(On(X \cup {o}, o.queue)) = before + o.cost /\ before \in Nat
      BY <2>4, <2>6
    <3>2. o.queue \notin Q => before = 0
      BY <2>7, CostEmpty
    <3>3. sum(o.queue) = before
      OBVIOUS
    <3> HIDE DEF before, sum, Q
    <3>4. CASE o.queue \in Q
      BY <3>1, <3>3, <3>4
    <3>5. CASE o.queue \notin Q
      BY <3>1, <3>2, <3>5
    <3> QED BY <3>4, <3>5
  <2> HIDE DEF Q
  <2>9. \A q \in Q : s.queues[q] = sum(q)
    BY <2>1
  <2> HIDE DEF sum
  <2>10. DOMAIN s.queues = Q
    BY <2>1
  <2>11. c.queues = [q \in Q \cup {o.queue} |->
                       IF q = o.queue THEN o.cost + (IF o.queue \in Q THEN sum(o.queue) ELSE 0)
                       ELSE sum(q)]
    BY <2>9, <2>10 DEF Bind
  <2>12. \A q \in Q : q # o.queue => CostSum(On(X \cup {o}, q)) = sum(q)
    BY <2>3 DEF sum
  <2>13. c.queues = [q \in Q \cup {o.queue} |-> CostSum(On(X \cup {o}, q))]
    BY <2>8, <2>11, <2>12
  <2> QED BY <1>1, <2>2, <2>13
<1>11. c.saved = CostSum(Savings(D, f))
  <2>1. s.saved = CostSum(Savings(D, f))
    BY DEF WorkAddsUp
  <2>2. CostSum(Savings(D, f)) \in Nat
    BY SavingsFinite, CostType
  <2> QED BY <2>1, <2>2
<1> QED BY <1>6, <1>7, <1>8, <1>9, <1>10, <1>11 DEF WorkAddsUp, F

\* So do those of an eliminated one's.
LEMMA DroppedWork ==
    ASSUME NEW E, NEW D, IsWork(E, D), NEW f, NEW s, WorkAddsUp(s, E, D, f),
           NEW id, id \notin DOMAIN D, NEW d, d.frame = f, d.cost \in Nat,
           NEW c,
           c.operations = s.operations + 1,
           c.decisions = s.decisions + 1,
           c.cost = s.cost + 0,
           c.saved = s.saved + d.cost,
           c.transfer = s.transfer + 0,
           c.queues = s.queues
    PROVE  WorkAddsUp(c, E, Bind(D, id, d), f)
<1> DEFINE C == Bind(D, id, d)
           X == In(E, f)
           new == [id |-> id, cost |-> d.cost]
<1>1. /\ DOMAIN C = DOMAIN D \cup {id} /\ C[id] = d
      /\ \A x \in DOMAIN D : C[x] = D[x]
  BY DEF Bind
<1> HIDE DEF C
<1>2. Out(C, f) = Out(D, f) \cup {id} /\ id \notin Out(D, f)
  BY <1>1 DEF Out
<1>3. Savings(C, f) = Savings(D, f) \cup {new}
  <2>1. \A x \in Out(D, f) : C[x] = D[x]
    BY <1>1 DEF Out
  <2> QED BY <1>1, <1>2, <2>1 DEF Savings
<1>4. new \notin Savings(D, f)
  <2>1. \A x \in Savings(D, f) : x.id \in Out(D, f)
    BY DEF Savings
  <2> QED BY <1>2, <2>1
<1>5. IsFiniteSet(Out(D, f))
  <2>1. Out(D, f) \subseteq DOMAIN D
    BY DEF Out
  <2> QED BY <2>1, FS_Subset DEF IsWork
<1>6. IsFiniteSet(Savings(D, f)) /\ \A x \in Savings(D, f) : x.cost \in Nat
  BY <1>5, SavingsFinite
<1>7. IsFiniteSet(X) /\ IsFiniteSet(Moving(X))
  <2>1. X \subseteq E /\ Moving(X) \subseteq X
    BY DEF In, Moving
  <2> QED BY <2>1, FS_Subset DEF IsWork
<1>8. CostSum(X) \in Nat /\ SizeSum(Moving(X)) \in Nat
  <2>1. (\A x \in X : x.cost \in Nat) /\ (\A x \in Moving(X) : x.size \in Nat)
    BY DEF In, Moving, IsWork
  <2> QED BY <1>7, <2>1, CostType, SizeType
<1> HIDE DEF new
<1>9. CostSum(Savings(C, f)) = CostSum(Savings(D, f)) + d.cost
  <2>1. new.cost = d.cost
    BY DEF new
  <2> QED BY <1>3, <1>4, <1>6, <2>1, CostAdd
<1>10. /\ Cardinality(X) \in Nat /\ Cardinality(Out(D, f)) \in Nat
       /\ Cardinality(Out(C, f)) = Cardinality(Out(D, f)) + 1
  BY <1>2, <1>5, <1>7, FS_CardinalityType, FS_AddElement
<1>11. c.operations = Cardinality(X) + Cardinality(Out(C, f))
  <2>1. s.operations = Cardinality(X) + Cardinality(Out(D, f))
    BY DEF WorkAddsUp
  <2> QED BY <1>10, <2>1
<1>12. c.decisions = Cardinality(Out(C, f))
  <2>1. s.decisions = Cardinality(Out(D, f))
    BY DEF WorkAddsUp
  <2> QED BY <1>10, <2>1
<1>13. c.cost = CostSum(X) /\ c.transfer = SizeSum(Moving(X))
  <2>1. s.cost = CostSum(X) /\ s.transfer = SizeSum(Moving(X))
    BY DEF WorkAddsUp
  <2> QED BY <1>8, <2>1
<1>14. c.queues = [q \in {o.queue : o \in In(E, f)} |-> CostSum(On(In(E, f), q))]
  BY DEF WorkAddsUp
<1>15. c.saved = CostSum(Savings(C, f))
  BY <1>9 DEF WorkAddsUp
<1> QED BY <1>11, <1>12, <1>13, <1>14, <1>15 DEF WorkAddsUp, C

\* Work of other frames does not matter.
LEMMA OtherWork ==
    ASSUME NEW E, NEW D, NEW F, NEW C, NEW f, NEW s, WorkAddsUp(s, E, D, f),
           In(F, f) = In(E, f), Out(C, f) = Out(D, f), \A id \in Out(D, f) : C[id] = D[id],
           NEW c, c.operations = s.operations, c.decisions = s.decisions, c.cost = s.cost,
           c.saved = s.saved, c.transfer = s.transfer, c.queues = s.queues
    PROVE  WorkAddsUp(c, F, C, f)
<1>1. Savings(C, f) = Savings(D, f)
  BY DEF Savings
<1> QED BY <1>1 DEF WorkAddsUp

-----------------------------------------------------------------------------
(* The books of all frames together.                                       *)

Somewhere(fs) == DOMAIN fs \cup {NoFrame}

Booked(fs, E, D, A) ==
    /\ IsBook(fs)
    /\ IsWork(E, D)
    /\ \A o \in E : o.frame \in Somewhere(fs)
    /\ \A id \in DOMAIN D : D[id].frame \in Somewhere(fs)
    /\ IsFiniteSet(A)
    /\ \A a \in A : a[2] \in Somewhere(fs)
    /\ \A f \in DOMAIN fs : /\ WorkAddsUp(fs[f], E, D, f)
                            /\ fs[f].actions = Cardinality(Given(A, f))

\* A frame that is only looked up.
LEMMA BookedLookup ==
    ASSUME NEW fs, NEW E, NEW D, NEW A, Booked(fs, E, D, A), NEW f, NEW known,
           known = WithStats(fs, f)
    PROVE  /\ Booked(known, E, D, A)
           /\ Somewhere(known) = Somewhere(fs) \cup {f}
<1>1. IsBook(fs)
  BY DEF Booked
<1>2. /\ IsBook(known)
      /\ DOMAIN known = DOMAIN fs \cup ({f} \ {NoFrame})
      /\ \A x \in DOMAIN fs : known[x] = fs[x]
      /\ f \notin DOMAIN fs /\ f # NoFrame => known[f] = NewStats
  <2>1. LookedUp(known, fs, f)
    BY <1>1, WithStatsForm
  <2> QED BY <2>1 DEF LookedUp
<1>3. Somewhere(known) = Somewhere(fs) \cup {f}
  BY <1>2 DEF Somewhere
<1>4. ASSUME NEW g \in DOMAIN known
      PROVE  WorkAddsUp(known[g], E, D, g) /\ known[g].actions = Cardinality(Given(A, g))
  <2>1. CASE g \in DOMAIN fs
    BY <1>2, <2>1 DEF Booked
  <2>2. CASE g \notin DOMAIN fs
    <3>1. g = f /\ f \notin Somewhere(fs) /\ known[g] = NewStats
      BY <1>2, <2>2 DEF Somewhere
    <3>2. In(E, g) = {} /\ Out(D, g) = {} /\ Given(A, g) = {}
      BY <3>1 DEF In, Out, Given, Booked
    <3>3. NewStats.actions = Cardinality(Given(A, g))
      BY <3>2, FS_EmptySet DEF NewStats
    <3> QED BY <3>1, <3>2, <3>3, NoWork
  <2> QED BY <2>1, <2>2
<1> QED BY <1>2, <1>3, <1>4 DEF Booked

\* Marks on a frame: whether it was begun and ended, and its target.
SameBooks(c, s) ==
    /\ c.operations = s.operations /\ c.decisions = s.decisions /\ c.actions = s.actions
    /\ c.cost = s.cost /\ c.saved = s.saved /\ c.transfer = s.transfer
    /\ c.queues = s.queues

Begun(s, target) == [s EXCEPT !.begun = TRUE, !.target = target]
Ended(s) == [s EXCEPT !.ended = TRUE]

\* The mark and the target of a frame that begins.
LEMMA BegunForm ==
    ASSUME NEW s, IsStats(s), NEW target, NEW c, c = Begun(s, target)
    PROVE  IsStats(c) /\ SameBooks(c, s) /\ c.target = target
BY DEF IsStats, SameBooks, Begun

\* The mark of a frame that ends.
LEMMA EndedForm ==
    ASSUME NEW s, IsStats(s), NEW c, c = Ended(s)
    PROVE  IsStats(c) /\ SameBooks(c, s) /\ c.target = s.target
BY DEF IsStats, SameBooks, Ended

\* They leave its books alone.
LEMMA BookedMarks ==
    ASSUME NEW fs, NEW E, NEW D, NEW A, Booked(fs, E, D, A), NEW f \in DOMAIN fs,
           NEW c, IsStats(c), c.target \in Nat, SameBooks(c, fs[f]),
           NEW gs, Rewritten(gs, fs, f, c)
    PROVE  Booked(gs, E, D, A) /\ Somewhere(gs) = Somewhere(fs)
<1>2. /\ IsBook(gs) /\ DOMAIN gs = DOMAIN fs /\ gs[f] = c
      /\ \A x \in DOMAIN fs : x # f => gs[x] = fs[x]
  BY DEF Rewritten
<1>3. Somewhere(gs) = Somewhere(fs)
  BY <1>2 DEF Somewhere
<1>4. WorkAddsUp(fs[f], E, D, f) /\ fs[f].actions = Cardinality(Given(A, f))
  BY DEF Booked
<1>5. WorkAddsUp(c, E, D, f) /\ c.actions = Cardinality(Given(A, f))
  BY <1>4, OtherWork DEF SameBooks
<1>6. \A g \in DOMAIN gs : WorkAddsUp(gs[g], E, D, g) /\ gs[g].actions = Cardinality(Given(A, g))
  BY <1>2, <1>4, <1>5 DEF Booked
<1> QED BY <1>2, <1>3, <1>6 DEF Booked

\* New actions are counted for the frame they are given for.
Fresh(new, A, f) == IsFiniteSet(new) /\ new \cap A = {} /\ \A a \in new : a[2] = f

\* New actions for a frame are counted there once.
LEMMA BookedActions ==
    ASSUME NEW fs, NEW E, NEW D, NEW A, Booked(fs, E, D, A), NEW f,
           NEW new, Fresh(new, A, f),
           NEW gs, gs = RecordActions(fs, f, new)
    PROVE  Booked(gs, E, D, A \cup new) /\ Somewhere(gs) = Somewhere(fs) \cup {f}
<1> DEFINE known == WithStats(fs, f)
           B == A \cup new
<1>0. IsFiniteSet(new) /\ new \cap A = {} /\ \A a \in new : a[2] = f
  BY DEF Fresh
<1>1. IsBook(fs) /\ IsFiniteSet(A) /\ IsFiniteSet(B)
  BY <1>0, FS_Union DEF Booked
<1>2. Booked(known, E, D, A) /\ Somewhere(known) = Somewhere(fs) \cup {f}
  BY BookedLookup
<1>3. IsBook(known)
  BY <1>2 DEF Booked
<1>4. \A g : g # f => Given(B, g) = Given(A, g)
  BY <1>0 DEF Given
<1>5. Given(B, f) = Given(A, f) \cup new /\ Given(A, f) \cap new = {}
  BY <1>0 DEF Given
<1>6. /\ Cardinality(Given(A, f)) \in Nat /\ Cardinality(new) \in Nat
      /\ Cardinality(Given(B, f)) = Cardinality(Given(A, f)) + Cardinality(new)
  <2>1. IsFiniteSet(Given(A, f))
    <3>1. Given(A, f) \subseteq A
      BY DEF Given
    <3> QED BY <1>1, <3>1, FS_Subset
  <2>2. Cardinality(Given(A, f) \cap new) = 0
    BY <1>5, FS_EmptySet
  <2>3. /\ Cardinality(Given(A, f)) \in Nat /\ Cardinality(new) \in Nat
        /\ Cardinality(Given(A, f) \cup new)
             = Cardinality(Given(A, f)) + Cardinality(new) - Cardinality(Given(A, f) \cap new)
    BY <1>0, <2>1, FS_CardinalityType, FS_Union
  <2> HIDE DEF B
  <2> QED BY <1>5, <2>2, <2>3
<1>7. CASE f = NoFrame
  <2>1. gs = fs
    BY <1>1, <1>7, RecordActionsForm
  <2>2. Somewhere(gs) = Somewhere(fs) \cup {f} /\ NoFrame \notin DOMAIN fs
    BY <1>1, <1>7, <2>1 DEF Somewhere, IsBook
  <2>3. \A g \in DOMAIN gs : gs[g].actions = Cardinality(Given(B, g))
    BY <1>4, <1>7, <2>1, <2>2 DEF Booked
  <2>4. \A a \in B : a[2] \in Somewhere(gs)
    BY <1>0, <2>1, <2>2 DEF Booked
  <2> QED BY <1>1, <2>1, <2>2, <2>3, <2>4 DEF Booked
<1>8. CASE f # NoFrame
  <2> DEFINE n == known[f].actions + Cardinality(new)
             c == [known[f] EXCEPT !.actions = n]
  <2>1. f \in DOMAIN known
    BY <1>2, <1>8 DEF Somewhere
  <2>2. gs = [known EXCEPT ![f] = c]
    <3>1. gs = [known EXCEPT ![f].actions = @ + Cardinality(new)]
      BY <1>1, <1>8, RecordActionsForm
    <3> HIDE DEF known
    <3> QED BY <3>1
  <2> HIDE DEF known, n
  <2>3. IsStats(known[f]) /\ known[f].target \in Nat
    BY <1>3, <2>1 DEF IsBook
  <2>4. /\ IsStats(c) /\ c.target = known[f].target /\ c.actions = n
        /\ c.operations = known[f].operations /\ c.decisions = known[f].decisions
        /\ c.cost = known[f].cost /\ c.saved = known[f].saved
        /\ c.transfer = known[f].transfer /\ c.queues = known[f].queues
    BY <2>3, ActionsForm
  <2> HIDE DEF c
  <2>5. /\ IsBook(gs) /\ DOMAIN gs = DOMAIN known /\ gs[f] = c
        /\ \A x \in DOMAIN known : x # f => gs[x] = known[x]
    <3>1. c.target \in Nat
      BY <2>3, <2>4
    <3>2. Rewritten(gs, known, f, c)
      BY <1>3, <2>1, <2>2, <2>4, <3>1, BookForm
    <3> QED BY <3>2 DEF Rewritten
  <2>6. Somewhere(gs) = Somewhere(known)
    BY <2>5 DEF Somewhere
  <2>7. WorkAddsUp(known[f], E, D, f) /\ known[f].actions = Cardinality(Given(A, f))
    BY <1>2, <2>1 DEF Booked
  <2>8. WorkAddsUp(c, E, D, f)
    BY <2>4, <2>7, OtherWork
  <2>9. c.actions = Cardinality(Given(B, f))
    BY <1>6, <2>4, <2>7 DEF n
  <2> HIDE DEF B
  <2>10. \A g \in DOMAIN gs : WorkAddsUp(gs[g], E, D, g) /\ gs[g].actions = Cardinality(Given(B, g))
    BY <1>2, <1>4, <2>5, <2>8, <2>9 DEF Booked
  <2>11. \A a \in B : a[2] \in Somewhere(gs)
    BY <1>0, <1>2, <2>6 DEF Booked, B
  <2> QED BY <1>1, <1>2, <2>5, <2>6, <2>10, <2>11 DEF Booked, B
<1> QED BY <1>7, <1>8

\* gs is fs with the operation op charged to f.
IsCharged(gs, fs, f, op, decided) == gs = Charge(fs, f, op, decided = "none")

\* From E and D to F and C only work of f has come.
OnlyFor(f, E, D, F, C) ==
    /\ \A g : g # f => /\ In(F, g) = In(E, g)
                       /\ Out(C, g) = Out(D, g)
                       /\ \A id \in Out(D, g) : C[id] = D[id]
    /\ \A o \in F : o \in E \/ o.frame = f
    /\ \A id \in DOMAIN C : C[id].frame = f \/ (id \in DOMAIN D /\ C[id] = D[id])

\* An operation's frame, if it has one, is charged with it.
LEMMA BookedCharge ==
    ASSUME NEW fs, NEW E, NEW D, NEW A, Booked(fs, E, D, A), NEW f \in Somewhere(fs),
           NEW op \in Requests, NEW decided,
           NEW F, NEW C, IsWork(F, C),
           OnlyFor(f, E, D, F, C),
           NEW gs, IsCharged(gs, fs, f, op, decided),
           f # NoFrame => WorkAddsUp(gs[f], F, C, f)
    PROVE  Booked(gs, F, C, A) /\ Somewhere(gs) = Somewhere(fs)
<1>1. IsBook(fs)
  BY DEF Booked
<1>2. CASE f = NoFrame
  <2>1. gs = fs /\ f \notin DOMAIN fs
    BY <1>1, <1>2 DEF IsCharged, Charge, IsBook
  <2>2. \A g \in DOMAIN gs : WorkAddsUp(gs[g], F, C, g)
    <3> TAKE g \in DOMAIN gs
    <3>1. WorkAddsUp(fs[g], E, D, g) /\ g # f
      BY <2>1 DEF Booked
    <3> QED BY <2>1, <3>1, OtherWork DEF OnlyFor
  <2> QED BY <2>1, <2>2 DEF Booked, OnlyFor
<1>3. CASE f # NoFrame
  <2> DEFINE c == Charged(fs[f], op, decided)
  <2>1. f \in DOMAIN fs
    BY <1>3 DEF Somewhere
  <2>2. gs = [fs EXCEPT ![f] = c]
    BY <1>1, <2>1, ChargeForm DEF IsCharged
  <2>3. IsStats(fs[f]) /\ fs[f].target \in Nat
    BY <1>1, <2>1 DEF IsBook
  <2>4. IsStats(c) /\ c.target = fs[f].target /\ c.actions = fs[f].actions
    BY <2>3, ChargedForm
  <2> HIDE DEF c
  <2>5. /\ IsBook(gs) /\ DOMAIN gs = DOMAIN fs /\ gs[f] = c
        /\ \A x \in DOMAIN fs : x # f => gs[x] = fs[x]
    <3>1. c.target \in Nat
      BY <2>3, <2>4
    <3>2. Rewritten(gs, fs, f, c)
      BY <1>1, <2>1, <2>2, <2>4, <3>1, BookForm
    <3> QED BY <3>2 DEF Rewritten
  <2>6. Somewhere(gs) = Somewhere(fs)
    BY <2>5 DEF Somewhere
  <2>7. ASSUME NEW g \in DOMAIN gs
        PROVE  WorkAddsUp(gs[g], F, C, g) /\ gs[g].actions = Cardinality(Given(A, g))
    <3>1. WorkAddsUp(fs[g], E, D, g) /\ fs[g].actions = Cardinality(Given(A, g))
      BY <2>5 DEF Booked
    <3>2. CASE g = f
      BY <1>3, <2>4, <2>5, <3>1, <3>2
    <3>3. CASE g # f
      BY <2>5, <3>1, <3>3, OtherWork DEF OnlyFor
    <3> QED BY <3>2, <3>3
  <2>8. \A o \in F : o.frame \in Somewhere(gs)
    BY <2>6 DEF Booked, OnlyFor
  <2>9. \A id \in DOMAIN C : C[id].frame \in Somewhere(gs)
    BY <2>6 DEF Booked, OnlyFor
  <2> QED BY <2>5, <2>6, <2>7, <2>8, <2>9 DEF Booked
<1> QED BY <1>2, <1>3

\* An executed operation.
LEMMA BookedKept ==
    ASSUME NEW fs, NEW E, NEW D, NEW A, Booked(fs, E, D, A), NEW f \in Somewhere(fs),
           NEW op \in Requests,
           NEW o, o \notin E, o.frame = f, o.type = op.type, o.cost = op.cost,
           o.size = op.bytes, o.queue = op.queue,
           NEW decided, decided = "none", NEW gs, IsCharged(gs, fs, f, op, decided)
    PROVE  Booked(gs, E \cup {o}, D, A) /\ Somewhere(gs) = Somewhere(fs)
<1> DEFINE F == E \cup {o}
<1>1. IsBook(fs) /\ IsWork(E, D) /\ o.cost \in Nat /\ o.size \in Nat
  BY NumbersAreNatural DEF Booked
<1>2. IsWork(F, D)
  BY <1>1, FS_AddElement DEF IsWork
<1>3. \A g : g # f => In(F, g) = In(E, g)
  BY DEF In
<1>4. ASSUME f # NoFrame PROVE WorkAddsUp(gs[f], F, D, f)
  <2> DEFINE c == Charged(fs[f], op, decided)
  <2>1. f \in DOMAIN fs
    BY <1>4 DEF Somewhere
  <2>2. gs[f] = c
    <3>1. gs = [fs EXCEPT ![f] = c]
      BY <1>1, <2>1, ChargeForm DEF IsCharged
    <3> HIDE DEF c
    <3> QED BY <2>1, <3>1
  <2>3. IsStats(fs[f])
    BY <1>1, <2>1 DEF IsBook
  <2>4. /\ c.operations = fs[f].operations + 1
        /\ c.decisions = fs[f].decisions + 0
        /\ c.cost = fs[f].cost + o.cost
        /\ c.saved = fs[f].saved + 0
        /\ c.transfer = fs[f].transfer + (IF o.type \in Transfers THEN o.size ELSE 0)
        /\ c.queues = ChargedQueue(fs[f].queues, op)
    BY <2>3, ChargedForm
  <2>5. WorkAddsUp(fs[f], E, D, f)
    BY <2>1 DEF Booked
  <2> HIDE DEF c
  <2>6. WorkAddsUp(c, F, D, f)
    BY <1>1, <2>4, <2>5, KeptWork DEF ChargedQueue
  <2> QED BY <2>2, <2>6
<1>5. OnlyFor(f, E, D, F, D)
  BY <1>3 DEF OnlyFor
<1> HIDE DEF F
<1>6. Booked(gs, F, D, A) /\ Somewhere(gs) = Somewhere(fs)
  BY <1>2, <1>4, <1>5, BookedCharge
<1> QED BY <1>6 DEF F

\* An eliminated one.
LEMMA BookedDropped ==
    ASSUME NEW fs, NEW E, NEW D, NEW A, Booked(fs, E, D, A), NEW f \in Somewhere(fs),
           NEW op \in Requests,
           NEW id, id \notin DOMAIN D, NEW d, d.frame = f, d.cost = op.cost,
           NEW decided, decided # "none", NEW gs, IsCharged(gs, fs, f, op, decided)
    PROVE  Booked(gs, E, Bind(D, id, d), A) /\ Somewhere(gs) = Somewhere(fs)
<1> DEFINE C == Bind(D, id, d)
<1>1. IsBook(fs) /\ IsWork(E, D) /\ d.cost \in Nat
  BY NumbersAreNatural DEF Booked
<1>2. DOMAIN C = DOMAIN D \cup {id} /\ C[id] = d /\ \A x \in DOMAIN D : C[x] = D[x]
  BY DEF Bind
<1> HIDE DEF C
<1>3. IsWork(E, C)
  BY <1>1, <1>2, FS_AddElement DEF IsWork
<1>4. \A g : g # f => /\ In(E, g) = In(E, g)
                      /\ Out(C, g) = Out(D, g)
                      /\ \A x \in Out(D, g) : C[x] = D[x]
  BY <1>2 DEF Out
<1>5. \A x \in DOMAIN C : C[x].frame = f \/ (x \in DOMAIN D /\ C[x] = D[x])
  BY <1>2
<1>6. ASSUME f # NoFrame PROVE WorkAddsUp(gs[f], E, C, f)
  <2> DEFINE c == Charged(fs[f], op, decided)
  <2>1. f \in DOMAIN fs
    BY <1>6 DEF Somewhere
  <2>2. gs[f] = c
    <3>1. gs = [fs EXCEPT ![f] = c]
      BY <1>1, <2>1, ChargeForm DEF IsCharged
    <3> HIDE DEF c
    <3> QED BY <2>1, <3>1
  <2>3. IsStats(fs[f])
    BY <1>1, <2>1 DEF IsBook
  <2>4. /\ c.operations = fs[f].operations + 1
        /\ c.decisions = fs[f].decisions + 1
        /\ c.cost = fs[f].cost + 0
        /\ c.saved = fs[f].saved + d.cost
        /\ c.transfer = fs[f].transfer + 0
        /\ c.queues = fs[f].queues
    BY <2>3, ChargedForm
  <2>5. WorkAddsUp(fs[f], E, D, f)
    BY <2>1 DEF Booked
  <2> HIDE DEF c
  <2>6. WorkAddsUp(c, E, C, f)
    BY <1>1, <2>4, <2>5, DroppedWork DEF C
  <2> QED BY <2>2, <2>6
<1>7. Booked(gs, E, C, A) /\ Somewhere(gs) = Somewhere(fs)
  <2>1. OnlyFor(f, E, D, E, C)
    BY <1>4, <1>5 DEF OnlyFor
  <2> QED BY <1>3, <1>6, <2>1, BookedCharge
<1> QED BY <1>7 DEF C

-----------------------------------------------------------------------------
(* The inductive invariant of the books.                                   *)

IsPolicy(p) ==
    p = [target |-> p.target, budgets |-> p.budgets, residents |-> p.residents,
         emitted |-> p.emitted]

\* Every operation has an id of its own, and only the runtime's.
Identified(E, D, ids) ==
    /\ \A o \in E : o.id \in ids
    /\ DOMAIN D \subseteq ids
    /\ \A o, p \in E : o.id = p.id => o = p

BooksInv ==
    /\ IsState(runtime)
    /\ IsPolicy(policy) /\ policy.target \in Nat
    /\ currentFrame \in Somewhere(frames)
    /\ Booked(frames, executed, decisions, policy.emitted)
    /\ Identified(executed, decisions, runtime.ids)

\* Actions that are given are remembered, and nothing else of the policy changes.
LEMMA EmitForm ==
    ASSUME NEW p, IsPolicy(p), NEW actions, NEW q, q = Emit(p, actions)
    PROVE  /\ IsPolicy(q) /\ q.target = p.target /\ q.budgets = p.budgets
           /\ q.residents = p.residents /\ q.emitted = p.emitted \cup actions
BY DEF Emit, IsPolicy

\* A session may set the target and budgets, to numbers.
LEMMA ConfigureForm ==
    ASSUME NEW p, IsPolicy(p), p.target \in Nat,
           NEW target \in Targets \cup {Unset}, NEW nested \in Targets \cup {Unset}, NEW budgets,
           NEW q, q = Configure(p, [target |-> target, nested |-> nested, budgets |-> budgets])
    PROVE  /\ IsPolicy(q) /\ q.target \in Nat
           /\ q.residents = p.residents /\ q.emitted = p.emitted
<1> DEFINE asked == IF target \in {Unset, 0} /\ nested # Unset THEN nested ELSE target
           new == IF asked = Unset THEN p.target ELSE asked
<1>1. new \in Nat
  BY NumbersAreNatural
<1>2. PICK bs : q = [p EXCEPT !.target = new, !.budgets = bs]
  BY DEF Configure
<1> HIDE DEF new
<1> QED BY <1>1, <1>2 DEF IsPolicy

\* The target a frame begins with is a number.
LEMMA FrameBudgetType ==
    ASSUME NEW p, p.target \in Nat, NEW target \in Targets \cup {Unset}
    PROVE  FrameBudget(p, target) \in Nat
BY NumbersAreNatural DEF FrameBudget

\* Nothing is in the books of a new session.
LEMMA BooksInit == Init => BooksInv
<1> SUFFICES ASSUME Init PROVE BooksInv
  OBVIOUS
<1>1. IsState(EmptyState)
  BY DEF IsState, EmptyState
<1>2. IsBook(Empty) /\ DOMAIN Empty = {}
  BY DEF IsBook, Empty
<1>3. Booked(Empty, {}, Empty, {})
  BY <1>2, FS_EmptySet DEF Booked, IsWork
<1>4. Identified({}, Empty, runtime.ids)
  BY <1>2 DEF Identified
<1>5. /\ runtime = EmptyState /\ executed = {} /\ decisions = Empty /\ frames = Empty
      /\ currentFrame = NoFrame
      /\ policy = [target |-> DefaultTarget, budgets |-> Empty, residents |-> Empty, emitted |-> {}]
  BY DEF Init
<1>6. IsPolicy(policy) /\ policy.target \in Nat /\ policy.emitted = {}
  BY <1>5, NumbersAreNatural DEF IsPolicy
<1> QED BY <1>1, <1>3, <1>4, <1>5, <1>6 DEF BooksInv, Somewhere

\* The policy engine is configured.
LEMMA BooksSessionBegin ==
    ASSUME BooksInv,
           NEW target \in Targets \cup {Unset}, NEW nested \in Targets \cup {Unset}, NEW budgets,
           SessionBegin([target |-> target, nested |-> nested, budgets |-> budgets])
    PROVE  BooksInv'
<1>1. /\ policy' = Configure(policy, [target |-> target, nested |-> nested, budgets |-> budgets])
      /\ UNCHANGED <<runtime, executed, decisions, frames, currentFrame>>
  BY DEF SessionBegin
<1>2. IsPolicy(policy') /\ policy'.target \in Nat /\ policy'.emitted = policy.emitted
  BY <1>1, ConfigureForm DEF BooksInv
<1> QED BY <1>1, <1>2 DEF BooksInv

\* A frame is looked up, marked and opened.
LEMMA BooksFrameBegin ==
    ASSUME BooksInv, NEW f \in FrameId, NEW target \in Targets \cup {Unset},
           FrameBegin(f, target)
    PROVE  BooksInv'
<1> DEFINE fs == WithStats(frames, f)
           budget == FrameBudget(policy, target)
<1>1. /\ frames' = [fs EXCEPT ![f].begun = TRUE, ![f].target = budget]
      /\ currentFrame' = f
      /\ UNCHANGED <<runtime, executed, decisions, policy>>
  BY DEF FrameBegin
<1>2. /\ Booked(fs, executed, decisions, policy.emitted)
      /\ Somewhere(fs) = Somewhere(frames) \cup {f}
  BY BookedLookup DEF BooksInv
<1>3. budget \in Nat
  BY FrameBudgetType DEF BooksInv
<1>4. f \in DOMAIN fs
  BY <1>2, NullsAreNotIds DEF Somewhere
<1> HIDE DEF fs, budget
<1>5. IsStats(fs[f])
  BY <1>2, <1>4 DEF Booked, IsBook
<1>6. PICK c : c = Begun(fs[f], budget)
  OBVIOUS
<1>7. frames' = [fs EXCEPT ![f] = c]
  BY <1>1, <1>4, <1>6 DEF Begun
<1>8. /\ Booked(frames', executed, decisions, policy.emitted)
      /\ Somewhere(frames') = Somewhere(fs)
  <2>1. IsStats(c) /\ SameBooks(c, fs[f]) /\ c.target \in Nat
    BY <1>3, <1>5, <1>6, BegunForm
  <2>2. IsBook(fs)
    BY <1>2 DEF Booked
  <2>3. Rewritten(frames', fs, f, c)
    BY <1>4, <1>7, <2>1, <2>2, BookForm
  <2> QED BY <1>2, <1>4, <2>1, <2>3, BookedMarks
<1>9. currentFrame' \in Somewhere(frames')
  BY <1>1, <1>2, <1>8
<1> QED BY <1>1, <1>8, <1>9 DEF BooksInv

\* What the end of a frame gives is finitely many new actions for it.
LEMMA FinishForm ==
    ASSUME NEW p, NEW f, NEW stats, NEW actions \in FinishActions(p, f, stats)
    PROVE  Fresh(actions, p.emitted, f)
<1> DEFINE over == <<"frame-budget-pressure", f, "frame-budget">>
           uneven(q) == <<"queue-imbalance-pressure", f, q>>
<1>1. \E q : actions \subseteq {over, uneven(q)} \ p.emitted
  <2>1. CASE DOMAIN stats.queues = {}
    BY <2>1 DEF FinishActions
  <2>2. CASE DOMAIN stats.queues # {}
    BY <2>2 DEF FinishActions
  <2> QED BY <2>1, <2>2
<1>2. PICK q : actions \subseteq {over, uneven(q)} \ p.emitted
  BY <1>1
<1>3. IsFiniteSet({over, uneven(q)})
  <2>1. IsFiniteSet({over}) /\ {over} \cup {uneven(q)} = {over, uneven(q)}
    BY FS_Singleton
  <2> QED BY <2>1, FS_AddElement
<1>4. over[2] = f /\ uneven(q)[2] = f
  OBVIOUS
<1> HIDE DEF over, uneven
<1>5. IsFiniteSet(actions)
  BY <1>2, <1>3, FS_Subset
<1> QED BY <1>2, <1>4, <1>5 DEF Fresh

\* So is what a registration gives.
LEMMA BudgetForm ==
    ASSUME NEW p, NEW f, NEW layer
    PROVE  Fresh(BudgetActions(p, layer, f), p.emitted, f)
<1> DEFINE all == {<<"budget-pressure", f, layer>>}
<1>1. BudgetActions(p, layer, f) \subseteq all /\ BudgetActions(p, layer, f) \cap p.emitted = {}
  BY DEF BudgetActions
<1>2. IsFiniteSet(all)
  BY FS_Singleton
<1>3. \A a \in all : a[2] = f
  OBVIOUS
<1> HIDE DEF all
<1> QED BY <1>1, <1>2, <1>3, FS_Subset DEF Fresh

\* The open frame is judged, and closed.
LEMMA BooksFrameEnd ==
    ASSUME BooksInv, NEW f \in FrameId, FrameEnd(f)
    PROVE  BooksInv'
<1>1. PICK actions \in FinishActions(policy, f, frames[f]) :
        /\ policy' = Emit(policy, actions)
        /\ frames' = [RecordActions(frames, f, actions) EXCEPT ![f].ended = TRUE]
  BY DEF FrameEnd
<1>2. /\ currentFrame = f /\ currentFrame' = NoFrame
      /\ UNCHANGED <<runtime, executed, decisions>>
  BY DEF FrameEnd
<1>3. /\ IsPolicy(policy') /\ policy'.target \in Nat
      /\ policy'.emitted = policy.emitted \cup actions
  BY <1>1, EmitForm DEF BooksInv
<1>4. Fresh(actions, policy.emitted, f)
  BY FinishForm
<1>5. PICK fs : fs = RecordActions(frames, f, actions)
  OBVIOUS
<1>6. /\ Booked(fs, executed, decisions, policy'.emitted)
      /\ Somewhere(fs) = Somewhere(frames) \cup {f}
  <2>1. Booked(frames, executed, decisions, policy.emitted)
    BY DEF BooksInv
  <2>2. /\ Booked(fs, executed, decisions, policy.emitted \cup actions)
        /\ Somewhere(fs) = Somewhere(frames) \cup {f}
    BY <1>4, <1>5, <2>1, BookedActions
  <2> QED BY <1>3, <2>2
<1>7. f \in DOMAIN fs /\ IsBook(fs)
  BY <1>6, NullsAreNotIds DEF Somewhere, Booked
<1>8. PICK c : c = Ended(fs[f])
  OBVIOUS
<1>9. frames' = [fs EXCEPT ![f] = c]
  BY <1>1, <1>5, <1>7, <1>8 DEF Ended
<1>10. IsStats(c) /\ SameBooks(c, fs[f]) /\ c.target \in Nat
  <2>1. IsStats(fs[f]) /\ fs[f].target \in Nat
    BY <1>7 DEF IsBook
  <2>2. IsStats(c) /\ SameBooks(c, fs[f]) /\ c.target = fs[f].target
    BY <1>8, <2>1, EndedForm
  <2> QED BY <2>1, <2>2
<1>11. Rewritten(frames', fs, f, c)
  BY <1>7, <1>9, <1>10, BookForm
<1>12. Booked(frames', executed, decisions, policy'.emitted)
  BY <1>6, <1>7, <1>10, <1>11, BookedMarks
<1>13. currentFrame' \in Somewhere(frames')
  BY <1>2 DEF Somewhere
<1> QED BY <1>2, <1>3, <1>12, <1>13 DEF BooksInv

\* A refused frame event may have looked its frame up.
LEMMA BooksFrameRefused ==
    ASSUME BooksInv, NEW f \in FrameId, FrameRefused(f)
    PROVE  BooksInv'
<1>1. /\ frames' = WithStats(frames, f)
      /\ UNCHANGED <<runtime, executed, decisions, policy, currentFrame>>
  BY DEF FrameRefused
<1>2. /\ Booked(frames', executed, decisions, policy.emitted)
      /\ Somewhere(frames') = Somewhere(frames) \cup {f}
  BY <1>1, BookedLookup DEF BooksInv
<1> QED BY <1>1, <1>2 DEF BooksInv

\* A resource that puts a layer over its budget gives an action for the open frame.
LEMMA BooksRegister ==
    ASSUME BooksInv, NEW r, NEW view, Register(r, view)
    PROVE  BooksInv'
<1>1. PICK p : p = [policy EXCEPT !.residents = Bind(@, r, view)]
  OBVIOUS
<1>2. PICK actions : actions = BudgetActions(p, view.memory, currentFrame)
  OBVIOUS
<1>3. /\ runtime' = RegisterState(runtime, r, view)
      /\ policy' = Emit(p, actions)
      /\ frames' = RecordActions(frames, currentFrame, actions)
      /\ UNCHANGED <<executed, decisions, currentFrame>>
  BY <1>1, <1>2 DEF Register
<1>4. IsState(runtime') /\ runtime'.ids = runtime.ids
  BY <1>3, ResourceState DEF BooksInv
<1>5. IsPolicy(p) /\ p.target = policy.target /\ p.emitted = policy.emitted
  BY <1>1 DEF BooksInv, IsPolicy
<1>6. /\ IsPolicy(policy') /\ policy'.target \in Nat
      /\ policy'.emitted = policy.emitted \cup actions
  BY <1>3, <1>5, EmitForm DEF BooksInv
<1>7. Fresh(actions, policy.emitted, currentFrame)
  BY <1>2, <1>5, BudgetForm
<1>8. /\ Booked(frames', executed, decisions, policy'.emitted)
      /\ Somewhere(frames') = Somewhere(frames) \cup {currentFrame}
  <2>1. Booked(frames, executed, decisions, policy.emitted)
    BY DEF BooksInv
  <2>2. /\ Booked(frames', executed, decisions, policy.emitted \cup actions)
        /\ Somewhere(frames') = Somewhere(frames) \cup {currentFrame}
    BY <1>3, <1>7, <2>1, BookedActions
  <2> QED BY <1>6, <2>2
<1> QED BY <1>3, <1>4, <1>6, <1>8 DEF BooksInv

\* A release tells the policy engine.
LEMMA BooksRelease ==
    ASSUME BooksInv, NEW r, Release(r)
    PROVE  BooksInv'
<1>1. /\ runtime' = ReleaseState(runtime, r)
      /\ \E residents : policy' = [policy EXCEPT !.residents = residents]
      /\ UNCHANGED <<executed, decisions, frames, currentFrame>>
  <2>1. policy = [policy EXCEPT !.residents = policy.residents]
    BY DEF BooksInv, IsPolicy
  <2> QED BY <2>1 DEF Release
<1>2. IsState(runtime') /\ runtime'.ids = runtime.ids
  BY <1>1, ResourceState DEF BooksInv
<1>3. /\ IsPolicy(policy') /\ policy'.target = policy.target
      /\ policy'.emitted = policy.emitted
  BY <1>1 DEF BooksInv, IsPolicy
<1> QED BY <1>1, <1>2, <1>3 DEF BooksInv

\* What a submission does to the books, with a name for each part.
Executed(id, op, f) ==
    [id |-> id, type |-> op.type, frame |-> f, cost |-> op.cost, size |-> op.bytes,
     queue |-> op.queue]

Eliminated(s, op, f, decided) ==
    [policy |-> decided, frame |-> f, type |-> op.type, cost |-> op.cost, size |-> op.bytes,
     retained |-> RetainedBy(s, op, decided)]

\* The frame a submission belongs to: the one it names, or the open one.
FrameNamed(op) == IF op.frame = NoFrame THEN currentFrame ELSE op.frame

\* What a submission makes of the controller, by what was decided.
LEMMA SubmitForm ==
    ASSUME NEW id, NEW op, Submit(id, op), NEW f, f = FrameNamed(op),
           NEW decided, decided = DecideOperation(runtime, op, f)
    PROVE  /\ id \notin runtime.ids
           /\ runtime' = ProcessState(runtime, id, op, f)
           /\ decided = "none" => /\ executed' = executed \cup {Executed(id, op, f)}
                                  /\ decisions' = decisions
           /\ decided # "none" =>
                /\ executed' = executed
                /\ decisions' = Bind(decisions, id, Eliminated(runtime, op, f, decided))
           /\ currentFrame' = currentFrame
BY DEF Submit, FrameNamed, Executed, Eliminated

\* What it makes of the policy engine and the frames.
LEMMA SubmitGives ==
    ASSUME NEW id, NEW op, Submit(id, op), NEW f, f = FrameNamed(op),
           NEW decided, decided = DecideOperation(runtime, op, f)
    PROVE  \E actions :
             /\ Fresh(actions, policy.emitted, f)
             /\ policy' = Emit(policy, actions)
             /\ frames' = RecordActions(Charge(WithStats(frames, f), f, op, decided = "none"),
                                        f, actions)
<1> DEFINE target == IF f = NoFrame THEN policy.target ELSE WithStats(frames, f)[f].target
           actions == TransferActions(policy, id, op, decided = "none", f, target)
           all == {<<"late-upload-pressure", f, id>>}
<1>1. /\ policy' = Emit(policy, actions)
      /\ frames' = RecordActions(Charge(WithStats(frames, f), f, op, decided = "none"), f, actions)
  BY DEF Submit, FrameNamed
<1>2. actions \subseteq all /\ actions \cap policy.emitted = {}
  BY DEF TransferActions
<1>3. IsFiniteSet(all)
  BY FS_Singleton
<1>4. \A a \in all : a[2] = f
  OBVIOUS
<1> HIDE DEF all, actions
<1>5. Fresh(actions, policy.emitted, f)
  BY <1>2, <1>3, <1>4, FS_Subset DEF Fresh
<1> QED BY <1>1, <1>5

\* What it makes of the governor and the gate, which see the same frames and target.
LEMMA SubmitAsks ==
    ASSUME NEW id, NEW op, Submit(id, op), NEW f, f = FrameNamed(op),
           NEW decided, decided = DecideOperation(runtime, op, f)
    PROVE  \E at, command, fs, target, prefetches :
             /\ command = LiveCommand(op, decided, at)
             /\ directives' = directives \cup Evaluate(fs, currentFrame, policy', target, prefetches)
             /\ gates' = Bind(gates, id, Gate(op, command, fs, currentFrame, target))
<1> DEFINE at == IF f = NoFrame THEN policy.target ELSE WithStats(frames, f)[f].target
           command == LiveCommand(op, decided, at)
           target == TargetOf(frames', currentFrame, f, policy')
           prefetches == IF command = "prefetch_now" THEN {<<id, f>>} ELSE {}
<1>1. /\ directives' = directives \cup Evaluate(frames', currentFrame, policy', target, prefetches)
      /\ gates' = Bind(gates, id, Gate(op, command, frames', currentFrame, target))
  BY ZenonT(60) DEF Submit, FrameNamed
<1>2. command = LiveCommand(op, decided, at)
  OBVIOUS
<1> HIDE DEF at, command, target, prefetches
<1> QED BY <1>1, <1>2

\* An operation is charged to its frame, and may give an action for it.
LEMMA BooksSubmit ==
    ASSUME BooksInv, NEW id, NEW op \in Requests, Submit(id, op)
    PROVE  BooksInv'
<1>1. PICK f : f = FrameNamed(op)
  OBVIOUS
<1>2. PICK decided : decided = DecideOperation(runtime, op, f)
  OBVIOUS
<1>3. /\ id \notin runtime.ids
      /\ runtime' = ProcessState(runtime, id, op, f)
      /\ decided = "none" => /\ executed' = executed \cup {Executed(id, op, f)}
                             /\ decisions' = decisions
      /\ decided # "none" =>
           /\ executed' = executed
           /\ decisions' = Bind(decisions, id, Eliminated(runtime, op, f, decided))
      /\ currentFrame' = currentFrame
  BY <1>1, <1>2, SubmitForm
<1>4. PICK actions :
        /\ Fresh(actions, policy.emitted, f)
        /\ policy' = Emit(policy, actions)
        /\ frames' = RecordActions(Charge(WithStats(frames, f), f, op, decided = "none"), f, actions)
  BY <1>1, <1>2, SubmitGives
<1>5. IsState(runtime') /\ runtime'.ids = runtime.ids \cup {id}
  BY <1>3, ProcessedState DEF BooksInv
<1>6. /\ IsPolicy(policy') /\ policy'.target \in Nat
      /\ policy'.emitted = policy.emitted \cup actions
  BY <1>4, EmitForm DEF BooksInv
<1>8. PICK known : known = WithStats(frames, f)
  OBVIOUS
<1>9. /\ Booked(known, executed, decisions, policy.emitted)
      /\ Somewhere(known) = Somewhere(frames) \cup {f}
  BY <1>8, BookedLookup DEF BooksInv
<1>10. PICK gs : gs = Charge(known, f, op, decided = "none")
  OBVIOUS
<1>11. IsCharged(gs, known, f, op, decided) /\ f \in Somewhere(known)
  BY <1>9, <1>10 DEF IsCharged
<1>12. Identified(executed, decisions, runtime.ids)
  BY DEF BooksInv
<1>13. /\ Booked(gs, executed', decisions', policy.emitted)
       /\ Somewhere(gs) = Somewhere(known)
       /\ Identified(executed', decisions', runtime'.ids)
  <2>1. CASE decided = "none"
    <3>1. PICK o : o = Executed(id, op, f)
      OBVIOUS
    <3>2. /\ o.id = id /\ o.frame = f /\ o.type = op.type /\ o.cost = op.cost
          /\ o.size = op.bytes /\ o.queue = op.queue
      BY <3>1 DEF Executed
    <3>3. o \notin executed
      BY <1>3, <1>12, <3>2 DEF Identified
    <3>4. /\ Booked(gs, executed \cup {o}, decisions, policy.emitted)
          /\ Somewhere(gs) = Somewhere(known)
      BY <1>9, <1>11, <2>1, <3>2, <3>3, BookedKept
    <3>5. executed' = executed \cup {o} /\ decisions' = decisions
      BY <1>3, <2>1, <3>1
    <3>6. Identified(executed \cup {o}, decisions, runtime'.ids)
      BY <1>3, <1>5, <1>12, <3>2 DEF Identified
    <3> QED BY <3>4, <3>5, <3>6
  <2>2. CASE decided # "none"
    <3>1. PICK d : d = Eliminated(runtime, op, f, decided)
      OBVIOUS
    <3>2. d.frame = f /\ d.cost = op.cost
      BY <3>1 DEF Eliminated
    <3>3. id \notin DOMAIN decisions
      BY <1>3, <1>12 DEF Identified
    <3>4. /\ Booked(gs, executed, Bind(decisions, id, d), policy.emitted)
          /\ Somewhere(gs) = Somewhere(known)
      BY <1>9, <1>11, <2>2, <3>2, <3>3, BookedDropped
    <3>5. executed' = executed /\ decisions' = Bind(decisions, id, d)
      BY <1>3, <2>2, <3>1
    <3>6. Identified(executed, Bind(decisions, id, d), runtime'.ids)
      BY <1>5, <1>12 DEF Identified, Bind
    <3> QED BY <3>4, <3>5, <3>6
  <2> QED BY <2>1, <2>2
<1>14. frames' = RecordActions(gs, f, actions)
  BY <1>4, <1>8, <1>10
<1>15. /\ Booked(frames', executed', decisions', policy'.emitted)
       /\ Somewhere(frames') = Somewhere(gs) \cup {f}
  <2>1. /\ Booked(frames', executed', decisions', policy.emitted \cup actions)
        /\ Somewhere(frames') = Somewhere(gs) \cup {f}
    BY <1>4, <1>13, <1>14, BookedActions
  <2> QED BY <1>6, <2>1
<1>16. currentFrame' \in Somewhere(frames')
  BY <1>3, <1>9, <1>13, <1>15 DEF BooksInv
<1> QED BY <1>5, <1>6, <1>13, <1>15, <1>16 DEF BooksInv

\* Every step keeps the books.
LEMMA BooksNext == BooksInv /\ [Next]_vars => BooksInv'
<1> SUFFICES ASSUME BooksInv, [Next]_vars PROVE BooksInv'
  OBVIOUS
<1>1. ASSUME NEW target \in Targets \cup {Unset}, NEW nested \in Targets \cup {Unset},
             NEW budgets \in Budgets,
             SessionBegin([target |-> target, nested |-> nested, budgets |-> budgets])
      PROVE  BooksInv'
  BY <1>1, BooksSessionBegin
<1>2. ASSUME NEW f \in FrameId, NEW target \in Targets \cup {Unset}, FrameBegin(f, target)
      PROVE  BooksInv'
  BY <1>2, BooksFrameBegin
<1>3. ASSUME NEW f \in FrameId, FrameEnd(f) PROVE BooksInv'
  BY <1>3, BooksFrameEnd
<1>4. ASSUME NEW f \in FrameId, FrameRefused(f) PROVE BooksInv'
  BY <1>4, BooksFrameRefused
<1>5. ASSUME NEW r \in ResourceId, Release(r) PROVE BooksInv'
  BY <1>5, BooksRelease
<1>6. ASSUME NEW r \in ResourceId, NEW view \in Views[r], Register(r, view) PROVE BooksInv'
  BY <1>6, BooksRegister
<1>7. ASSUME NEW id \in OperationId, NEW op \in Requests, Submit(id, op) PROVE BooksInv'
  BY <1>7, BooksSubmit
<1>8. ASSUME UNCHANGED <<runtime, executed, decisions, policy, frames, currentFrame>>
      PROVE  BooksInv'
  BY <1>8 DEF BooksInv
<1>9. CASE SessionEnd \/ StateQuery \/ Refused \/ ToResult \/ UNCHANGED vars
  BY <1>8, <1>9 DEF SessionEnd, StateQuery, Refused, ToResult, vars
<1> QED BY <1>1, <1>2, <1>3, <1>4, <1>5, <1>6, <1>7, <1>9 DEF Next

\* The books of every frame, the identities of operations and the policy's memory stay
\* in order whatever a client submits, in and out of frames.
THEOREM BooksInvariant == Spec => []BooksInv
<1> QED BY BooksInit, BooksNext, PTL DEF Spec

\* What the invariant says of the frames is what the runs check.
LEMMA BooksAddUp == BooksInv => FramesAddUp
<1> SUFFICES ASSUME BooksInv, NEW f \in DOMAIN frames
             PROVE  LET stats == frames[f]
                    IN  /\ stats.operations = Cardinality(ExecutedIn(f)) + Cardinality(EliminatedIn(f))
                        /\ stats.decisions = Cardinality(EliminatedIn(f))
                        /\ stats.cost = CostOf(ExecutedIn(f))
                        /\ stats.transfer = SizeOf(ExecutedIn(f))
                        /\ stats.queues = [q \in {o.queue : o \in ExecutedIn(f)} |-> CostOf(ExecutedOn(f, q))]
                        /\ stats.actions = Cardinality({a \in policy.emitted : a[2] = f})
  BY DEF FramesAddUp
<1>1. /\ ExecutedIn(f) = In(executed, f) /\ EliminatedIn(f) = Out(decisions, f)
      /\ {a \in policy.emitted : a[2] = f} = Given(policy.emitted, f)
      /\ \A q : ExecutedOn(f, q) = On(In(executed, f), q)
  BY DEF ExecutedIn, EliminatedIn, ExecutedOn, In, Out, On, Given
<1>2. \A S : CostOf(S) = CostSum(S) /\ SizeOf(S) = SizeSum(Moving(S))
  BY DEF CostOf, CostSum, SizeOf, SizeSum, Moving
<1>3. /\ WorkAddsUp(frames[f], executed, decisions, f)
      /\ frames[f].actions = Cardinality(Given(policy.emitted, f))
  BY DEF BooksInv, Booked
<1> HIDE DEF Moving
<1> QED BY <1>1, <1>2, <1>3 DEF WorkAddsUp

\* The statistics a frame is judged, held and reported by are those of the operations and
\* actions of the session, for any number of frames, operations, targets and weights.
THEOREM FramesAlwaysAddUp == Spec => []FramesAddUp
<1> QED BY BooksInvariant, BooksAddUp, PTL

-----------------------------------------------------------------------------
(* Residency.                                                              *)

IsTable(f) == f = [x \in DOMAIN f |-> f[x]]

\* The governor has said of every layer over its budget that it is, for this frame.
Warned(p, current, said) ==
    \A layer \in OverBudget(p) : <<"reduce-memory-residency", current, layer>> \in said

ResidencyInv ==
    /\ BooksInv
    /\ IsTable(runtime.resources)
    /\ policy.residents = runtime.resources
    /\ Warned(policy, currentFrame, directives)

\* The governor speaks of what the policy engine and the frame are after the event.
Governed ==
    \E fs, target, prefetches :
        directives' = directives \cup Evaluate(fs, currentFrame', policy', target, prefetches)

\* Whatever else it says, it warns of every layer over its budget.
LEMMA GovernorWarns ==
    ASSUME NEW fs, NEW current, NEW p, NEW target, NEW prefetches
    PROVE  Warned(p, current, Evaluate(fs, current, p, target, prefetches))
BY DEF Evaluate, Warned

\* And so do the directives of the session.
LEMMA GovernedWarns == Governed => Warned(policy', currentFrame', directives')
<1> SUFFICES ASSUME NEW fs, NEW target, NEW prefetches,
                    directives' = directives
                        \cup Evaluate(fs, currentFrame', policy', target, prefetches)
             PROVE  Warned(policy', currentFrame', directives')
  BY DEF Governed
<1>1. PICK p, current : p = policy' /\ current = currentFrame'
  OBVIOUS
<1>2. Warned(p, current, Evaluate(fs, current, p, target, prefetches))
  BY GovernorWarns
<1> QED BY <1>1, <1>2 DEF Warned

\* Every accepted event asks it.
LEMMA EventsGovern ==
    /\ \A payload : SessionBegin(payload) => Governed
    /\ SessionEnd => Governed
    /\ \A f, target : FrameBegin(f, target) => Governed
    /\ \A f : FrameEnd(f) => Governed
    /\ \A r, view : Register(r, view) => Governed
    /\ \A r : Release(r) => Governed
    /\ \A id, op : Submit(id, op) => Governed
    /\ StateQuery => Governed
<1>1. \A payload : SessionBegin(payload) => Governed
  BY DEF SessionBegin, Govern, Governed
<1>2. SessionEnd => Governed
  BY DEF SessionEnd, Govern, Governed
<1>3. \A f, target : FrameBegin(f, target) => Governed
  BY DEF FrameBegin, Govern, Governed
<1>4. \A f : FrameEnd(f) => Governed
  BY DEF FrameEnd, Govern, Governed
<1>5. \A r, view : Register(r, view) => Governed
  BY DEF Register, Govern, Governed
<1>6. \A r : Release(r) => Governed
  BY DEF Release, Govern, Governed
<1>7. ASSUME NEW id, NEW op, Submit(id, op) PROVE Governed
  <2>1. currentFrame' = currentFrame
    BY <1>7, SubmitForm
  <2>2. \E fs, target, prefetches :
           directives' = directives \cup Evaluate(fs, currentFrame, policy', target, prefetches)
    BY <1>7, SubmitAsks
  <2> QED BY <2>1, <2>2 DEF Governed
<1>8. StateQuery => Governed
  BY DEF StateQuery, Govern, Governed
<1> QED BY <1>1, <1>2, <1>3, <1>4, <1>5, <1>6, <1>7, <1>8

\* A refused event and the plans of a result leave policy, frame and directives alone.
LEMMA RestIsStill ==
    ASSUME \/ \E f : FrameRefused(f)
           \/ Refused
           \/ ToResult
           \/ UNCHANGED vars
    PROVE  UNCHANGED <<runtime, policy, currentFrame, directives>>
BY DEF FrameRefused, Refused, ToResult, vars

\* Both sides learn of a resource, and of its end, in one step.
LEMMA SameResidents ==
    ASSUME BooksInv, IsTable(runtime.resources), policy.residents = runtime.resources, Next
    PROVE  policy'.residents = runtime'.resources /\ IsTable(runtime.resources)'
<1>0. IsState(runtime) /\ IsPolicy(policy)
  BY DEF BooksInv
<1>1. ASSUME UNCHANGED runtime, policy'.residents = policy.residents
      PROVE  policy'.residents = runtime'.resources /\ IsTable(runtime.resources)'
  BY <1>1
<1>2. ASSUME NEW target \in Targets \cup {Unset}, NEW nested \in Targets \cup {Unset}, NEW budgets,
             SessionBegin([target |-> target, nested |-> nested, budgets |-> budgets])
      PROVE  policy'.residents = runtime'.resources /\ IsTable(runtime.resources)'
  <2>1. /\ policy' = Configure(policy, [target |-> target, nested |-> nested, budgets |-> budgets])
        /\ UNCHANGED runtime
    BY <1>2 DEF SessionBegin
  <2>2. policy'.residents = policy.residents
    BY <1>0, <2>1, ConfigureForm DEF BooksInv
  <2> QED BY <1>1, <2>1, <2>2
<1>3. ASSUME NEW f, FrameEnd(f)
      PROVE  policy'.residents = runtime'.resources /\ IsTable(runtime.resources)'
  <2>1. (\E actions : policy' = Emit(policy, actions)) /\ UNCHANGED runtime
    BY <1>3 DEF FrameEnd
  <2>2. policy'.residents = policy.residents
    BY <1>0, <2>1, EmitForm
  <2> QED BY <1>1, <2>1, <2>2
<1>4. ASSUME NEW r, NEW view, Register(r, view)
      PROVE  policy'.residents = runtime'.resources /\ IsTable(runtime.resources)'
  <2>1. PICK p : p = [policy EXCEPT !.residents = Bind(@, r, view)]
    OBVIOUS
  <2>2. (\E actions : policy' = Emit(p, actions)) /\ runtime' = RegisterState(runtime, r, view)
    BY <1>4, <2>1 DEF Register
  <2>3. IsPolicy(p) /\ p.residents = Bind(policy.residents, r, view)
    BY <1>0, <2>1 DEF IsPolicy
  <2>4. policy'.residents = Bind(policy.residents, r, view)
    BY <2>2, <2>3, EmitForm
  <2>5. runtime'.resources = Bind(runtime.resources, r, view)
    BY <1>0, <2>2, RegistrationResources
  <2>6. IsTable(Bind(runtime.resources, r, view))
    BY DEF IsTable, Bind
  <2> QED BY <2>4, <2>5, <2>6
<1>5. ASSUME NEW r, Release(r)
      PROVE  policy'.residents = runtime'.resources /\ IsTable(runtime.resources)'
  <2>1. runtime' = ReleaseState(runtime, r)
    BY <1>5 DEF Release
  <2>2. runtime'.resources = Without(runtime.resources, {r})
    BY <1>0, <2>1, ReleaseResources
  <2>3. IsTable(Without(runtime.resources, {r}))
    BY DEF IsTable, Without
  <2>4. CASE r \in Known(runtime)
    <3>1. policy' = [policy EXCEPT !.residents = Without(@, {r})]
      BY <1>5, <2>4 DEF Release
    <3>2. policy'.residents = Without(policy.residents, {r})
      BY <1>0, <3>1 DEF IsPolicy
    <3> QED BY <2>2, <2>3, <3>2
  <2>5. CASE r \notin Known(runtime)
    <3>1. policy' = policy
      BY <1>5, <2>5 DEF Release
    <3>2. Without(runtime.resources, {r}) = runtime.resources
      BY <2>5 DEF Without, Known, IsTable
    <3> QED BY <2>2, <2>3, <3>1, <3>2
  <2> QED BY <2>4, <2>5
<1>6. ASSUME NEW id, NEW op, Submit(id, op)
      PROVE  policy'.residents = runtime'.resources /\ IsTable(runtime.resources)'
  <2>1. PICK f : f = FrameNamed(op)
    OBVIOUS
  <2>2. PICK decided : decided = DecideOperation(runtime, op, f)
    OBVIOUS
  <2>3. runtime' = ProcessState(runtime, id, op, f)
    BY <1>6, <2>1, <2>2, SubmitForm
  <2>4. \E actions : policy' = Emit(policy, actions)
    BY <1>6, <2>1, <2>2, SubmitGives
  <2>5. runtime'.resources = runtime.resources
    BY <1>0, <2>3, ProcessKeepsResources
  <2>6. policy'.residents = policy.residents
    BY <1>0, <2>4, EmitForm
  <2> QED BY <2>5, <2>6
<1>7. ASSUME UNCHANGED <<runtime, policy>>
      PROVE  policy'.residents = runtime'.resources /\ IsTable(runtime.resources)'
  BY <1>7
<1>8. ASSUME \/ SessionEnd \/ StateQuery \/ Refused \/ ToResult
             \/ \E f, target : FrameBegin(f, target)
             \/ \E f : FrameRefused(f)
      PROVE  UNCHANGED <<runtime, policy>>
  BY <1>8 DEF SessionEnd, StateQuery, Refused, ToResult, FrameBegin, FrameRefused
<1> QED BY <1>2, <1>3, <1>4, <1>5, <1>6, <1>7, <1>8 DEF Next

\* The inductive invariant of residency.
THEOREM ResidencyInvariant == Spec => []ResidencyInv
<1>1. Init => ResidencyInv
  <2> SUFFICES ASSUME Init PROVE ResidencyInv
    OBVIOUS
  <2>1. BooksInv
    BY BooksInit
  <2>2. /\ runtime = EmptyState /\ currentFrame = NoFrame
        /\ policy = [target |-> DefaultTarget, budgets |-> Empty, residents |-> Empty, emitted |-> {}]
    BY DEF Init
  <2>3. runtime.resources = Empty /\ policy.residents = Empty /\ policy.budgets = Empty
    BY <2>2 DEF EmptyState, Empty
  <2>4. IsTable(Empty) /\ DOMAIN Empty = {}
    BY DEF IsTable, Empty
  <2>5. OverBudget(policy) = {}
    BY <2>3, <2>4 DEF OverBudget
  <2> QED BY <2>1, <2>3, <2>4, <2>5 DEF ResidencyInv, Warned
<1>2. ResidencyInv /\ [Next]_vars => ResidencyInv'
  <2> SUFFICES ASSUME ResidencyInv, [Next]_vars PROVE ResidencyInv'
    OBVIOUS
  <2>1. BooksInv'
    BY BooksNext DEF ResidencyInv
  <2>2. policy'.residents = runtime'.resources /\ IsTable(runtime.resources)'
    <3>1. CASE Next
      BY <3>1, SameResidents DEF ResidencyInv
    <3>2. CASE UNCHANGED vars
      BY <3>2 DEF ResidencyInv, vars
    <3> QED BY <3>1, <3>2
  <2>3. Warned(policy, currentFrame, directives)'
    <3>1. CASE Governed
      BY <3>1, GovernedWarns
    <3>2. CASE (\E f : FrameRefused(f)) \/ Refused \/ ToResult \/ UNCHANGED vars
      <4>1. UNCHANGED <<policy, currentFrame, directives>>
        BY <3>2, RestIsStill
      <4> QED BY <4>1 DEF ResidencyInv
    <3>3. Governed \/ (\E f : FrameRefused(f)) \/ Refused \/ ToResult \/ UNCHANGED vars
      BY EventsGovern DEF Next
    <3> QED BY <3>1, <3>2, <3>3
  <2> QED BY <2>1, <2>2, <2>3 DEF ResidencyInv
<1> QED BY <1>1, <1>2, PTL DEF Spec

\* The policy engine counts what the controller holds, and the open frame has been warned
\* of every layer over its budget, for any views, budgets and number of layers.
THEOREM ResidencyIsAlwaysTracked == Spec => []ResidencyIsTracked
<1>1. ResidencyInv => ResidencyIsTracked
  BY DEF ResidencyInv, ResidencyIsTracked, Warned
<1> QED BY <1>1, ResidencyInvariant, PTL

-----------------------------------------------------------------------------
(* The execution gate and the governor.                                    *)

\* Nothing the governor said is taken back, and only a submission asks the gate.
LEMMA OnlySubmitsAskTheGate ==
    ASSUME [Next]_vars, \A id, op : ~Submit(id, op)
    PROVE  gates' = gates /\ directives \subseteq directives'
BY DEF Next, SessionBegin, SessionEnd, FrameBegin, FrameEnd, FrameRefused, Release, Register,
       StateQuery, Refused, ToResult, Govern, vars

\* A gate that holds work back has seen a frame that is open and nine tenths full.
LEMMA GateHolds ==
    ASSUME NEW op, NEW command, NEW fs, NEW current, NEW target,
           NEW gate, gate = Gate(op, command, fs, current, target),
           gate.action = "hold_noncritical_work"
    PROVE  /\ gate.during = current /\ gate.target = target
           /\ current # NoFrame
           /\ 10 * FrameWork(fs, current) >= 9 * target
<1> DEFINE said(action) ==
              /\ gate.action = action
              /\ gate.during = current
              /\ gate.target = target
<1>1. \/ said("reuse_existing_resource")
      \/ said("defer_redundant_work")
      \/ (said("hold_noncritical_work") /\ Hold(op, fs, current, target))
      \/ said("prestage_before_draw")
      \/ said("execute_now")
  BY DEF Gate
<1>2. said("hold_noncritical_work") /\ Hold(op, fs, current, target)
  BY <1>1
<1> QED BY <1>2 DEF Hold

\* A governor that sees the same says that the frame must be protected.
LEMMA GovernorProtects ==
    ASSUME NEW fs, NEW current, current # NoFrame, NEW p, NEW target, target # 0, NEW prefetches,
           10 * FrameWork(fs, current) >= 9 * target
    PROVE  <<"protect-frame-budget", current, "frame">> \in Evaluate(fs, current, p, target, prefetches)
BY DEF Evaluate

\* Work is never held back for a frame without the client having been told to protect it,
\* whatever the frames, targets and weights.
THEOREM HeldWorkIsAlwaysAnnounced == Spec => []HeldWorkWasAnnounced
<1>1. Init => HeldWorkWasAnnounced
  BY DEF Init, Empty, HeldWorkWasAnnounced
<1>2. HeldWorkWasAnnounced /\ [Next]_vars => HeldWorkWasAnnounced'
  <2> SUFFICES ASSUME HeldWorkWasAnnounced, [Next]_vars PROVE HeldWorkWasAnnounced'
    OBVIOUS
  <2>1. CASE \A id, op : ~Submit(id, op)
    BY <2>1, OnlySubmitsAskTheGate DEF HeldWorkWasAnnounced
  <2>2. ASSUME NEW id, NEW op, Submit(id, op) PROVE HeldWorkWasAnnounced'
    <3>1. PICK fs, target, command, prefetches :
            /\ directives' = directives \cup Evaluate(fs, currentFrame, policy', target, prefetches)
            /\ gates' = Bind(gates, id, Gate(op, command, fs, currentFrame, target))
      BY <2>2, SubmitAsks
    <3>2. PICK gate : gate = Gate(op, command, fs, currentFrame, target)
      OBVIOUS
    <3>3. ASSUME gate.action = "hold_noncritical_work", gate.target > 0
          PROVE  <<"protect-frame-budget", gate.during, "frame">> \in directives'
      <4>1. /\ gate.during = currentFrame /\ gate.target = target
            /\ currentFrame # NoFrame
            /\ 10 * FrameWork(fs, currentFrame) >= 9 * target
        BY <3>2, <3>3, GateHolds
      <4>2. target # 0
        BY <3>3, <4>1
      <4>3. <<"protect-frame-budget", currentFrame, "frame">>
              \in Evaluate(fs, currentFrame, policy', target, prefetches)
        BY <4>1, <4>2, GovernorProtects
      <4> QED BY <3>1, <4>1, <4>3
    <3>4. DOMAIN gates' = DOMAIN gates \cup {id}
      BY <3>1 DEF Bind
    <3>5. \A x \in DOMAIN gates' : gates'[x] = IF x = id THEN gate ELSE gates[x]
      BY <3>1, <3>2 DEF Bind
    <3> SUFFICES ASSUME NEW x \in DOMAIN gates', gates'[x].action = "hold_noncritical_work",
                        gates'[x].target > 0
                 PROVE  <<"protect-frame-budget", gates'[x].during, "frame">> \in directives'
      BY DEF HeldWorkWasAnnounced
    <3>6. CASE x = id
      BY <3>3, <3>5, <3>6
    <3>7. CASE x # id
      BY <3>1, <3>4, <3>5, <3>7 DEF HeldWorkWasAnnounced
    <3> QED BY <3>6, <3>7
  <2> QED BY <2>1, <2>2
<1> QED BY <1>1, <1>2, PTL DEF Spec

-----------------------------------------------------------------------------
(* The plans of a result.                                                  *)

\* The gate lets what is executed run, puts it ahead of the draw or holds it back, and
\* never lets what is eliminated run.
Running == {"execute_now", "prestage_before_draw", "hold_noncritical_work"}
Dropping == {"reuse_existing_resource", "defer_redundant_work"}

AnsweredInv ==
    /\ BooksInv
    /\ \A o \in executed : o.id \in DOMAIN gates /\ gates[o.id].action \in Running
    /\ \A d \in DOMAIN decisions : d \in DOMAIN gates /\ gates[d].action \in Dropping

\* An operation that is kept is not deferred and not reused.
LEMMA GateOfKept ==
    ASSUME NEW op, NEW decided, decided = "none", NEW at, NEW command,
           command = LiveCommand(op, decided, at),
           NEW fs, NEW current, NEW target, NEW gate, gate = Gate(op, command, fs, current, target)
    PROVE  gate.action \in Running
<1>1. command \in {"execute_now", "prefetch_now"}
  BY DEF LiveCommand
<1> QED BY <1>1 DEF Gate, Running

\* One that is eliminated is.
LEMMA GateOfDropped ==
    ASSUME NEW op, NEW decided, decided # "none", NEW at, NEW command,
           command = LiveCommand(op, decided, at),
           NEW fs, NEW current, NEW target, NEW gate, gate = Gate(op, command, fs, current, target)
    PROVE  gate.action \in Dropping
<1>1. command \in {"reuse", "defer"}
  BY DEF LiveCommand
<1> QED BY <1>1 DEF Gate, Dropping

\* The answers of the gate last: an id is used once.
THEOREM AnsweredInvariant == Spec => []AnsweredInv
<1>1. Init => AnsweredInv
  BY BooksInit DEF Init, AnsweredInv, Empty
<1>2. AnsweredInv /\ [Next]_vars => AnsweredInv'
  <2> SUFFICES ASSUME AnsweredInv, [Next]_vars PROVE AnsweredInv'
    OBVIOUS
  <2>1. BooksInv'
    BY BooksNext DEF AnsweredInv
  <2>2. CASE \A id, op : ~Submit(id, op)
    <3>1. UNCHANGED <<executed, decisions, gates>>
      BY <2>2 DEF Next, SessionBegin, SessionEnd, FrameBegin, FrameEnd, FrameRefused, Release,
                  Register, StateQuery, Refused, ToResult, vars
    <3> QED BY <2>1, <3>1 DEF AnsweredInv
  <2>3. ASSUME NEW id, NEW op, Submit(id, op) PROVE AnsweredInv'
    <3>1. PICK f : f = FrameNamed(op)
      OBVIOUS
    <3>2. PICK decided : decided = DecideOperation(runtime, op, f)
      OBVIOUS
    <3>3. PICK at, command, fs, target :
            /\ command = LiveCommand(op, decided, at)
            /\ gates' = Bind(gates, id, Gate(op, command, fs, currentFrame, target))
      BY <2>3, <3>1, <3>2, SubmitAsks
    <3>4. PICK gate : gate = Gate(op, command, fs, currentFrame, target)
      OBVIOUS
    <3>5. /\ DOMAIN gates' = DOMAIN gates \cup {id}
          /\ gates'[id] = gate
          /\ \A x \in DOMAIN gates : x # id => gates'[x] = gates[x]
      BY <3>3, <3>4 DEF Bind
    <3>6. /\ id \notin runtime.ids
          /\ decided = "none" => /\ executed' = executed \cup {Executed(id, op, f)}
                                 /\ decisions' = decisions
          /\ decided # "none" =>
               /\ executed' = executed
               /\ decisions' = Bind(decisions, id, Eliminated(runtime, op, f, decided))
      BY <2>3, <3>1, <3>2, SubmitForm
    <3>7. /\ \A o \in executed : o.id # id
          /\ \A d \in DOMAIN decisions : d # id
      BY <3>6 DEF AnsweredInv, BooksInv, Identified
    <3>8. /\ \A o \in executed : o.id \in DOMAIN gates' /\ gates'[o.id].action \in Running
          /\ \A d \in DOMAIN decisions : d \in DOMAIN gates' /\ gates'[d].action \in Dropping
      BY <3>5, <3>7 DEF AnsweredInv
    <3>9. CASE decided = "none"
      <4>1. gate.action \in Running
        BY <3>3, <3>4, <3>9, GateOfKept
      <4>2. Executed(id, op, f).id = id
        BY DEF Executed
      <4> QED BY <2>1, <3>5, <3>6, <3>8, <3>9, <4>1, <4>2 DEF AnsweredInv
    <3>10. CASE decided # "none"
      <4>1. gate.action \in Dropping
        BY <3>3, <3>4, <3>10, GateOfDropped
      <4>2. DOMAIN decisions' = DOMAIN decisions \cup {id}
        BY <3>6, <3>10 DEF Bind
      <4> QED BY <2>1, <3>5, <3>6, <3>8, <3>10, <4>1, <4>2 DEF AnsweredInv
    <3> QED BY <3>9, <3>10
  <2> QED BY <2>2, <2>3
<1> QED BY <1>1, <1>2, PTL DEF Spec

\* Finitely many things of known weights; two parts that make up a set; what they weigh.
Weighed(S) == IsFiniteSet(S) /\ \A x \in S : x.cost \in Nat
Parts(S, T, U) == T \cup U = S /\ T \cap U = {}
WeighTogether(S, T, U) ==
    CostSum(T) \in Nat /\ CostSum(U) \in Nat /\ CostSum(S) = CostSum(T) + CostSum(U)

\* The parts of a set of weighted things weigh what the set weighs.
LEMMA CostParts ==
    ASSUME NEW S, Weighed(S), NEW T, NEW U, Parts(S, T, U)
    PROVE  Weighed(T) /\ Weighed(U) /\ WeighTogether(S, T, U)
<1>0. /\ T \subseteq S /\ U \subseteq S /\ T \cup U = S /\ T \cap U = {}
      /\ IsFiniteSet(S) /\ \A x \in S : x.cost \in Nat
  BY DEF Weighed, Parts
<1>1. IsFiniteSet(T) /\ IsFiniteSet(U)
  BY <1>0, FS_Subset
<1>2. /\ \A x \in T : x.cost \in Nat
      /\ \A x \in U : x.cost \in Nat
      /\ \A x \in T \cup U : x.cost \in Nat
  BY <1>0
<1>3. CostSum(T) \in Nat /\ CostSum(U) \in Nat
  BY <1>1, <1>2, CostType
<1>4. CostSum(T \cup U) = CostSum(T) + CostSum(U)
  BY <1>0, <1>1, <1>2, CostUnion
<1> QED BY <1>0, <1>1, <1>2, <1>3, <1>4 DEF Weighed, WeighTogether

\* The slot of a result, and the slots of a frame that count as some kinds.
Slot(r) == [id |-> r.id, frame |-> r.frame, cost |-> r.cost, size |-> BookedSize(r),
            contribution |-> Contribution(r.action)]
SlotsOf(slots, f, kinds) == {s \in slots : s.frame = f /\ s.contribution \in kinds}

\* The results to_result plans from, of an executed and of an eliminated operation.
Ran(o) == [id |-> o.id, type |-> o.type, frame |-> o.frame, cost |-> o.cost, size |-> o.size,
           action |-> gates[o.id].action]
Spared(d) == [id |-> d, type |-> decisions[d].type, frame |-> decisions[d].frame,
              cost |-> decisions[d].cost, size |-> decisions[d].size,
              action |-> gates[d].action]

\* Every result has its slot, and no slot has another origin.
LEMMA SlotsAre ==
    AdmissionPlan(Results)
        = {Slot(Ran(o)) : o \in executed} \cup {Slot(Spared(d)) : d \in DOMAIN decisions}
<1>1. Results = {Ran(o) : o \in executed} \cup {Spared(d) : d \in DOMAIN decisions}
  BY DEF Results, Ran, Spared
<1>2. AdmissionPlan(Results) = {Slot(r) : r \in Results}
  BY DEF AdmissionPlan, Slot
<1> QED BY <1>1, <1>2

\* What a slot says of an executed operation.
LEMMA RanForm ==
    ASSUME NEW o, NEW s, s = Slot(Ran(o))
    PROVE  /\ s.id = o.id /\ s.frame = o.frame /\ s.cost = o.cost
           /\ s.contribution = Contribution(gates[o.id].action)
BY DEF Slot, Ran

\* And of an eliminated one.
LEMMA SparedForm ==
    ASSUME NEW d, NEW s, s = Slot(Spared(d))
    PROVE  /\ s.id = d /\ s.frame = decisions[d].frame /\ s.cost = decisions[d].cost
           /\ s.contribution = Contribution(gates[d].action)
BY DEF Slot, Spared

\* What runs contributes to the frame, what is dropped does not.
LEMMA Contributes ==
    ASSUME NEW action
    PROVE  /\ action \in Running => Contribution(action) \in {"hot-path", "prestaged", "held"}
           /\ action \in Dropping => Contribution(action) \in {"avoided", "reused"}
BY DEF Running, Dropping, Contribution

\* The hot, shifted and held slots of a frame weigh what its executed operations do.
LEMMA RunningWork ==
    ASSUME AnsweredInv, NEW f, NEW slots, slots = AdmissionPlan(Results)
    PROVE  LET kept == SlotsOf(slots, f, {"hot-path", "prestaged", "held"})
           IN  /\ IsFiniteSet(kept)
               /\ \A s \in kept : s.cost \in Nat
               /\ CostSum(kept) = CostSum(In(executed, f))
<1> DEFINE E == In(executed, f)
           m == [o \in E |-> Slot(Ran(o))]
           kept == SlotsOf(slots, f, {"hot-path", "prestaged", "held"})
<1>1. IsFiniteSet(E) /\ \A o \in E : o \in executed /\ o.frame = f /\ o.cost \in Nat
  <2>1. IsFiniteSet(executed) /\ \A o \in executed : o.cost \in Nat
    BY DEF AnsweredInv, BooksInv, Booked, IsWork
  <2>2. E \subseteq executed /\ \A o \in E : o.frame = f
    BY DEF In
  <2> HIDE DEF E
  <2> QED BY <2>1, <2>2, FS_Subset
<1>2. \A o \in executed : o.frame = f => o \in E
  BY DEF In
<1>3. \A o, p \in executed : o.id = p.id => o = p
  BY DEF AnsweredInv, BooksInv, Identified
<1> HIDE DEF E
<1>4. \A o \in E : /\ m[o] = Slot(Ran(o))
                   /\ m[o].id = o.id /\ m[o].frame = f /\ m[o].cost = o.cost
                   /\ m[o].contribution = Contribution(gates[o.id].action)
  BY <1>1, RanForm
<1> HIDE DEF m
<1>5. kept = {m[o] : o \in E}
  <2>1. \A o \in E : m[o] \in kept
    <3> SUFFICES ASSUME NEW o \in E PROVE m[o] \in kept
      OBVIOUS
    <3>1. m[o] \in slots
      BY <1>1, <1>4, SlotsAre
    <3>2. m[o].frame = f /\ m[o].contribution \in {"hot-path", "prestaged", "held"}
      BY <1>1, <1>4, Contributes DEF AnsweredInv
    <3> QED BY <3>1, <3>2 DEF SlotsOf
  <2>2. ASSUME NEW s \in kept PROVE \E o \in E : s = m[o]
    <3>1. s \in slots /\ s.frame = f /\ s.contribution \in {"hot-path", "prestaged", "held"}
      BY DEF SlotsOf
    <3>2. CASE \E o \in executed : s = Slot(Ran(o))
      BY <1>2, <1>4, <3>1, <3>2, RanForm
    <3>3. CASE \E d \in DOMAIN decisions : s = Slot(Spared(d))
      <4>1. PICK d \in DOMAIN decisions : s = Slot(Spared(d))
        BY <3>3
      <4>2. s.contribution \in {"avoided", "reused"}
        BY <4>1, SparedForm, Contributes DEF AnsweredInv
      <4> QED BY <3>1, <4>2
    <3> QED BY <3>1, <3>2, <3>3, SlotsAre
  <2> HIDE DEF kept
  <2> QED BY <2>1, <2>2
<1>6. IsFiniteSet(kept)
  BY <1>1, <1>5, ImageFinite
<1>7. \A s \in kept : s.cost \in Nat
  BY <1>1, <1>4, <1>5
<1>8. \A o, p \in E : m[o] = m[p] => o = p
  BY <1>1, <1>3, <1>4
<1>9. CostSum({m[o] : o \in E}) = CostSum(E)
  <2>1. \A o \in E : o.cost \in Nat /\ m[o].cost = o.cost
    BY <1>1, <1>4
  <2> QED BY <1>1, <1>8, <2>1, CostImage
<1> QED BY <1>5, <1>6, <1>7, <1>9 DEF E

\* The avoided and reused slots of a frame weigh what its eliminated operations saved.
LEMMA DroppedSavings ==
    ASSUME AnsweredInv, NEW f, NEW slots, slots = AdmissionPlan(Results)
    PROVE  CostSum(SlotsOf(slots, f, {"avoided", "reused"})) = CostSum(Savings(decisions, f))
<1> DEFINE S == Savings(decisions, f)
           m == [x \in S |-> Slot(Spared(x.id))]
           kept == SlotsOf(slots, f, {"avoided", "reused"})
<1>1. IsFiniteSet(S) /\ \A x \in S : x.cost \in Nat
  BY SavingsFinite DEF AnsweredInv, BooksInv, Booked
<1>2. \A x \in S : /\ x.id \in DOMAIN decisions /\ decisions[x.id].frame = f
                   /\ x.cost = decisions[x.id].cost
  BY DEF Savings, Out
<1>3. ASSUME NEW d \in DOMAIN decisions, decisions[d].frame = f PROVE \E x \in S : x.id = d
  <2>1. PICK x : x = [id |-> d, cost |-> decisions[d].cost]
    OBVIOUS
  <2>2. x \in S
    BY <1>3, <2>1 DEF Savings, Out
  <2> QED BY <2>1, <2>2
<1>4. \A x, y \in S : x.id = y.id => x = y
  BY DEF Savings, Out
<1> HIDE DEF S
<1>5. \A x \in S : /\ m[x] = Slot(Spared(x.id))
                   /\ m[x].id = x.id /\ m[x].frame = f /\ m[x].cost = x.cost
                   /\ m[x].contribution = Contribution(gates[x.id].action)
  BY <1>2, SparedForm
<1>6. \A x \in S : m[x] = Slot(Spared(x.id))
  BY <1>5
<1> HIDE DEF m
<1>7. kept = {m[x] : x \in S}
  <2>1. \A x \in S : m[x] \in kept
    <3> SUFFICES ASSUME NEW x \in S PROVE m[x] \in kept
      OBVIOUS
    <3>1. m[x] \in slots
      BY <1>2, <1>5, SlotsAre
    <3>2. m[x].frame = f /\ m[x].contribution \in {"avoided", "reused"}
      BY <1>2, <1>5, Contributes DEF AnsweredInv
    <3> QED BY <3>1, <3>2 DEF SlotsOf
  <2>2. ASSUME NEW s \in kept PROVE \E x \in S : s = m[x]
    <3>1. s \in slots /\ s.frame = f /\ s.contribution \in {"avoided", "reused"}
      BY DEF SlotsOf
    <3>2. CASE \E o \in executed : s = Slot(Ran(o))
      <4>1. PICK o \in executed : s = Slot(Ran(o))
        BY <3>2
      <4>2. s.contribution \in {"hot-path", "prestaged", "held"}
        BY <4>1, RanForm, Contributes DEF AnsweredInv
      <4> QED BY <3>1, <4>2
    <3>3. CASE \E d \in DOMAIN decisions : s = Slot(Spared(d))
      <4>1. PICK d \in DOMAIN decisions : s = Slot(Spared(d))
        BY <3>3
      <4>2. decisions[d].frame = f
        BY <3>1, <4>1, SparedForm
      <4>3. PICK x \in S : x.id = d
        BY <1>3, <4>2
      <4> QED BY <1>6, <4>1, <4>3
    <3> QED BY <3>1, <3>2, <3>3, SlotsAre
  <2> HIDE DEF kept
  <2> QED BY <2>1, <2>2
<1>8. \A x, y \in S : m[x] = m[y] => x = y
  BY <1>4, <1>5
<1>9. CostSum({m[x] : x \in S}) = CostSum(S)
  <2>1. \A x \in S : x.cost \in Nat /\ m[x].cost = x.cost
    BY <1>1, <1>5
  <2> QED BY <1>1, <1>8, <2>1, CostImage
<1> QED BY <1>7, <1>9 DEF S

\* The ledger of a frame in terms of its slots.
LEMMA LedgerForm ==
    ASSUME NEW slots, NEW f, NEW ledger, ledger = FrameLedger(slots, f)
    PROVE  /\ ledger.hotPath = CostSum(SlotsOf(slots, f, {"hot-path"}))
           /\ ledger.shifted = CostSum(SlotsOf(slots, f, {"prestaged"}))
           /\ ledger.avoided = CostSum(SlotsOf(slots, f, {"avoided", "reused"}))
           /\ ledger.held = CostSum(SlotsOf(slots, f, {"held"}))
BY DEF FrameLedger, SlotsOf

\* The ledger of a frame counts what its statistics count.
LEMMA LedgerAddsUp ==
    ASSUME AnsweredInv, NEW f \in DOMAIN frames,
           NEW ledger, ledger = FrameLedger(AdmissionPlan(Results), f)
    PROVE  /\ ledger.hotPath \in Nat
           /\ ledger.hotPath + ledger.shifted + ledger.held = frames[f].cost
           /\ ledger.avoided = frames[f].saved
<1>1. PICK slots : slots = AdmissionPlan(Results)
  OBVIOUS
<1> DEFINE kept == SlotsOf(slots, f, {"hot-path", "prestaged", "held"})
           hot == SlotsOf(slots, f, {"hot-path"})
           rest == SlotsOf(slots, f, {"prestaged", "held"})
           shifted == SlotsOf(slots, f, {"prestaged"})
           held == SlotsOf(slots, f, {"held"})
<1>2. Weighed(kept) /\ CostSum(kept) = CostSum(In(executed, f))
  BY <1>1, RunningWork DEF Weighed
<1>3. Parts(kept, hot, rest) /\ Parts(rest, shifted, held)
  BY DEF SlotsOf, Parts
<1>4. /\ ledger.hotPath = CostSum(hot) /\ ledger.shifted = CostSum(shifted)
      /\ ledger.avoided = CostSum(SlotsOf(slots, f, {"avoided", "reused"}))
      /\ ledger.held = CostSum(held)
  BY <1>1, LedgerForm
<1>5. CostSum(SlotsOf(slots, f, {"avoided", "reused"})) = CostSum(Savings(decisions, f))
  BY <1>1, DroppedSavings
<1> HIDE DEF kept, hot, rest, shifted, held
<1>6. Weighed(rest) /\ WeighTogether(kept, hot, rest)
  BY <1>2, <1>3, CostParts
<1>7. WeighTogether(rest, shifted, held)
  BY <1>3, <1>6, CostParts
<1>8. frames[f].cost = CostSum(In(executed, f)) /\ frames[f].saved = CostSum(Savings(decisions, f))
  BY DEF AnsweredInv, BooksInv, Booked, WorkAddsUp
<1>9. CostSum(hot) \in Nat /\ CostSum(kept) = CostSum(hot) + CostSum(shifted) + CostSum(held)
  BY <1>6, <1>7 DEF WeighTogether
<1> QED BY <1>2, <1>4, <1>5, <1>8, <1>9

\* The step of an executed operation.
StepOf(o, plan) ==
    [subject |-> o.id, cost |-> o.cost,
     phase |-> IF Prefetched(plan, o) THEN "prefetch" ELSE OperationPhase(o.type)]

\* What it says, and the command it becomes.
LEMMA StepForm ==
    ASSUME NEW o, NEW plan, NEW s, s = StepOf(o, plan)
    PROVE  /\ s.subject = o.id /\ s.cost = o.cost
           /\ s.phase = "prefetch" => CommandOf(s) = "prefetch_now"
           /\ s.phase # "prefetch" => CommandOf(s) = "execute_now"
<1>1. /\ s.subject = o.id /\ s.cost = o.cost
      /\ s.phase = IF Prefetched(plan, o) THEN "prefetch" ELSE OperationPhase(o.type)
  BY DEF StepOf
<1>2. OperationPhase(o.type) \in {"critical", "prepare", "sync", "work"}
  BY DEF OperationPhase
<1> QED BY <1>1, <1>2 DEF CommandOf

\* A release after the frame is neither executed nor prefetched.
LEMMA CleanupForm ==
    ASSUME NEW plan, NEW f, NEW s \in CleanupSteps(plan, f)
    PROVE  CommandOf(s) = "release_after_frame"
<1>1. s.phase = "cleanup"
  BY DEF CleanupSteps
<1> QED BY <1>1 DEF CommandOf

\* The steps of a frame's operations weigh what the operations do.
LEMMA StepsWork ==
    ASSUME NEW E, NEW f, IsFiniteSet(In(E, f)), \A o \in E : o.cost \in Nat,
           \A o, p \in E : o.id = p.id => o = p,
           NEW plan, NEW steps, steps = OperationSteps(E, plan, f)
    PROVE  /\ IsFiniteSet(steps)
           /\ \A s \in steps : s.cost \in Nat
           /\ CostSum(steps) = CostSum(In(E, f))
           /\ \A s \in steps : \E o \in E : s = StepOf(o, plan)
<1> DEFINE S == In(E, f)
           m == [o \in S |-> StepOf(o, plan)]
<1>1. S \subseteq E
  BY DEF In
<1>2. steps = {StepOf(o, plan) : o \in S}
  BY DEF OperationSteps, StepOf, In
<1> HIDE DEF S
<1>3. \A o \in S : m[o] = StepOf(o, plan) /\ m[o].subject = o.id /\ m[o].cost = o.cost
  BY StepForm
<1>4. steps = {m[o] : o \in S}
  BY <1>2
<1> HIDE DEF m
<1>5. IsFiniteSet(S)
  BY DEF S
<1>6. IsFiniteSet(steps)
  BY <1>4, <1>5, ImageFinite
<1>7. \A o \in S : o.cost \in Nat /\ m[o].cost = o.cost
  BY <1>1, <1>3
<1>8. \A o, p \in S : m[o] = m[p] => o = p
  BY <1>1, <1>3
<1>9. CostSum({m[o] : o \in S}) = CostSum(S)
  BY <1>5, <1>7, <1>8, CostImage
<1>10. \A s \in steps : s.cost \in Nat
  BY <1>4, <1>7
<1>11. \A s \in steps : \E o \in E : s = StepOf(o, plan)
  BY <1>1, <1>2
<1> QED BY <1>4, <1>6, <1>9, <1>10, <1>11 DEF S

\* The plan of a frame in terms of its steps.
LEMMA FrameForm ==
    ASSUME NEW E, NEW before, NEW plan, NEW f, NEW p, p = ScheduleFrame(E, before, plan, f)
    PROVE  /\ p.steps = OperationSteps(E, plan, f) \cup CleanupSteps(plan, f)
           /\ p.after = AtLeast(0, before
                            - CostSum({s \in OperationSteps(E, plan, f) : s.phase = "prefetch"}))
BY DEF ScheduleFrame

\* A schedule splits a frame's work into what is prefetched and what is left of it.
LEMMA ScheduleAddsUp ==
    ASSUME NEW E, NEW f, IsFiniteSet(In(E, f)), \A o \in E : o.cost \in Nat,
           \A o, p \in E : o.id = p.id => o = p,
           NEW plan, NEW before, before = CostSum(In(E, f)),
           NEW p, p = ScheduleFrame(E, before, plan, f)
    PROVE  LET now == CostSum({s \in p.steps : CommandOf(s) = "execute_now"})
               early == CostSum({s \in p.steps : CommandOf(s) = "prefetch_now"})
           IN  now + early = before /\ now = p.after
<1>1. PICK steps : steps = OperationSteps(E, plan, f)
  OBVIOUS
<1> DEFINE early == {s \in steps : s.phase = "prefetch"}
           now == {s \in steps : s.phase # "prefetch"}
<1>2. /\ Weighed(steps)
      /\ CostSum(steps) = CostSum(In(E, f))
      /\ \A s \in steps : \E o \in E : s = StepOf(o, plan)
  BY <1>1, StepsWork DEF Weighed
<1>3. p.steps = steps \cup CleanupSteps(plan, f) /\ p.after = AtLeast(0, before - CostSum(early))
  BY <1>1, FrameForm
<1>4. \A s \in steps : /\ s.phase = "prefetch" => CommandOf(s) = "prefetch_now"
                       /\ s.phase # "prefetch" => CommandOf(s) = "execute_now"
  BY <1>2, StepForm
<1>5. /\ {s \in p.steps : CommandOf(s) = "execute_now"} = now
      /\ {s \in p.steps : CommandOf(s) = "prefetch_now"} = early
  BY <1>3, <1>4, CleanupForm
<1>6. Parts(steps, now, early)
  BY DEF Parts
<1> HIDE DEF now, early
<1>7. /\ CostSum(now) \in Nat /\ CostSum(early) \in Nat
      /\ before = CostSum(now) + CostSum(early)
  BY <1>2, <1>6, CostParts DEF WeighTogether
<1>8. AtLeast(0, before - CostSum(early)) = CostSum(now)
  BY <1>7 DEF AtLeast
<1> QED BY <1>3, <1>5, <1>7, <1>8

\* The copy budget that is granted fits beside the hot path.
LEMMA CopyBudgetFits ==
    ASSUME NEW ledger, NEW target \in Nat, ledger.hotPath \in Nat,
           NEW c \in ActuationPlan(ledger, target), c.command = "set_copy_queue_budget"
    PROVE  c.value <= 100 * AtLeast(0, target - ledger.hotPath)
<1>1. PICK headroom : headroom = AtLeast(0, target - ledger.hotPath)
  OBVIOUS
<1>2. headroom \in Nat
  BY <1>1 DEF AtLeast
<1>3. PICK a \in FeedbackActions(ledger, target) : c = ActuationCommand(a)
  BY DEF ActuationPlan
<1>4. a.action \in {"preserve-prefetch-window", "maintain-reuse-dedupe", "cap-copy-queue",
                    "protect-hot-path-headroom"}
  BY <1>3 DEF FeedbackActions
<1>5. a.action = "cap-copy-queue" => a.value = SuggestCopyBudget(target, headroom)
  BY <1>1, <1>3 DEF FeedbackActions
<1>6. a.action = "cap-copy-queue" /\ c.value = a.value
  BY <1>3, <1>4 DEF ActuationCommand
<1>7. SuggestCopyBudget(target, headroom) <= 100 * headroom
  BY <1>2 DEF SuggestCopyBudget, AtMost
<1> QED BY <1>1, <1>5, <1>6, <1>7

\* Whatever was submitted, the schedule, the ledger and the statistics of every frame
\* agree, and no copy budget eats into the hot path.
THEOREM PlansAlwaysMatchTheFrames == Spec => []PlansMatchTheFrames
<1>1. AnsweredInv => PlansMatchTheFrames
  <2> SUFFICES ASSUME AnsweredInv, NEW f \in DOMAIN frames,
                      NEW ledger, ledger = FrameLedger(AdmissionPlan(Results), f),
                      NEW plan, plan = SchedulePlan[f]
               PROVE  /\ ledger.hotPath + ledger.shifted + ledger.held = frames[f].cost
                      /\ ledger.avoided = frames[f].saved
                      /\ CostSum({s \in plan.steps : CommandOf(s) = "execute_now"})
                            + CostSum({s \in plan.steps : CommandOf(s) = "prefetch_now"})
                         = frames[f].cost
                      /\ CostSum({s \in plan.steps : CommandOf(s) = "execute_now"}) = plan.after
                      /\ \A c \in ActuationPlan(ledger, frames[f].target) :
                            c.command = "set_copy_queue_budget" =>
                                c.value <= 100 * AtLeast(0, frames[f].target - ledger.hotPath)
    BY DEF PlansMatchTheFrames
  <2>1. /\ ledger.hotPath \in Nat
        /\ ledger.hotPath + ledger.shifted + ledger.held = frames[f].cost
        /\ ledger.avoided = frames[f].saved
    BY LedgerAddsUp
  <2>2. /\ frames[f].cost = CostSum(In(executed, f))
        /\ frames[f].target \in Nat
        /\ IsFiniteSet(executed) /\ \A o \in executed : o.cost \in Nat
        /\ \A o, p \in executed : o.id = p.id => o = p
    BY DEF AnsweredInv, BooksInv, Booked, WorkAddsUp, IsWork, Identified, IsBook
  <2>3. plan = ScheduleFrame(executed, frames[f].cost, Finalize(lifetime).plan, f)
    BY DEF SchedulePlan, Schedule
  <2>4. IsFiniteSet(In(executed, f))
    <3>1. In(executed, f) \subseteq executed
      BY DEF In
    <3> QED BY <2>2, <3>1, FS_Subset
  <2>5. LET now == CostSum({s \in plan.steps : CommandOf(s) = "execute_now"})
            early == CostSum({s \in plan.steps : CommandOf(s) = "prefetch_now"})
        IN  now + early = frames[f].cost /\ now = plan.after
    BY <2>2, <2>3, <2>4, ScheduleAddsUp
  <2>6. \A c \in ActuationPlan(ledger, frames[f].target) :
            c.command = "set_copy_queue_budget" =>
                c.value <= 100 * AtLeast(0, frames[f].target - ledger.hotPath)
    BY <2>1, <2>2, CopyBudgetFits
  <2> QED BY <2>1, <2>5, <2>6
<1> QED BY <1>1, AnsweredInvariant, PTL
=============================================================================
