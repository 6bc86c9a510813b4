-------------------------------- MODULE Sums --------------------------------
(***************************************************************************)
(* Facts about sums over finite sets, SumFunctionOnSet of the community    *)
(* module Functions, for every set and every function.  They are proved    *)
(* without the induction theorems of the library, which take a predicate   *)
(* as a parameter, from the well-foundedness of strict inclusion among     *)
(* finite sets: a set of counterexamples has a smallest member.            *)
(***************************************************************************)
EXTENDS Integers, FiniteSets, Functions, FiniteSetTheorems, TLAPS

(* The recursive function behind a sum, on the subsets of S.               *)
Some(s) == CHOOSE x \in s : TRUE
StepOf(f, g, s) == IF s = {} THEN 0 ELSE f[Some(s)] + g[s \ {Some(s)}]
IsIter(g, f, S) == g = [s \in SUBSET S |-> StepOf(f, g, s)]

(* A sum is the value at S of a function that satisfies the recursion.     *)
LEMMA SumIsIter ==
  ASSUME NEW f, NEW S
  PROVE SumFunctionOnSet(f, S) = (CHOOSE g : IsIter(g, f, S))[S]
BY DEF SumFunctionOnSet, FoldFunctionOnSet, MapThenFoldSet, IsIter, StepOf, Some

(* The element a sum takes next is one of the set.                         *)
LEMMA SomeIn == ASSUME NEW s, s # {} PROVE Some(s) \in s
BY DEF Some

(* Among subsets of a finite set there is a smallest: one that contains no *)
(* other.                                                                  *)
LEMMA SmallestSet ==
  ASSUME NEW S, IsFiniteSet(S), NEW TT \in SUBSET (SUBSET S), TT # {}
  PROVE \E T \in TT : \A U \in TT : U \subseteq T => U = T
<1> DEFINE R == StrictSubsetOrdering(S)
<1>1. IsWellFoundedOn(R, SUBSET S)
  BY FS_FiniteSubsetsOfFinite, FS_StrictSubsetOrderingWellFounded
<1>2. PICK T \in TT : \A U \in TT : ~(<<U, T>> \in R)
  <2> HIDE DEF R
  <2> QED BY <1>1, WFMin
<1>3. \A U \in TT : U \subseteq T => U = T
  BY <1>2 DEF StrictSubsetOrdering
<1> QED BY <1>3

(* Two functions that satisfy the recursion agree where both are defined.  *)
LEMMA IterUnique ==
  ASSUME NEW f, NEW S, IsFiniteSet(S), NEW g, NEW h, NEW U \in SUBSET S,
         IsIter(g, f, S), IsIter(h, f, U)
  PROVE  g[U] = h[U]
<1> DEFINE TT == {T \in SUBSET U : g[T] # h[T]}
<1>0. IsFiniteSet(U)
  BY FS_Subset
<1>1. SUFFICES ASSUME TT # {} PROVE FALSE
  BY DEF TT
<1>2. PICK T \in TT : \A V \in TT : V \subseteq T => V = T
  <2> HIDE DEF TT
  <2>1. TT \in SUBSET (SUBSET U) BY DEF TT
  <2> QED BY <1>0, <1>1, <2>1, SmallestSet
<1>3. g[T] = StepOf(f, g, T) /\ h[T] = StepOf(f, h, T)
  BY DEF IsIter
<1>4. CASE T = {}
  BY <1>3, <1>4, <1>2 DEF StepOf
<1>5. CASE T # {}
  <2>1. Some(T) \in T BY <1>5, SomeIn
  <2>2. (T \ {Some(T)}) \in SUBSET U /\ (T \ {Some(T)}) # T BY <2>1, <1>2
  <2>3. g[T \ {Some(T)}] = h[T \ {Some(T)}] BY <2>2, <1>2
  <2> QED BY <2>3, <1>3, <1>5 DEF StepOf
<1> QED BY <1>4, <1>5

(* There is a function that satisfies the recursion: one is put together   *)
(* from those of the smaller sets.                                         *)
LEMMA IterExists ==
  ASSUME NEW f, NEW S, IsFiniteSet(S)
  PROVE  \E g : IsIter(g, f, S)
<1> DEFINE TT == {T \in SUBSET S : ~\E g : IsIter(g, f, T)}
<1>1. SUFFICES ASSUME TT # {} PROVE FALSE
  OBVIOUS
<1>2. PICK T \in TT : \A V \in TT : V \subseteq T => V = T
  <2> HIDE DEF TT
  <2>1. TT \in SUBSET (SUBSET S) BY DEF TT
  <2> QED BY <1>1, <2>1, SmallestSet
<1>3. IsFiniteSet(T) BY FS_Subset
<1> DEFINE It(V) == CHOOSE g : IsIter(g, f, V)
           v == [V \in SUBSET T |-> It(V)[V]]
           h == [s \in SUBSET T |-> StepOf(f, v, s)]
<1>4. ASSUME NEW V \in SUBSET T, V # T PROVE IsIter(It(V), f, V)
  <2>1. \E g : IsIter(g, f, V) BY <1>2, <1>4
  <2> QED BY <2>1
<1>5. ASSUME NEW V \in SUBSET T, V # T PROVE v[V] = StepOf(f, v, V)
  <2>0. It(V)[V] = StepOf(f, It(V), V)
    <3>1. IsIter(It(V), f, V) BY <1>4, <1>5
    <3> HIDE DEF It
    <3> QED BY <3>1 DEF IsIter
  <2>1. CASE V = {}
    BY <2>0, <2>1 DEF StepOf
  <2>2. CASE V # {}
    <3> DEFINE W == V \ {Some(V)}
    <3>1. Some(V) \in V BY <2>2, SomeIn
    <3>2. W \in SUBSET V /\ W \in SUBSET T /\ W # T BY <3>1
    <3>3. IsIter(It(V), f, V) /\ IsIter(It(W), f, W) BY <1>4, <1>5, <3>2
    <3>4. IsFiniteSet(V) BY <1>3, FS_Subset
    <3>5. It(V)[W] = It(W)[W]
      <4> HIDE DEF It, W
      <4> QED BY <3>2, <3>3, <3>4, IterUnique
    <3>6. v[W] = It(V)[W] BY <3>5, <3>2
    <3> QED BY <2>0, <3>6, <2>2 DEF StepOf
  <2> QED BY <2>1, <2>2
<1>6. \A s \in SUBSET T : StepOf(f, v, s) = StepOf(f, h, s)
  <2> SUFFICES ASSUME NEW s \in SUBSET T PROVE StepOf(f, v, s) = StepOf(f, h, s)
    OBVIOUS
  <2>1. CASE s = {} BY <2>1 DEF StepOf
  <2>2. CASE s # {}
    <3> DEFINE w == s \ {Some(s)}
    <3>1. w \in SUBSET T /\ w # T BY <2>2, SomeIn
    <3>2. v[w] = StepOf(f, v, w)
      <4> HIDE DEF v, w
      <4> QED BY <3>1, <1>5
    <3>3. h[w] = v[w] BY <3>1, <3>2
    <3> QED BY <3>3, <2>2 DEF StepOf
  <2> QED BY <2>1, <2>2
<1>7. IsIter(h, f, T) BY <1>6 DEF IsIter
<1> QED BY <1>7, <1>2

(* A sum over nothing.                                                     *)
LEMMA SumEmpty ==
  ASSUME NEW f
  PROVE  SumFunctionOnSet(f, {}) = 0
<1> DEFINE g == CHOOSE g : IsIter(g, f, {})
<1>1. IsIter(g, f, {}) BY IterExists, FS_EmptySet
<1>2. g[{}] = 0 BY <1>1 DEF IsIter, StepOf
<1> QED BY <1>2, SumIsIter

(* A sum is the element it takes first and the sum of the others.          *)
LEMMA SumStep ==
  ASSUME NEW f, NEW S, IsFiniteSet(S), S # {}
  PROVE  SumFunctionOnSet(f, S)
            = f[Some(S)] + SumFunctionOnSet(f, S \ {Some(S)})
<1> DEFINE It(V) == CHOOSE g : IsIter(g, f, V)
           W == S \ {Some(S)}
<1>1. W \in SUBSET S /\ IsFiniteSet(W) BY FS_Subset
<1>2. IsIter(It(S), f, S) /\ IsIter(It(W), f, W) BY <1>1, IterExists
<1>3. It(S)[W] = It(W)[W]
      <4> HIDE DEF It, W
      <4> QED BY <1>1, <1>2, IterUnique
<1>4. It(S)[S] = StepOf(f, It(S), S) BY <1>2 DEF IsIter
<1>5. It(S)[S] = f[Some(S)] + It(S)[W] BY <1>4 DEF StepOf
<1>6. SumFunctionOnSet(f, S) = It(S)[S] /\ SumFunctionOnSet(f, W) = It(W)[W]
  BY SumIsIter
<1> QED BY <1>3, <1>5, <1>6

(* Induction over the subsets of a finite set, with the predicate as a     *)
(* set.                                                                    *)
LEMMA SetInduction ==
  ASSUME NEW S, IsFiniteSet(S), NEW TT \in SUBSET (SUBSET S),
         \A T \in SUBSET S : (\A U \in SUBSET T : U # T => U \in TT) => T \in TT
  PROVE  S \in TT
<1> DEFINE BB == (SUBSET S) \ TT
<1>1. SUFFICES ASSUME BB # {} PROVE FALSE
  OBVIOUS
<1>2. PICK T \in BB : \A U \in BB : U \subseteq T => U = T
  <2> HIDE DEF BB
  <2>1. BB \in SUBSET (SUBSET S) BY DEF BB
  <2> QED BY <1>1, <2>1, SmallestSet
<1> QED BY <1>2

(* A sum of integers is an integer.                                        *)
LEMMA SumType ==
  ASSUME NEW f, NEW S, IsFiniteSet(S), \A x \in S : f[x] \in Int
  PROVE  SumFunctionOnSet(f, S) \in Int
<1> DEFINE TT == {T \in SUBSET S : SumFunctionOnSet(f, T) \in Int}
<1>1. ASSUME NEW T \in SUBSET S, \A U \in SUBSET T : U # T => U \in TT
      PROVE  T \in TT
  <2>1. CASE T = {} BY <2>1, SumEmpty
  <2>2. CASE T # {}
    <3>1. IsFiniteSet(T) BY FS_Subset
    <3>2. SumFunctionOnSet(f, T)
            = f[Some(T)] + SumFunctionOnSet(f, T \ {Some(T)})
      BY <2>2, <3>1, SumStep
    <3>3. Some(T) \in T BY <2>2, SomeIn
    <3>4. T \ {Some(T)} \in TT BY <3>3, <1>1
    <3> QED BY <3>2, <3>3, <3>4
  <2> QED BY <2>1, <2>2
<1>2. S \in TT
  <2> HIDE DEF TT
  <2>1. TT \in SUBSET (SUBSET S) BY DEF TT
  <2> QED BY <1>1, <2>1, SetInduction
<1> QED BY <1>2

(* It does not matter which element is taken first.                        *)
LEMMA SumRemove ==
  ASSUME NEW f, NEW S, IsFiniteSet(S), \A y \in S : f[y] \in Int, NEW x \in S
  PROVE  SumFunctionOnSet(f, S) = f[x] + SumFunctionOnSet(f, S \ {x})
<1> DEFINE TT ==
      {T \in SUBSET S : \A y \in T :
         SumFunctionOnSet(f, T) = f[y] + SumFunctionOnSet(f, T \ {y})}
<1>1. ASSUME NEW T \in SUBSET S, \A U \in SUBSET T : U # T => U \in TT
      PROVE  T \in TT
  <2> SUFFICES ASSUME NEW y \in T
               PROVE  SumFunctionOnSet(f, T)
                         = f[y] + SumFunctionOnSet(f, T \ {y})
    OBVIOUS
  <2> DEFINE c == Some(T)
  <2>1. c \in T BY SomeIn
  <2>2. SumFunctionOnSet(f, T) = f[c] + SumFunctionOnSet(f, T \ {c})
    <3>1. IsFiniteSet(T) BY FS_Subset
    <3> QED BY <3>1, SumStep
  <2>3. CASE y = c
    <3>1. T \ {y} = T \ {c} /\ f[y] = f[c] BY <2>3
    <3> HIDE DEF c, TT
    <3> QED BY <2>2, <3>1
  <2>4. CASE y # c
    <3> HIDE DEF c
    <3>1. T \ {c} \in TT /\ T \ {y} \in TT BY <1>1, <2>1
    <3> DEFINE V == (T \ {c}) \ {y}
    <3>2. SumFunctionOnSet(f, T \ {c}) = f[y] + SumFunctionOnSet(f, V)
      BY <3>1, <2>4
    <3>3. SumFunctionOnSet(f, T \ {y}) = f[c] + SumFunctionOnSet(f, V)
      <4>1. V = (T \ {y}) \ {c}
        OBVIOUS
      <4> HIDE DEF V
      <4> QED BY <3>1, <2>1, <2>4, <4>1
    <3>4. SumFunctionOnSet(f, V) \in Int
      <4>1. IsFiniteSet(V) BY FS_Subset
      <4> QED BY <4>1, SumType
    <3>5. f[y] \in Int /\ f[c] \in Int BY <2>1
    <3> HIDE DEF TT, V
    <3> QED BY <3>2, <3>3, <3>4, <3>5, <2>2
  <2> QED BY <2>3, <2>4
<1>2. S \in TT
  <2> HIDE DEF TT
  <2>1. TT \in SUBSET (SUBSET S) BY DEF TT
  <2> QED BY <1>1, <2>1, SetInduction
<1> QED BY <1>2

(* A sum grows with its terms.                                             *)
LEMMA SumMonotone ==
  ASSUME NEW f, NEW g, NEW S, IsFiniteSet(S),
         \A x \in S : f[x] \in Int /\ g[x] \in Int /\ f[x] <= g[x]
  PROVE  SumFunctionOnSet(f, S) <= SumFunctionOnSet(g, S)
<1> DEFINE TT ==
      {T \in SUBSET S : SumFunctionOnSet(f, T) <= SumFunctionOnSet(g, T)}
<1>1. ASSUME NEW T \in SUBSET S, \A U \in SUBSET T : U # T => U \in TT
      PROVE  T \in TT
  <2>1. CASE T = {} BY <2>1, SumEmpty
  <2>2. CASE T # {}
    <3>0. PICK x \in T : TRUE BY <2>2
    <3>1. IsFiniteSet(T) /\ IsFiniteSet(T \ {x}) BY FS_Subset
    <3>2. SumFunctionOnSet(f, T) = f[x] + SumFunctionOnSet(f, T \ {x})
      BY <3>1, SumRemove
    <3>3. SumFunctionOnSet(g, T) = g[x] + SumFunctionOnSet(g, T \ {x})
      BY <3>1, SumRemove
    <3>4. T \ {x} \in TT BY <1>1
    <3>5. /\ SumFunctionOnSet(f, T \ {x}) \in Int
          /\ SumFunctionOnSet(g, T \ {x}) \in Int
      BY <3>1, SumType
    <3> QED BY <3>2, <3>3, <3>4, <3>5
  <2> QED BY <2>1, <2>2
<1>2. S \in TT
  <2> HIDE DEF TT
  <2>1. TT \in SUBSET (SUBSET S) BY DEF TT
  <2> QED BY <1>1, <2>1, SetInduction
<1> QED BY <1>2

(* Equal terms have equal sums.                                            *)
LEMMA SumSame ==
  ASSUME NEW f, NEW g, NEW S, IsFiniteSet(S),
         \A x \in S : f[x] \in Int /\ f[x] = g[x]
  PROVE  SumFunctionOnSet(f, S) = SumFunctionOnSet(g, S)
<1>1. SumFunctionOnSet(f, S) <= SumFunctionOnSet(g, S)
  BY SumMonotone
<1>2. SumFunctionOnSet(g, S) <= SumFunctionOnSet(f, S)
  BY SumMonotone
<1>3. SumFunctionOnSet(f, S) \in Int /\ SumFunctionOnSet(g, S) \in Int
  BY SumType
<1> QED BY <1>1, <1>2, <1>3

(* A sum can be split in two.                                              *)
LEMMA SumUnion ==
  ASSUME NEW f, NEW S, IsFiniteSet(S), \A x \in S : f[x] \in Int,
         NEW P \in SUBSET S
  PROVE  SumFunctionOnSet(f, S)
            = SumFunctionOnSet(f, P) + SumFunctionOnSet(f, S \ P)
<1> DEFINE TT ==
      {T \in SUBSET P :
         SumFunctionOnSet(f, S)
            = SumFunctionOnSet(f, T) + SumFunctionOnSet(f, S \ T)}
<1>0. IsFiniteSet(P) BY FS_Subset
<1>1. ASSUME NEW T \in SUBSET P, \A U \in SUBSET T : U # T => U \in TT
      PROVE  T \in TT
  <2>1. CASE T = {}
    <3>1. SumFunctionOnSet(f, S) \in Int BY SumType
    <3>2. S \ T = S BY <2>1
    <3> QED BY <2>1, <3>1, <3>2, SumEmpty
  <2>2. CASE T # {}
    <3>0. PICK x \in T : TRUE BY <2>2
    <3> DEFINE U == T \ {x}
    <3>1. /\ IsFiniteSet(T) /\ IsFiniteSet(U)
          /\ IsFiniteSet(S \ U) /\ IsFiniteSet(S \ T)
      BY FS_Subset
    <3>2. SumFunctionOnSet(f, T) = f[x] + SumFunctionOnSet(f, U)
      BY <3>1, SumRemove
    <3>3. SumFunctionOnSet(f, S \ U) = f[x] + SumFunctionOnSet(f, S \ T)
      <4>1. (S \ U) \ {x} = S \ T /\ x \in S \ U OBVIOUS
      <4> HIDE DEF U
      <4>2. SumFunctionOnSet(f, S \ U)
               = f[x] + SumFunctionOnSet(f, (S \ U) \ {x})
        BY <3>1, <4>1, SumRemove
      <4> QED BY <4>1, <4>2
    <3>4. U \in TT BY <1>1
    <3>5. /\ SumFunctionOnSet(f, U) \in Int /\ f[x] \in Int
          /\ SumFunctionOnSet(f, S \ T) \in Int
      BY <3>1, SumType
    <3> QED BY <3>2, <3>3, <3>4, <3>5
  <2> QED BY <2>1, <2>2
<1>2. P \in TT
  <2> HIDE DEF TT
  <2>1. TT \in SUBSET (SUBSET P) BY DEF TT
  <2> QED BY <1>0, <1>1, <2>1, SetInduction
<1> QED BY <1>2
(* A sum of nothing but zeros.                                             *)
LEMMA SumZero ==
  ASSUME NEW f, NEW S, IsFiniteSet(S), \A x \in S : f[x] = 0
  PROVE  SumFunctionOnSet(f, S) = 0
<1> DEFINE TT == {T \in SUBSET S : SumFunctionOnSet(f, T) = 0}
<1>1. ASSUME NEW T \in SUBSET S, \A U \in SUBSET T : U # T => U \in TT
      PROVE  T \in TT
  <2>1. CASE T = {} BY <2>1, SumEmpty
  <2>2. CASE T # {}
    <3>1. IsFiniteSet(T) BY FS_Subset
    <3>2. SumFunctionOnSet(f, T)
            = f[Some(T)] + SumFunctionOnSet(f, T \ {Some(T)})
      BY <2>2, <3>1, SumStep
    <3>3. Some(T) \in T BY <2>2, SomeIn
    <3>4. SumFunctionOnSet(f, T \ {Some(T)}) = 0 BY <1>1, <3>3
    <3> QED BY <3>2, <3>3, <3>4
  <2> QED BY <2>1, <2>2
<1>2. S \in TT
  <2>1. TT \in SUBSET (SUBSET S) BY DEF TT
  <2> HIDE DEF TT
  <2> QED BY <1>1, <2>1, SetInduction
<1> QED BY <1>2

(* A sum of natural numbers is one.                                        *)
LEMMA SumNat ==
  ASSUME NEW f, NEW S, IsFiniteSet(S), \A x \in S : f[x] \in Nat
  PROVE  SumFunctionOnSet(f, S) \in Nat
<1> DEFINE z == [x \in S |-> 0]
<1>1. SumFunctionOnSet(z, S) = 0 BY SumZero
<1>2. SumFunctionOnSet(f, S) \in Int BY SumType
<1>3. SumFunctionOnSet(z, S) <= SumFunctionOnSet(f, S)
  <2>1. \A x \in S : z[x] \in Int /\ f[x] \in Int /\ z[x] <= f[x] OBVIOUS
  <2> HIDE DEF z
  <2> QED BY <2>1, SumMonotone
<1> HIDE DEF z
<1> QED BY <1>1, <1>2, <1>3

=============================================================================
