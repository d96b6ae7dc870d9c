----------------------------- MODULE FoldProofs -----------------------------
(***************************************************************************)
(* Folds over finite sets: they exist, two of them agree on what they      *)
(* share, and where the order does not matter any element may come last.   *)
(* Sums of counts and rows merged from many batches are such folds.  What  *)
(* holds of every finite set is shown by looking at a smallest one of      *)
(* which it does not.                                                      *)
(***************************************************************************)
EXTENDS Integers, FiniteSetTheorems, TLAPS

\* The element a fold takes first.
First(s) == CHOOSE x \in s : TRUE

\* Where something is wrong about subsets of a finite set, there is a smallest one
\* about which it is.
LEMMA SmallestSubset ==
  ASSUME NEW S, IsFiniteSet(S), NEW Bad \in SUBSET SUBSET S, Bad # {}
  PROVE  \E s \in Bad : \A t \in Bad : t \subseteq s => t = s
<1>1. IsWellFoundedOn(StrictSubsetOrdering(S), SUBSET S)
  BY FS_StrictSubsetOrderingWellFounded, FS_FiniteSubsetsOfFinite
<1>2. PICK s \in Bad : \A t \in Bad : ~(<<t, s>> \in StrictSubsetOrdering(S))
  BY <1>1, WFMin
<1>3. ASSUME NEW t \in Bad, t \subseteq s PROVE t = s
  BY <1>2, <1>3 DEF StrictSubsetOrdering
<1> QED BY <1>3

\* Two folds over a finite set agree when they agree on the empty set and take the
\* elements in the same order.
LEMMA FoldsAgree ==
  ASSUME NEW S, IsFiniteSet(S), NEW F, NEW H, F[{}] = H[{}],
         \A s \in SUBSET S :
           s # {} /\ F[s \ {First(s)}] = H[s \ {First(s)}] => F[s] = H[s]
  PROVE  \A s \in SUBSET S : F[s] = H[s]
<1> DEFINE Bad == {s \in SUBSET S : F[s] # H[s]}
<1> SUFFICES ASSUME Bad # {} PROVE FALSE
  OBVIOUS
<1>1. PICK s \in Bad : \A t \in Bad : t \subseteq s => t = s
  <2>1. Bad \in SUBSET SUBSET S
    OBVIOUS
  <2> HIDE DEF Bad
  <2> QED BY <2>1, SmallestSubset
<1>2. s # {} /\ s \subseteq S
  BY <1>1
<1>3. First(s) \in s
  BY <1>2 DEF First
<1>4. F[s \ {First(s)}] = H[s \ {First(s)}]
  <2>1. (s \ {First(s)}) \subseteq s /\ s \ {First(s)} # s /\ s \ {First(s)} \in SUBSET S
    BY <1>2, <1>3
  <2>2. s \ {First(s)} \notin Bad
    BY <1>1, <2>1
  <2> QED BY <2>1, <2>2
<1> QED BY <1>1, <1>2, <1>4

\* F folds step over the subsets of S, from base.
IsFold(F, S, base, step) ==
  F = [s \in SUBSET S |-> IF s = {} THEN base ELSE step[<<First(s), F[s \ {First(s)}]>>]]

\* Folds over two finite sets agree on what is a subset of both.
LEMMA FoldsMeet ==
  ASSUME NEW S, IsFiniteSet(S), NEW T \in SUBSET S, NEW base, NEW step, NEW F, NEW H,
         IsFold(F, S, base, step), IsFold(H, T, base, step)
  PROVE  F[T] = H[T]
<1>1. IsFiniteSet(T)
  BY FS_Subset
<1>2. \A s \in SUBSET T :
        /\ F[s] = IF s = {} THEN base ELSE step[<<First(s), F[s \ {First(s)}]>>]
        /\ H[s] = IF s = {} THEN base ELSE step[<<First(s), H[s \ {First(s)}]>>]
  <2>1. \A s \in SUBSET S : F[s] = IF s = {} THEN base ELSE step[<<First(s), F[s \ {First(s)}]>>]
    BY DEF IsFold
  <2>2. \A s \in SUBSET T : H[s] = IF s = {} THEN base ELSE step[<<First(s), H[s \ {First(s)}]>>]
    BY DEF IsFold
  <2>3. SUBSET T \subseteq SUBSET S
    OBVIOUS
  <2> QED BY <2>1, <2>2, <2>3
<1>3. F[{}] = H[{}]
  BY <1>2
<1>4. \A s \in SUBSET T :
        s # {} /\ F[s \ {First(s)}] = H[s \ {First(s)}] => F[s] = H[s]
  BY <1>2
<1>5. \A s \in SUBSET T : F[s] = H[s]
  BY <1>1, <1>3, <1>4, FoldsAgree
<1> QED BY <1>5

\* There is a fold over every finite set.
LEMMA FoldExists ==
  ASSUME NEW S, IsFiniteSet(S), NEW base, NEW step
  PROVE  \E F : IsFold(F, S, base, step)
<1> DEFINE Bad == {s \in SUBSET S : ~\E F : IsFold(F, s, base, step)}
<1> SUFFICES ASSUME Bad # {} PROVE FALSE
  <2>1. S \notin Bad => \E F : IsFold(F, S, base, step)
    OBVIOUS
  <2> QED BY <2>1
<1>1. PICK T \in Bad : \A t \in Bad : t \subseteq T => t = T
  <2>1. Bad \in SUBSET SUBSET S
    OBVIOUS
  <2> HIDE DEF Bad
  <2> QED BY <2>1, SmallestSubset
<1> DEFINE G == [t \in SUBSET T |-> CHOOSE F : IsFold(F, t, base, step)]
           F == [s \in SUBSET T |->
                   IF s = {} THEN base
                   ELSE step[<<First(s), G[s \ {First(s)}][s \ {First(s)}]>>]]
<1>2. \A t \in SUBSET T : t # T => IsFold(G[t], t, base, step)
  <2> SUFFICES ASSUME NEW t \in SUBSET T, t # T PROVE IsFold(G[t], t, base, step)
    OBVIOUS
  <2>1. \E H : IsFold(H, t, base, step)
    BY <1>1
  <2>2. IsFold(CHOOSE H : IsFold(H, t, base, step), t, base, step)
    BY <2>1
  <2>3. G[t] = CHOOSE H : IsFold(H, t, base, step)
    OBVIOUS
  <2> HIDE DEF G
  <2> QED BY <2>2, <2>3
<1>3. ASSUME NEW s \in SUBSET T, s # {}
      PROVE  First(s) \in s /\ s \ {First(s)} \in SUBSET T /\ s \ {First(s)} # T
  BY <1>3 DEF First
<1>4. \A s \in SUBSET T : F[s] = IF s = {} THEN base
                                 ELSE step[<<First(s), G[s \ {First(s)}][s \ {First(s)}]>>]
  OBVIOUS
<1>5. \A u \in SUBSET T : u # T => F[u] = G[u][u]
  <2> HIDE DEF F, G
  <2> SUFFICES ASSUME NEW u \in SUBSET T, u # T PROVE F[u] = G[u][u]
    OBVIOUS
  <2>1. \A s \in SUBSET u : G[u][s] = IF s = {} THEN base
                                      ELSE step[<<First(s), G[u][s \ {First(s)}]>>]
    <3> DEFINE g == G[u]
    <3>1. IsFold(g, u, base, step)
      BY <1>2
    <3> HIDE DEF g
    <3>2. \A s \in SUBSET u : g[s] = IF s = {} THEN base
                                     ELSE step[<<First(s), g[s \ {First(s)}]>>]
      BY <3>1 DEF IsFold
    <3> QED BY <3>2 DEF g
  <2>2. CASE u = {}
    BY <1>4, <2>1, <2>2
  <2>3. CASE u # {}
    <3> DEFINE v == u \ {First(u)}
    <3>1. v \in SUBSET u /\ v \in SUBSET T /\ v # T
      BY <1>3, <2>3
    <3>2. IsFold(G[u], u, base, step) /\ IsFold(G[v], v, base, step)
      BY <1>2, <3>1
    <3>3. IsFiniteSet(u)
      <4>1. u \in SUBSET S
        BY <1>1
      <4> QED BY <4>1, FS_Subset
    <3> HIDE DEF v
    <3>4. G[u][v] = G[v][v]
      BY <3>1, <3>2, <3>3, FoldsMeet
    <3>5. G[u][u] = step[<<First(u), G[u][v]>>] /\ F[u] = step[<<First(u), G[v][v]>>]
      BY <1>4, <2>1, <2>3 DEF v
    <3> QED BY <3>4, <3>5
  <2> QED BY <2>2, <2>3
<1>6. F = [s \in SUBSET T |-> IF s = {} THEN base ELSE step[<<First(s), F[s \ {First(s)}]>>]]
  <2> DEFINE E == [s \in SUBSET T |->
                     IF s = {} THEN base ELSE step[<<First(s), F[s \ {First(s)}]>>]]
  <2>1. \A s \in SUBSET T : F[s] = E[s]
    <3> SUFFICES ASSUME NEW s \in SUBSET T PROVE F[s] = E[s]
      OBVIOUS
    <3>1. CASE s = {}
      BY <3>1
    <3>2. CASE s # {}
      <4>1. F[s \ {First(s)}] = G[s \ {First(s)}][s \ {First(s)}]
        BY <1>3, <1>5, <3>2
      <4>2. F[s] = step[<<First(s), G[s \ {First(s)}][s \ {First(s)}]>>]
        BY <1>4, <3>2
      <4>3. E[s] = step[<<First(s), F[s \ {First(s)}]>>]
        BY <3>2
      <4> HIDE DEF E, F, G
      <4> QED BY <4>1, <4>2, <4>3
    <3> QED BY <3>1, <3>2
  <2> QED BY <2>1
<1>7. IsFold(F, T, base, step)
  <2> HIDE DEF F
  <2> QED BY <1>6 DEF IsFold
<1> QED BY <1>1, <1>7

\* A step may be taken with the elements of X in any order.
Commutes(step, X, R) ==
  /\ step \in [X \X R -> R]
  /\ \A x, y \in X : \A r \in R : step[<<x, step[<<y, r>>]>>] = step[<<y, step[<<x, r>>]>>]

\* On every subset of S, F is a step with any one of its elements from the rest.
TakesAny(F, S, R, step) ==
  \A s \in SUBSET S : F[s] \in R /\ \A x \in s : F[s] = step[<<x, F[s \ {x}]>>]

\* A fold of a step that may be taken in any order takes any element last.
LEMMA FoldTakes ==
  ASSUME NEW X, NEW S \in SUBSET X, IsFiniteSet(S),
         NEW R, NEW base \in R, NEW step, Commutes(step, X, R),
         NEW F, IsFold(F, S, base, step)
  PROVE  TakesAny(F, S, R, step)
<1>0. /\ step \in [X \X R -> R]
      /\ \A x, y \in X : \A r \in R : step[<<x, step[<<y, r>>]>>] = step[<<y, step[<<x, r>>]>>]
  BY DEF Commutes
<1> DEFINE Good(s) == F[s] \in R /\ \A x \in s : F[s] = step[<<x, F[s \ {x}]>>]
           Bad == {s \in SUBSET S : ~Good(s)}
<1> SUFFICES ASSUME Bad # {} PROVE FALSE
  BY DEF TakesAny
<1>1. PICK s \in Bad : \A t \in Bad : t \subseteq s => t = s
  <2>1. Bad \in SUBSET SUBSET S
    OBVIOUS
  <2> HIDE DEF Bad
  <2> QED BY <2>1, SmallestSubset
<1>2. s \in SUBSET S /\ ~Good(s) /\ \A t \in SUBSET s : t # s => Good(t)
  BY <1>1
<1> HIDE DEF Good
<1>3. \A t \in SUBSET S : F[t] = IF t = {} THEN base ELSE step[<<First(t), F[t \ {First(t)}]>>]
  BY DEF IsFold
<1>4. s # {}
  <2>1. Good({})
    BY <1>3 DEF Good
  <2> QED BY <1>2, <2>1
<1> DEFINE c == First(s)
<1>5. c \in s /\ s \ {c} \in SUBSET s /\ s \ {c} # s
  BY <1>4 DEF First
<1>6. F[s] = step[<<c, F[s \ {c}]>>]
  BY <1>2, <1>3, <1>4
<1>7. F[s \ {c}] \in R
  BY <1>2, <1>5 DEF Good
<1> HIDE DEF c
<1>8. F[s] \in R
  <2>1. <<c, F[s \ {c}]>> \in X \X R
    BY <1>2, <1>5, <1>7
  <2> QED BY <1>0, <1>6, <2>1
<1>9. ASSUME NEW x \in s, x # c PROVE F[s] = step[<<x, F[s \ {x}]>>]
  <2> DEFINE t == s \ {c, x}
  <2>1. /\ t = (s \ {c}) \ {x} /\ t = (s \ {x}) \ {c}
        /\ x \in s \ {c} /\ c \in s \ {x}
        /\ s \ {x} \in SUBSET s /\ s \ {x} # s /\ t \in SUBSET s /\ t # s
    BY <1>5, <1>9
  <2> HIDE DEF t
  <2>2. F[s \ {c}] = step[<<x, F[t]>>]
    <3>1. Good(s \ {c})
      BY <1>2, <1>5
    <3> QED BY <2>1, <3>1 DEF Good
  <2>3. F[s \ {x}] = step[<<c, F[t]>>]
    <3>1. Good(s \ {x})
      BY <1>2, <2>1
    <3> QED BY <2>1, <3>1 DEF Good
  <2>4. F[t] \in R /\ x \in X /\ c \in X
    BY <1>2, <1>5, <2>1 DEF Good
  <2>5. step[<<c, step[<<x, F[t]>>]>>] = step[<<x, step[<<c, F[t]>>]>>]
    BY <1>0, <2>4
  <2> QED BY <1>6, <2>2, <2>3, <2>5
<1>10. Good(s)
  BY <1>6, <1>8, <1>9 DEF Good
<1> QED BY <1>2, <1>10

\* Two finite folds with the same steps have grown to the same or more: a fold of
\* numbers that are added grows with the set.
LEMMA FoldGrows ==
  ASSUME NEW S, IsFiniteSet(S), NEW F, \A s \in SUBSET S : F[s] \in Nat,
         \A s \in SUBSET S : \A x \in s : F[s \ {x}] <= F[s],
         NEW T \in SUBSET S
  PROVE  F[T] <= F[S]
<1> DEFINE Bad == {s \in SUBSET S : T \subseteq s /\ ~(F[T] <= F[s])}
<1> SUFFICES ASSUME Bad # {} PROVE FALSE
  OBVIOUS
<1>1. PICK s \in Bad : \A t \in Bad : t \subseteq s => t = s
  <2>1. Bad \in SUBSET SUBSET S
    OBVIOUS
  <2> HIDE DEF Bad
  <2> QED BY <2>1, SmallestSubset
<1>2. PICK x \in s : x \notin T
  <2>1. s # T
    BY <1>1
  <2> QED BY <1>1, <2>1
<1>3. F[T] <= F[s \ {x}]
  <2>1. s \ {x} \in SUBSET S /\ T \subseteq s \ {x} /\ s \ {x} # s
    BY <1>1, <1>2
  <2>2. s \ {x} \notin Bad
    BY <1>1, <2>1
  <2> QED BY <2>1, <2>2
<1>4. F[s \ {x}] <= F[s] /\ F[s] \in Nat /\ F[T] \in Nat /\ F[s \ {x}] \in Nat
  BY <1>1, <1>2
<1> QED BY <1>1, <1>3, <1>4
=============================================================================
