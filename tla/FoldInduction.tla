---------------------------- MODULE FoldInduction ----------------------------
(***************************************************************************)
(* Induction over folds. A fold of the community modules is a function on  *)
(* the subsets of a finite set that is defined by recursion. That there is *)
(* such a function, and that it keeps what each step keeps, is shown once  *)
(* here, for any step: a module that folds instantiates this one with the  *)
(* step and with what the step keeps.                                      *)
(***************************************************************************)
EXTENDS FiniteSetTheorems, WellFoundedInduction, Integers, TLAPS

CONSTANTS
    Step(_, _, _),   \* what the fold makes of an element and of the result so
                     \* far, in a context
    Pick(_),         \* the element taken next
    Keeps(_, _)      \* what the step keeps, in a context

(* The recursion that MapThenFoldSet of Folds stands for. *)
Iterates(iter, c, base, S) ==
    iter = [s \in SUBSET S |-> IF s = {} THEN base
                               ELSE Step(c, Pick(s), iter[s \ {Pick(s)}])]

(* The same on subsets of limited size. *)
Sized(S, n) == {s \in SUBSET S : Cardinality(s) <= n}
IteratesTo(iter, n, c, base, S) ==
    iter = [s \in Sized(S, n) |-> IF s = {} THEN base
                                  ELSE Step(c, Pick(s), iter[s \ {Pick(s)}])]

LEMMA LeastNumber ==
  ASSUME NEW T \in SUBSET Nat, T # {}
  PROVE  \E n \in T : \A m \in T : n <= m
<1>1. PICK n \in T : \A m \in T : ~ (<<m, n>> \in OpToRel(<, Nat))
  BY NatLessThanWellFounded, WFMin
<1>2. \A m \in T : ~ (m < n)
  BY <1>1 DEF OpToRel
<1> QED
  BY <1>2

(* A subset without the element picked. *)
LEMMA OneLess ==
  ASSUME NEW S, IsFiniteSet(S), \A s \in SUBSET S : s # {} => Pick(s) \in s,
         NEW n \in Nat, NEW s \in Sized(S, n), s # {}
  PROVE  /\ Pick(s) \in S /\ n > 0 /\ s \ {Pick(s)} \in Sized(S, n - 1)
         /\ s \ {Pick(s)} \in Sized(S, n)
<1>1. s \in SUBSET S /\ IsFiniteSet(s) /\ Cardinality(s) <= n
  BY FS_Subset DEF Sized
<1>2. Pick(s) \in s
  BY <1>1
<1>3. Cardinality(s) \in Nat /\ Cardinality(s) # 0
  BY <1>1, FS_CardinalityType, FS_EmptySet
<1>4. Cardinality(s \ {Pick(s)}) = Cardinality(s) - 1
  BY <1>1, <1>2, FS_RemoveElement
<1> QED
  BY <1>1, <1>2, <1>3, <1>4 DEF Sized

LEMMA IteratesSomewhere ==
  ASSUME NEW S, NEW base, NEW c, IsFiniteSet(S),
         \A s \in SUBSET S : s # {} => Pick(s) \in s
  PROVE  \A n \in Nat : \E iter : IteratesTo(iter, n, c, base, S)
<1> DEFINE Fails == {n \in Nat : ~ \E iter : IteratesTo(iter, n, c, base, S)}
<1>1. SUFFICES ASSUME Fails # {} PROVE FALSE
  OBVIOUS
<1>2. PICK n \in Fails : \A m \in Fails : n <= m
  BY <1>1, LeastNumber
<1>3. ASSUME n = 0 PROVE FALSE
  <2> DEFINE g == [s \in Sized(S, 0) |-> base]
  <2>1. \A s \in Sized(S, 0) : s = {}
    BY FS_Subset, FS_EmptySet, FS_CardinalityType DEF Sized
  <2>2. IteratesTo(g, 0, c, base, S)
    BY <2>1 DEF IteratesTo
  <2> QED
    BY <1>2, <1>3, <2>2
<1>4. ASSUME n # 0 PROVE FALSE
  <2>1. n \in Nat /\ n - 1 \in Nat /\ n - 1 \notin Fails
    BY <1>2, <1>4
  <2>2. PICK g : IteratesTo(g, n - 1, c, base, S)
    BY <2>1
  <2> DEFINE h == [s \in Sized(S, n) |-> IF s = {} THEN base
                                         ELSE Step(c, Pick(s), g[s \ {Pick(s)}])]
  <2>3. \A s \in Sized(S, n - 1) : h[s] = g[s]
    <3>1. Sized(S, n - 1) \subseteq Sized(S, n)
      <4> SUFFICES ASSUME NEW s \in Sized(S, n - 1) PROVE s \in Sized(S, n)
        OBVIOUS
      <4>1. s \in SUBSET S /\ Cardinality(s) \in Nat /\ Cardinality(s) <= n - 1
        BY FS_Subset, FS_CardinalityType DEF Sized
      <4> QED
        BY <4>1, <2>1 DEF Sized
    <3> QED
      BY <2>2, <3>1 DEF IteratesTo
  <2>4. \A s \in Sized(S, n) : s # {} => h[s \ {Pick(s)}] = g[s \ {Pick(s)}]
    BY <2>1, <2>3, OneLess
  <2>5. IteratesTo(h, n, c, base, S)
    BY <2>4 DEF IteratesTo
  <2> QED
    BY <1>2, <2>5
<1> QED
  BY <1>3, <1>4

(* The recursion has a solution, and every solution keeps what its steps   *)
(* keep.                                                                   *)
THEOREM Iteration ==
  ASSUME NEW S, NEW base, NEW c, IsFiniteSet(S),
         \A s \in SUBSET S : s # {} => Pick(s) \in s,
         Keeps(c, base),
         \A x \in S : \A u : Keeps(c, u) => Keeps(c, Step(c, x, u))
  PROVE  /\ \E iter : Iterates(iter, c, base, S)
         /\ \A iter : Iterates(iter, c, base, S) => Keeps(c, iter[S])
<1>1. Cardinality(S) \in Nat /\ Sized(S, Cardinality(S)) = SUBSET S
  BY FS_Subset, FS_CardinalityType DEF Sized
<1>2. \E iter : Iterates(iter, c, base, S)
  <2>1. \E iter : IteratesTo(iter, Cardinality(S), c, base, S)
    BY <1>1, IteratesSomewhere
  <2> QED
    BY <1>1, <2>1 DEF Iterates, IteratesTo
<1>3. ASSUME NEW iter, Iterates(iter, c, base, S) PROVE Keeps(c, iter[S])
  <2> DEFINE Fails == {n \in Nat : \E s \in Sized(S, n) : ~ Keeps(c, iter[s])}
  <2>1. ASSUME Fails # {} PROVE FALSE
    <3>1. PICK n \in Fails : \A m \in Fails : n <= m
      BY <2>1, LeastNumber
    <3>2. PICK s \in Sized(S, n) : ~ Keeps(c, iter[s])
      BY <3>1
    <3>3. s \in SUBSET S /\ n \in Nat
      BY <3>1 DEF Sized
    <3>4. s # {}
      BY <1>3, <3>2, <3>3 DEF Iterates
    <3>5. Pick(s) \in S /\ n - 1 \in Nat /\ s \ {Pick(s)} \in Sized(S, n - 1)
      BY <3>3, <3>4, OneLess
    <3>6. Keeps(c, iter[s \ {Pick(s)}])
      BY <3>1, <3>5
    <3>7. iter[s] = Step(c, Pick(s), iter[s \ {Pick(s)}])
      BY <1>3, <3>3, <3>4 DEF Iterates
    <3> QED
      BY <3>2, <3>5, <3>6, <3>7
  <2>2. S \in Sized(S, Cardinality(S))
    BY <1>1
  <2> QED
    BY <1>1, <2>1, <2>2
<1> QED
  BY <1>2, <1>3

(* The same for what is kept of the elements taken so far.                 *)
THEOREM IterationAt ==
  ASSUME NEW S, NEW base, NEW c, NEW At, IsFiniteSet(S),
         \A s \in SUBSET S : s # {} => Pick(s) \in s,
         Keeps(At[{}], base),
         \A s \in SUBSET S : s # {} =>
            \A u : Keeps(At[s \ {Pick(s)}], u) => Keeps(At[s], Step(c, Pick(s), u))
  PROVE  /\ \E iter : Iterates(iter, c, base, S)
         /\ \A iter : Iterates(iter, c, base, S) => Keeps(At[S], iter[S])
<1>1. Cardinality(S) \in Nat /\ Sized(S, Cardinality(S)) = SUBSET S
  BY FS_Subset, FS_CardinalityType DEF Sized
<1>2. \E iter : Iterates(iter, c, base, S)
  <2>1. \E iter : IteratesTo(iter, Cardinality(S), c, base, S)
    BY <1>1, IteratesSomewhere
  <2> QED
    BY <1>1, <2>1 DEF Iterates, IteratesTo
<1>3. ASSUME NEW iter, Iterates(iter, c, base, S) PROVE Keeps(At[S], iter[S])
  <2> DEFINE Fails == {n \in Nat : \E s \in Sized(S, n) : ~ Keeps(At[s], iter[s])}
  <2>1. ASSUME Fails # {} PROVE FALSE
    <3>1. PICK n \in Fails : \A m \in Fails : n <= m
      BY <2>1, LeastNumber
    <3>2. PICK s \in Sized(S, n) : ~ Keeps(At[s], iter[s])
      BY <3>1
    <3>3. s \in SUBSET S /\ n \in Nat
      BY <3>1 DEF Sized
    <3>4. s # {}
      BY <1>3, <3>2, <3>3 DEF Iterates
    <3>5. Pick(s) \in S /\ n - 1 \in Nat /\ s \ {Pick(s)} \in Sized(S, n - 1)
      BY <3>3, <3>4, OneLess
    <3>6. Keeps(At[s \ {Pick(s)}], iter[s \ {Pick(s)}])
      BY <3>1, <3>5
    <3>7. iter[s] = Step(c, Pick(s), iter[s \ {Pick(s)}])
      BY <1>3, <3>3, <3>4 DEF Iterates
    <3> QED
      BY <3>2, <3>3, <3>4, <3>6, <3>7
  <2>2. S \in Sized(S, Cardinality(S))
    BY <1>1
  <2> QED
    BY <1>1, <2>1, <2>2
<1> QED
  BY <1>2, <1>3

=============================================================================
