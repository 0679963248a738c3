--------------------------- MODULE LockHandlerProofs ---------------------------
(***************************************************************************)
(* Proofs about LockHandler for any sets of requests and lock files and    *)
(* any bounds: the inductive invariant, what follows from it, and that     *)
(* every step of the handler is a step or a stutter of RWLock.             *)
(***************************************************************************)
EXTENDS LockHandler, TLAPS

(* The state before any request has locked anything. *)
LEMMA InitIInv == Init => IInv
<1> SUFFICES ASSUME Init PROVE IInv
  OBVIOUS
<1>1. TypeOK
  BY DEF Init, TypeOK, Objects, NoObjects, Wrapper, Unset, Unlocked
<1>2. CountInv
  BY DEF Init, CountInv, Live, NoObjects, Unset
<1>3. TableInv
  BY DEF Init, TableInv, IsSet, Unset, Unlocked
<1>4. SystemInv
  BY DEF Init, SystemInv, Holders, Unlocked
<1>5. WaitInv
  BY DEF Init, WaitInv
<1> QED
  BY <1>1, <1>2, <1>3, <1>4, <1>5 DEF IInv

(* flock(2) has been obtained: the four tables change together. *)
LEMMA FlockGrantedIInv ==
  ASSUME IInv, NEW r \in Request, FlockGranted(r)
  PROVE  IInv'
<1> DEFINE f == want[r].file
           x == want[r].exclusive
<1> USE DEF IInv
<1>1. /\ f \in LockFile /\ x \in BOOLEAN
      /\ want[r] # None
      /\ Compatible(f, x)
      /\ flocks' = [flocks EXCEPT ![f] = FlockAdd(@, r, x)]
      /\ handles' = [handles EXCEPT ![r][f] = [count |-> 1, exclusive |-> x]]
      /\ objects' = [objects EXCEPT ![r][f] = OneMore(@, x)]
      /\ want' = [want EXCEPT ![r] = None]
      /\ attempts' = [attempts EXCEPT ![r] = 0]
      /\ UNCHANGED <<exists, throwing>>
  BY DEF FlockGranted, TypeOK, Want
<1>2. handles[r][f].count = 0 /\ ~handles[r][f].exclusive /\ Live(r, f) = 0
  BY <1>1 DEF WaitInv, IsSet, CountInv, TypeOK, Wrapper
<1> HIDE DEF f, x
<1>3. TypeOK'
  BY <1>1 DEF TypeOK, OneMore, FlockAdd, Objects, Wrapper
<1>4. CountInv'
  BY <1>1, <1>2 DEF CountInv, TypeOK, OneMore, Live, Objects, Wrapper
<1>5. TableInv'
  BY <1>1, <1>2 DEF TableInv, TypeOK, FlockAdd, IsSet, Wrapper
<1>6. SystemInv'
  BY <1>1 DEF SystemInv, TypeOK, FlockAdd, Compatible, Holders
<1>7. WaitInv'
  BY <1>1 DEF WaitInv, TypeOK, IsSet, Wrapper
<1> QED
  BY <1>3, <1>4, <1>5, <1>6, <1>7

(* A new object on a file locked already only adds to the count. *)
LEMMA LockAgainIInv ==
  ASSUME IInv, NEW r \in Request, NEW f \in LockFile, NEW x \in BOOLEAN,
         LockAgain(r, f, x)
  PROVE  IInv'
<1> USE DEF IInv, LockAgain
<1>1. TypeOK'
  <2>1. objects' \in [Request -> [LockFile -> Objects]]
    BY DEF TypeOK, OneMore, Objects
  <2>2. handles' \in [Request -> [LockFile -> Wrapper]]
    BY DEF TypeOK, Wrapper, Incremented
  <2> QED
    BY <2>1, <2>2 DEF TypeOK
<1>2. CountInv'
  <2> SUFFICES ASSUME NEW s \in Request, NEW g \in LockFile
               PROVE  /\ handles'[s][g].count = Live(s, g)'
                      /\ objects'[s][g].exclusive > 0 => handles'[s][g].exclusive
                      /\ handles'[s][g].count = 0 => ~handles'[s][g].exclusive
    BY DEF CountInv
  <2>1. CASE s = r /\ g = f
    <3>1. /\ handles'[s][g] = Incremented(handles[r][f])
          /\ objects'[s][g] = OneMore(objects[r][f], x)
      BY <2>1 DEF TypeOK
    <3>2. /\ handles[r][f].count \in Nat /\ handles[r][f].count > 0
          /\ objects[r][f].shared \in Nat /\ objects[r][f].exclusive \in Nat
      BY DEF TypeOK, Objects, Wrapper, IsSet
    <3>3. handles[r][f].exclusive \in BOOLEAN
      BY DEF TypeOK, Wrapper
    <3>4. handles[r][f].count = Live(r, f)
          /\ (objects[r][f].exclusive > 0 => handles[r][f].exclusive)
      BY DEF CountInv
    <3>5. handles'[s][g].count = handles[r][f].count + 1
          /\ handles'[s][g].exclusive = handles[r][f].exclusive
      BY <3>1 DEF Incremented
    <3>6. CASE x
      BY <3>1, <3>2, <3>3, <3>4, <3>5, <3>6 DEF OneMore, Live
    <3>7. CASE ~x
      BY <3>1, <3>2, <3>3, <3>4, <3>5, <3>7 DEF OneMore, Live
    <3> QED
      BY <3>6, <3>7
  <2>2. CASE s # r \/ g # f
    <3>1. handles'[s][g] = handles[s][g] /\ objects'[s][g] = objects[s][g]
      BY <2>2 DEF TypeOK
    <3> QED
      BY <3>1 DEF CountInv, Live
  <2> QED
    BY <2>1, <2>2
<1>3. TableInv'
  BY DEF TableInv, TypeOK, IsSet, Wrapper, Incremented
<1>4. SystemInv'
  BY DEF SystemInv, Holders
<1>5. WaitInv'
  BY DEF WaitInv, TypeOK, IsSet, Wrapper, Want, Incremented
<1> QED
  BY <1>1, <1>2, <1>3, <1>4, <1>5

(* An object goes: the flock goes with the last one. *)
LEMMA UnlockIInv ==
  ASSUME IInv, NEW r \in Request, NEW f \in LockFile, NEW x \in BOOLEAN,
         Unlock(r, f, x)
  PROVE  IInv'
<1> USE DEF IInv
<1>1. /\ want[r] = None
      /\ Alive(objects[r][f], x)
      /\ objects' = [objects EXCEPT ![r][f] = OneLess(@, x)]
      /\ handles' = [handles EXCEPT ![r][f] = Decremented(@)]
      /\ flocks' = IF handles[r][f].count = 1
                     THEN [flocks EXCEPT ![f] = FlockDrop(@, r)]
                     ELSE flocks
      /\ UNCHANGED <<exists, want, attempts, throwing>>
  BY DEF Unlock
<1>2. /\ handles[r][f] \in Wrapper
      /\ handles[r][f].count > 0
      /\ Decremented(handles[r][f]) \in Wrapper
  BY <1>1 DEF TypeOK, CountInv, Live, Objects, Alive, Decremented, Wrapper, Unset
<1>3. /\ Decremented(handles[r][f]).count = handles[r][f].count - 1
      /\ Decremented(handles[r][f]).exclusive
            <=> handles[r][f].count # 1 /\ handles[r][f].exclusive
  BY <1>2 DEF Decremented, Wrapper, Unset
<1>4. TypeOK'
  <2>1. objects' \in [Request -> [LockFile -> Objects]]
    BY <1>1 DEF TypeOK, OneLess, Alive, Objects
  <2>2. handles' \in [Request -> [LockFile -> Wrapper]]
    BY <1>1, <1>2 DEF TypeOK
  <2>3. flocks' \in [LockFile -> [shared : SUBSET Request, exclusive : SUBSET Request]]
    BY <1>1 DEF TypeOK, FlockDrop
  <2> QED
    BY <1>1, <2>1, <2>2, <2>3 DEF TypeOK
<1>5. CountInv'
  <2> SUFFICES ASSUME NEW s \in Request, NEW g \in LockFile
               PROVE  /\ handles'[s][g].count = Live(s, g)'
                      /\ objects'[s][g].exclusive > 0 => handles'[s][g].exclusive
                      /\ handles'[s][g].count = 0 => ~handles'[s][g].exclusive
    BY DEF CountInv
  <2>1. CASE s = r /\ g = f
    <3>1. /\ handles'[s][g] = Decremented(handles[r][f])
          /\ objects'[s][g] = OneLess(objects[r][f], x)
      BY <1>1, <2>1 DEF TypeOK
    <3>2. /\ handles[r][f].count \in Nat
          /\ objects[r][f].shared \in Nat /\ objects[r][f].exclusive \in Nat
      BY DEF TypeOK, Objects, Wrapper
    <3>3. handles[r][f].count = Live(r, f)
          /\ (objects[r][f].exclusive > 0 => handles[r][f].exclusive)
      BY DEF CountInv
    <3>4. handles'[s][g].count = handles[r][f].count - 1
          /\ (handles'[s][g].exclusive
                <=> handles[r][f].count # 1 /\ handles[r][f].exclusive)
      BY <1>3, <3>1
    <3>5. objects'[s][g].shared + objects'[s][g].exclusive = Live(r, f) - 1
          /\ (objects'[s][g].exclusive > 0
                => objects[r][f].exclusive > 0 /\ Live(r, f) # 1)
      <4>1. CASE x
        <5>1. /\ objects'[s][g].shared = objects[r][f].shared
              /\ objects'[s][g].exclusive = objects[r][f].exclusive - 1
          BY <3>1, <4>1 DEF OneLess
        <5>2. objects[r][f].exclusive > 0
          BY <1>1, <4>1 DEF Alive
        <5> QED
          BY <3>2, <5>1, <5>2 DEF Live
      <4>2. CASE ~x
        <5>1. /\ objects'[s][g].shared = objects[r][f].shared - 1
              /\ objects'[s][g].exclusive = objects[r][f].exclusive
          BY <3>1, <4>2 DEF OneLess
        <5>2. objects[r][f].shared > 0
          BY <1>1, <4>2 DEF Alive
        <5> QED
          BY <3>2, <5>1, <5>2 DEF Live
      <4> QED
        BY <4>1, <4>2
    <3>6. handles[r][f].count = 1 \/ handles'[s][g].count # 0
      BY <3>2, <3>4
    <3> QED
      BY <2>1, <3>3, <3>4, <3>5, <3>6 DEF Live
  <2>2. CASE s # r \/ g # f
    <3>1. handles'[s][g] = handles[s][g] /\ objects'[s][g] = objects[s][g]
      BY <1>1, <2>2 DEF TypeOK
    <3> QED
      BY <3>1 DEF CountInv, Live
  <2> QED
    BY <2>1, <2>2
<1>6. TableInv'
  BY <1>1, <1>2, <1>3 DEF TableInv, TypeOK, IsSet, FlockDrop, Wrapper
<1>7. SystemInv'
  BY <1>1 DEF SystemInv, TypeOK, FlockDrop, Holders
<1>8. WaitInv'
  BY <1>1, <1>2, <1>3 DEF WaitInv, TypeOK, IsSet, Want, Wrapper
<1> QED
  BY <1>4, <1>5, <1>6, <1>7, <1>8

(* The operating system releases what a dead process held. *)
LEMMA KilledIInv ==
  ASSUME IInv, NEW r \in Request, Killed(r)
  PROVE  IInv'
<1> USE DEF IInv, Killed
<1>1. TypeOK'
  BY DEF TypeOK, FlockDrop, Objects, NoObjects, Wrapper, Unset
<1>2. CountInv'
  BY DEF CountInv, TypeOK, Live, NoObjects, Unset
<1>3. TableInv'
  BY DEF TableInv, TypeOK, IsSet, FlockDrop, Unset
<1>4. SystemInv'
  BY DEF SystemInv, TypeOK, FlockDrop, Holders
<1>5. WaitInv'
  BY DEF WaitInv, TypeOK, IsSet, Unset, Want
<1> QED
  BY <1>1, <1>2, <1>3, <1>4, <1>5

(* The other steps leave objects, table and system alone. *)
LEMMA OtherStepsIInv ==
  ASSUME IInv, NEW r \in Request,
         \/ FlockRetry(r)
         \/ FlockTimeout(r)
         \/ Caught(r)
         \/ \E f \in LockFile : LockRefused(r, f)
         \/ \E f \in LockFile, x \in BOOLEAN : BeginFileLock(r, f, x)
  PROVE  IInv'
<1> USE DEF IInv
<1>1. /\ UNCHANGED <<objects, handles, flocks>>
      /\ exists' \in SUBSET LockFile
      /\ attempts' \in [Request -> Nat]
      /\ throwing' \in SUBSET Request
      /\ want' \in [Request -> Want \union {None}]
      /\ WaitInv'
  <2>1. CASE FlockRetry(r)
    BY <2>1 DEF FlockRetry, TypeOK, WaitInv, IsSet
  <2>4. CASE FlockTimeout(r)
    BY <2>4 DEF FlockTimeout, TypeOK, WaitInv, IsSet
  <2>2. CASE Caught(r) \/ \E f \in LockFile : LockRefused(r, f)
    BY <2>2 DEF Caught, LockRefused, TypeOK, WaitInv, IsSet
  <2>3. CASE \E f \in LockFile, x \in BOOLEAN : BeginFileLock(r, f, x)
    BY <2>3 DEF BeginFileLock, TypeOK, WaitInv, IsSet, Want
  <2> QED
    BY <2>1, <2>2, <2>3, <2>4
<1>2. TypeOK'
  BY <1>1 DEF TypeOK
<1>3. CountInv' /\ TableInv' /\ SystemInv'
  BY <1>1 DEF CountInv, Live, TableInv, IsSet, SystemInv, Holders
<1> QED
  BY <1>1, <1>2, <1>3

LEMMA NextIInv == IInv /\ [Next]_vars => IInv'
<1> SUFFICES ASSUME IInv, [Next]_vars PROVE IInv'
  OBVIOUS
<1>1. CASE UNCHANGED vars
  BY <1>1 DEF vars, IInv, TypeOK, CountInv, Live, TableInv, IsSet, SystemInv,
              Holders, WaitInv
<1>2. CASE Next
  BY <1>2, FlockGrantedIInv, LockAgainIInv, UnlockIInv, KilledIInv,
     OtherStepsIInv DEF Next, FileLockStep
<1> QED
  BY <1>1, <1>2

(* The invariant is one: objects, handle table and operating system agree. *)
THEOREM Invariance == Spec => []IInv
  BY InitIInv, NextIInv, PTL DEF Spec

(* The tables always have their types. *)
THEOREM TypeCorrect == Spec => []TypeOK
<1>1. IInv => TypeOK
  BY DEF IInv
<1> QED
  BY <1>1, Invariance, PTL

(* No two requests ever own the same repository, unless both only share. *)
THEOREM ExclusionHolds == Spec => []Exclusion
<1>1. IInv => Exclusion
  <2> SUFFICES ASSUME IInv, NEW r \in Request, NEW s \in Request, r # s,
                      NEW f \in LockFile, objects[r][f].exclusive > 0,
                      Live(s, f) # 0
               PROVE  FALSE
    BY DEF Exclusion
  <2>1. r \in flocks[f].exclusive
    BY DEF IInv, CountInv, TableInv
  <2>2. s \in Holders(f)
    BY DEF IInv, CountInv, TableInv, TypeOK, Wrapper, IsSet, Holders
  <2> QED
    BY <2>1, <2>2 DEF IInv, SystemInv
<1> QED
  BY <1>1, Invariance, PTL

(* A request holds the flock exactly while one of its objects lives. *)
THEOREM LocksMatchObjectsHolds == Spec => []LocksMatchObjects
<1>1. IInv => LocksMatchObjects
  BY DEF IInv, LocksMatchObjects, TypeOK, CountInv, TableInv, Wrapper, IsSet, Holders
<1> QED
  BY <1>1, Invariance, PTL

(* No request ever waits for a flock of its own. *)
THEOREM NoSelfDeadlockHolds == Spec => []NoSelfDeadlock
<1>1. IInv => NoSelfDeadlock
  <2> SUFFICES ASSUME IInv, NEW r \in Request, want[r] # None
               PROVE  r \notin Holders(want[r].file)
    BY DEF NoSelfDeadlock
  <2>1. want[r].file \in LockFile
    BY DEF IInv, TypeOK, Want
  <2>2. ~IsSet(r, want[r].file)
    BY DEF IInv, WaitInv
  <2> QED
    BY <2>1, <2>2 DEF IInv, TypeOK, CountInv, TableInv, Wrapper, IsSet, Holders
<1> QED
  BY <1>1, Invariance, PTL

-----------------------------------------------------------------------------
(* The refinement of RWLock, up to fairness (RWLock states none). *)

LEMMA OwnedAt ==
  ASSUME IInv, NEW r \in Request, NEW f \in LockFile
  PROVE  /\ Owned[r][f] = "none" <=> ~IsSet(r, f)
         /\ Owned[r][f] = "exclusive" <=> handles[r][f].exclusive
  BY DEF IInv, TypeOK, Wrapper, Owned, IsSet, CountInv, TableInv

LEMMA OwnedAtNext ==
  ASSUME IInv', NEW r \in Request, NEW f \in LockFile
  PROVE  /\ Owned'[r][f] = "none" <=> ~IsSet(r, f)'
         /\ Owned'[r][f] = "exclusive" <=> handles'[r][f].exclusive
  BY DEF IInv, TypeOK, Wrapper, Owned, IsSet, CountInv, TableInv

(* Where the table keeps an entry's meaning, the owner's mode is kept. *)
LEMMA OwnedKept ==
  ASSUME IInv, IInv', NEW r \in Request, NEW f \in LockFile,
         IsSet(r, f)' <=> IsSet(r, f),
         handles'[r][f].exclusive <=> handles[r][f].exclusive
  PROVE  Owned'[r][f] = Owned[r][f]
<1>1. /\ Owned[r][f] = "none" <=> ~IsSet(r, f)
      /\ Owned[r][f] = "exclusive" <=> handles[r][f].exclusive
  BY OwnedAt
<1>2. /\ Owned'[r][f] = "none" <=> ~IsSet(r, f)'
      /\ Owned'[r][f] = "exclusive" <=> handles'[r][f].exclusive
  BY OwnedAtNext
<1>3. Owned[r][f] \in {"none", "shared", "exclusive"}
      /\ Owned'[r][f] \in {"none", "shared", "exclusive"}
  BY DEF Owned
<1> QED
  BY <1>1, <1>2, <1>3

LEMMA InitRefines == Init => RW!RWInit
  BY DEF Init, Live, NoObjects, Owned, RW!RWInit

(* What the owner's modes become, from what the table becomes. *)
LEMMA OwnedBecomes ==
  ASSUME IInv, IInv', NEW r \in Request, NEW f \in LockFile, NEW m,
         Owned'[r][f] = m,
         \A s \in Request, g \in LockFile :
           s # r \/ g # f => handles'[s][g] = handles[s][g]
  PROVE  Owned' = [Owned EXCEPT ![r][f] = m]
<1>1. ASSUME NEW s \in Request, NEW g \in LockFile, s # r \/ g # f
      PROVE  Owned'[s][g] = Owned[s][g]
  <2>1. handles'[s][g] = handles[s][g]
    BY <1>1
  <2> QED
    BY <2>1, OwnedKept DEF IsSet
<1>2. /\ Owned = [s \in Request |-> [g \in LockFile |-> Owned[s][g]]]
      /\ Owned' = [s \in Request |-> [g \in LockFile |-> Owned'[s][g]]]
  BY DEF Owned
<1> HIDE DEF Owned
<1> DEFINE O == Owned
           P == Owned'
<1>3. /\ O = [s \in Request |-> [g \in LockFile |-> O[s][g]]]
      /\ P = [s \in Request |-> [g \in LockFile |-> P[s][g]]]
      /\ \A s \in Request, g \in LockFile : s # r \/ g # f => P[s][g] = O[s][g]
      /\ P[r][f] = m
  BY <1>1, <1>2
<1>4. P = [O EXCEPT ![r][f] = m]
  <2> HIDE DEF O, P
  <2> QED
    BY <1>3
<1> QED
  BY <1>4

(* The flock obtained: the abstract lock is acquired. *)
LEMMA FlockGrantedRefines ==
  ASSUME IInv, IInv', NEW r \in Request, FlockGranted(r)
  PROVE  RW!RWNext
<1> DEFINE f == want[r].file
           x == want[r].exclusive
<1>1. /\ f \in LockFile /\ x \in BOOLEAN
      /\ want[r] # None
      /\ Compatible(f, x)
      /\ handles' = [handles EXCEPT ![r][f] = [count |-> 1, exclusive |-> x]]
  BY DEF FlockGranted, IInv, TypeOK, Want
<1>2. ~IsSet(r, f)
  BY <1>1 DEF IInv, WaitInv
<1> HIDE DEF f, x
<1>3. Owned' = [Owned EXCEPT ![r][f] = IF x THEN "exclusive" ELSE "shared"]
  <2>1. handles'[r][f] = [count |-> 1, exclusive |-> x]
    BY <1>1 DEF IInv, TypeOK
  <2>2. handles'[r][f].count > 0 /\ handles'[r][f].exclusive = x
    BY <2>1
  <2>3. Owned'[r][f] # "none" /\ (Owned'[r][f] = "exclusive" <=> x)
    BY <1>1, <2>2, OwnedAtNext DEF IsSet
  <2>4. Owned'[r][f] \in {"none", "shared", "exclusive"}
    BY <1>1 DEF Owned
  <2>5. Owned'[r][f] = IF x THEN "exclusive" ELSE "shared"
    BY <1>1, <2>3, <2>4
  <2>6. \A s \in Request, g \in LockFile :
          s # r \/ g # f => handles'[s][g] = handles[s][g]
    BY <1>1 DEF IInv, TypeOK
  <2> QED
    BY <1>1, <2>5, <2>6, OwnedBecomes
<1>4. Owned[r][f] = "none"
  BY <1>1, <1>2, OwnedAt
<1>5. \A s \in Request : Owned[s][f] # "exclusive"
  BY <1>1, OwnedAt DEF Compatible, IInv, TableInv
<1>6. ASSUME x PROVE \A s \in Request : Owned[s][f] = "none"
  <2> TAKE s \in Request
  <2>1. ~IsSet(s, f)
    BY <1>1, <1>6 DEF Compatible, IInv, TableInv
  <2> QED
    BY <2>1, <1>1, OwnedAt
<1> QED
  <2>1. CASE x
    BY <1>1, <1>3, <1>6, <2>1 DEF RW!RWNext, RW!AcquireExclusive
  <2>2. CASE ~x
    BY <1>1, <1>3, <1>4, <1>5, <2>2 DEF RW!RWNext, RW!AcquireShared
  <2> QED
    BY <2>1, <2>2

(* Another object on a locked file is nothing to the owner's mode. *)
LEMMA SameModes ==
  ASSUME IInv, IInv',
         \A r \in Request, f \in LockFile :
           /\ IsSet(r, f)' <=> IsSet(r, f)
           /\ handles'[r][f].exclusive <=> handles[r][f].exclusive
  PROVE  Owned' = Owned
<1>1. \A r \in Request, f \in LockFile : Owned'[r][f] = Owned[r][f]
  BY OwnedKept
<1>2. /\ Owned = [s \in Request |-> [g \in LockFile |-> Owned[s][g]]]
      /\ Owned' = [s \in Request |-> [g \in LockFile |-> Owned'[s][g]]]
  BY DEF Owned
<1> HIDE DEF Owned
<1>3. [s \in Request |-> [g \in LockFile |-> Owned'[s][g]]]
        = [s \in Request |-> [g \in LockFile |-> Owned[s][g]]]
  BY <1>1
<1> QED
  BY <1>2, <1>3

LEMMA LockAgainRefines ==
  ASSUME IInv, IInv', NEW r \in Request, NEW f \in LockFile,
         NEW x \in BOOLEAN, LockAgain(r, f, x)
  PROVE  Owned' = Owned
<1>1. ASSUME NEW s \in Request, NEW g \in LockFile
      PROVE  /\ IsSet(s, g)' <=> IsSet(s, g)
             /\ handles'[s][g].exclusive <=> handles[s][g].exclusive
  <2>1. CASE s = r /\ g = f
    <3>1. handles'[s][g] = Incremented(handles[r][f])
      BY <2>1 DEF LockAgain, IInv, TypeOK
    <3>2. handles[r][f].count \in Nat /\ handles[r][f].count > 0
      BY DEF LockAgain, IInv, TypeOK, Wrapper, IsSet
    <3> QED
      BY <2>1, <3>1, <3>2 DEF Incremented, IsSet
  <2>2. CASE s # r \/ g # f
    <3>1. handles'[s][g] = handles[s][g]
      BY <2>2 DEF LockAgain, IInv, TypeOK
    <3> QED
      BY <3>1 DEF IsSet
  <2> QED
    BY <2>1, <2>2
<1> QED
  BY <1>1, SameModes

(* An object gone: the lock is released with the last one, else kept. *)
LEMMA UnlockRefines ==
  ASSUME IInv, IInv', NEW r \in Request, NEW f \in LockFile,
         NEW x \in BOOLEAN, Unlock(r, f, x)
  PROVE  RW!RWNext \/ Owned' = Owned
<1>1. /\ handles'[r][f] = Decremented(handles[r][f])
      /\ \A s \in Request, g \in LockFile :
           s # r \/ g # f => handles'[s][g] = handles[s][g]
  BY DEF Unlock, IInv, TypeOK
<1>2. handles[r][f].count \in Nat /\ handles[r][f].count > 0
  BY DEF Unlock, Alive, IInv, TypeOK, CountInv, Live, Objects
<1>3. CASE handles[r][f].count = 1
  <2>1. handles'[r][f].count = 0
    BY <1>1, <1>3 DEF Decremented, Unset
  <2>2. Owned'[r][f] = "none"
    BY <2>1, OwnedAtNext DEF IsSet
  <2>3. Owned' = [Owned EXCEPT ![r][f] = "none"]
    BY <1>1, <2>2, OwnedBecomes
  <2>4. Owned[r][f] # "none"
    BY <1>2, OwnedAt DEF IsSet
  <2> QED
    BY <2>3, <2>4 DEF RW!RWNext, RW!Release
<1>4. CASE handles[r][f].count # 1
  <2>1. /\ handles'[r][f].count = handles[r][f].count - 1
        /\ handles'[r][f].exclusive = handles[r][f].exclusive
    BY <1>1, <1>4 DEF Decremented
  <2>2. handles'[r][f].count > 0
    BY <1>2, <1>4, <2>1
  <2>3. ASSUME NEW s \in Request, NEW g \in LockFile
        PROVE  /\ IsSet(s, g)' <=> IsSet(s, g)
               /\ handles'[s][g].exclusive <=> handles[s][g].exclusive
    BY <1>1, <1>2, <2>1, <2>2 DEF IsSet
  <2> QED
    BY <2>3, SameModes
<1> QED
  BY <1>3, <1>4

(* A dead process releases everything at once. *)
LEMMA KilledRefines ==
  ASSUME IInv, IInv', NEW r \in Request, Killed(r)
  PROVE  RW!RWNext
<1>1. /\ \A f \in LockFile : handles'[r][f].count = 0
      /\ \A s \in Request, g \in LockFile :
           s # r => handles'[s][g] = handles[s][g]
  BY DEF Killed, IInv, TypeOK, Unset
<1>2. \A g \in LockFile : Owned'[r][g] = "none"
  BY <1>1, OwnedAtNext DEF IsSet
<1>3. \A s \in Request, g \in LockFile : s # r => Owned'[s][g] = Owned[s][g]
  BY <1>1, OwnedKept DEF IsSet
<1>4. /\ Owned = [s \in Request |-> [g \in LockFile |-> Owned[s][g]]]
      /\ Owned' = [s \in Request |-> [g \in LockFile |-> Owned'[s][g]]]
  BY DEF Owned
<1> HIDE DEF Owned
<1> DEFINE O == Owned
           P == Owned'
<1>5. /\ O = [s \in Request |-> [g \in LockFile |-> O[s][g]]]
      /\ P = [s \in Request |-> [g \in LockFile |-> P[s][g]]]
      /\ \A s \in Request, g \in LockFile : s # r => P[s][g] = O[s][g]
      /\ \A g \in LockFile : P[r][g] = "none"
  BY <1>2, <1>3, <1>4
<1>6. P = [O EXCEPT ![r] = [g \in LockFile |-> "none"]]
  <2> HIDE DEF O, P
  <2> QED
    BY <1>5
<1> QED
  BY <1>6 DEF RW!RWNext, RW!ReleaseAll

LEMMA NextRefines == IInv /\ IInv' /\ [Next]_vars => [RW!RWNext]_Owned
<1> SUFFICES ASSUME IInv, IInv', [Next]_vars
             PROVE  RW!RWNext \/ Owned' = Owned
  OBVIOUS
<1>1. UNCHANGED <<objects, flocks>> => Owned' = Owned
  BY DEF Owned, Live
<1>2. CASE UNCHANGED vars
  BY <1>1, <1>2 DEF vars
<1>3. ASSUME NEW r \in Request,
             FlockRetry(r) \/ FlockTimeout(r) \/ Caught(r)
      PROVE  Owned' = Owned
  BY <1>1, <1>3 DEF FlockRetry, FlockTimeout, Caught
<1>4. ASSUME NEW r \in Request, NEW f \in LockFile,
             LockRefused(r, f) \/ \E x \in BOOLEAN : BeginFileLock(r, f, x)
      PROVE  Owned' = Owned
  BY <1>1, <1>4 DEF LockRefused, BeginFileLock
<1> QED
  BY <1>2, <1>3, <1>4, FlockGrantedRefines, LockAgainRefines, UnlockRefines,
     KilledRefines DEF Next, FileLockStep

(* The handler implements the readers-writer lock its callers rely on. *)
THEOREM Refinement == Spec => ImplementsRWLock
  BY InitRefines, NextRefines, Invariance, PTL DEF Spec, ImplementsRWLock, RW!RWSpec
=============================================================================
