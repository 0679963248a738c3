----------------------------- MODULE LockHandler -----------------------------
(***************************************************************************)
(* The repository locks: include/lock-handler.php over file_lock and       *)
(* file_unlock of include/file-utils.php, as the repository objects of     *)
(* include/git.php use them.                                               *)
(*                                                                         *)
(* Each PHP request has one LockHandler.  It keeps one flock handle per    *)
(* lock file, shared by all the repository objects of the request and      *)
(* counted; the last object to go releases the flock.  Different requests  *)
(* meet only in flock(2), which file_lock polls without blocking until     *)
(* lock.max_wait has passed.  A refused lock throws, the objects of the    *)
(* request are destroyed while the exception unwinds, and the slot serves  *)
(* the next request.                                                       *)
(***************************************************************************)
EXTENDS Naturals

CONSTANTS Request,      \* the PHP processes serving requests
          LockFile,     \* the cyanide-lock files
          MaxObjects,   \* bound: live repository objects per request and file
          MaxAttempts,  \* bound: flock attempts that fit in lock.max_wait
          None          \* not waiting for a lock

(* One call of file_lock: its arguments, and whether its fopen succeeded. *)
Want == [file : LockFile, exclusive : BOOLEAN, opened : BOOLEAN]

ASSUME MaxObjectsAssumption == MaxObjects \in Nat \ {0}
ASSUME MaxAttemptsAssumption == MaxAttempts \in Nat \ {0}
ASSUME NoneAssumption == None \notin Want

VARIABLES
  objects,    \* objects[r][f]: r's live repository objects on f, by kind
  handles,    \* handles[r][f]: LockHandler's wrapper; count = 0 when unset
  flocks,     \* flocks[f]: the requests holding f in the operating system
  exists,     \* the lock files that exist on disk
  want,       \* want[r]: the file_lock call r is in, or None
  attempts,   \* attempts[r]: failed flock attempts of that call
  throwing    \* requests in which an exception is unwinding

vars == <<objects, handles, flocks, exists, want, attempts, throwing>>

Wrapper == [count : Nat, exclusive : BOOLEAN]
Unset == [count |-> 0, exclusive |-> FALSE]
Objects == [shared : Nat, exclusive : Nat]
NoObjects == [shared |-> 0, exclusive |-> 0]
Unlocked == [shared |-> {}, exclusive |-> {}]

TypeOK ==
  /\ objects \in [Request -> [LockFile -> Objects]]
  /\ handles \in [Request -> [LockFile -> Wrapper]]
  /\ flocks \in [LockFile -> [shared : SUBSET Request, exclusive : SUBSET Request]]
  /\ exists \in SUBSET LockFile
  /\ want \in [Request -> Want \union {None}]
  /\ attempts \in [Request -> Nat]
  /\ throwing \in SUBSET Request

Init ==
  /\ objects = [r \in Request |-> [f \in LockFile |-> NoObjects]]
  /\ handles = [r \in Request |-> [f \in LockFile |-> Unset]]
  /\ flocks = [f \in LockFile |-> Unlocked]
  /\ exists \in SUBSET LockFile
  /\ want = [r \in Request |-> None]
  /\ attempts = [r \in Request |-> 0]
  /\ throwing = {}

-----------------------------------------------------------------------------
(* Helpers *)

IsSet(r, f) == handles[r][f].count > 0
Running(r) == want[r] = None /\ r \notin throwing
Live(r, f) == objects[r][f].shared + objects[r][f].exclusive

OneMore(o, x) ==
  [shared |-> IF x THEN o.shared ELSE o.shared + 1,
   exclusive |-> IF x THEN o.exclusive + 1 ELSE o.exclusive]

OneLess(o, x) ==
  [shared |-> IF x THEN o.shared ELSE o.shared - 1,
   exclusive |-> IF x THEN o.exclusive - 1 ELSE o.exclusive]

Alive(o, x) == IF x THEN o.exclusive > 0 ELSE o.shared > 0

Incremented(w) == [count |-> w.count + 1, exclusive |-> w.exclusive]

(* The wrapper after one unlock: unset with the last reference. *)
Decremented(w) ==
  IF w.count = 1 THEN Unset
  ELSE [count |-> w.count - 1, exclusive |-> w.exclusive]

(* flock(2): a lock is incompatible with the locks of every other open     *)
(* file, those of the same process included.                               *)
Compatible(f, x) ==
  /\ flocks[f].exclusive = {}
  /\ x => flocks[f].shared = {}

FlockAdd(lock, r, x) ==
  [shared |-> lock.shared \union (IF x THEN {} ELSE {r}),
   exclusive |-> lock.exclusive \union (IF x THEN {r} ELSE {})]

FlockDrop(lock, r) ==
  [shared |-> lock.shared \ {r}, exclusive |-> lock.exclusive \ {r}]

-----------------------------------------------------------------------------
(* Mutant of BeginFileLock: lock() forgets that it holds the file. *)
BeginFileLockAnyway(r, f, x) ==
  /\ Running(r)
  /\ exists' = IF x THEN exists \union {f} ELSE exists
  /\ want' = [want EXCEPT ![r] =
                [file |-> f, exclusive |-> x, opened |-> f \in exists']]
  /\ attempts' = [attempts EXCEPT ![r] = 0]
  /\ UNCHANGED <<objects, handles, flocks, throwing>>

(* lock() with no handle on the file yet calls file_lock, which opens the  *)
(* file: mode w creates it, mode r fails when it is not there.             *)
BeginFileLock(r, f, x) ==
  /\ Running(r)
  /\ ~IsSet(r, f)
  /\ exists' = IF x THEN exists \union {f} ELSE exists
  /\ want' = [want EXCEPT ![r] =
                [file |-> f, exclusive |-> x, opened |-> f \in exists']]
  /\ attempts' = [attempts EXCEPT ![r] = 0]
  /\ UNCHANGED <<objects, handles, flocks, throwing>>

(* lock() on a file the request has locked already: no system call at all. *)
LockAgain(r, f, x) ==
  /\ Running(r)
  /\ IsSet(r, f)
  /\ x => handles[r][f].exclusive
  /\ Live(r, f) < MaxObjects
  /\ handles' = [handles EXCEPT ![r][f] = Incremented(@)]
  /\ objects' = [objects EXCEPT ![r][f] = OneMore(@, x)]
  /\ UNCHANGED <<flocks, exists, want, attempts, throwing>>

(* lock() refuses an exclusive lock on top of the request's shared one. *)
LockRefused(r, f) ==
  /\ Running(r)
  /\ IsSet(r, f)
  /\ ~handles[r][f].exclusive
  /\ throwing' = throwing \union {r}
  /\ UNCHANGED <<objects, handles, flocks, exists, want, attempts>>

(* One turn of file_lock's loop in which flock succeeds; lock() then       *)
(* records the handle and the constructor returns the new object.          *)
FlockGranted(r) ==
  /\ want[r] # None
  /\ LET f == want[r].file
         x == want[r].exclusive
     IN /\ want[r].opened
        /\ Compatible(f, x)
        /\ flocks' = [flocks EXCEPT ![f] = FlockAdd(@, r, x)]
        /\ handles' = [handles EXCEPT ![r][f] = [count |-> 1, exclusive |-> x]]
        /\ objects' = [objects EXCEPT ![r][f] = OneMore(@, x)]
  /\ want' = [want EXCEPT ![r] = None]
  /\ attempts' = [attempts EXCEPT ![r] = 0]
  /\ UNCHANGED <<exists, throwing>>

(* flock fails and there is time left: sleep and try again. *)
FlockRetry(r) ==
  /\ want[r] # None
  /\ want[r].opened => ~Compatible(want[r].file, want[r].exclusive)
  /\ attempts[r] < MaxAttempts
  /\ attempts' = [attempts EXCEPT ![r] = @ + 1]
  /\ UNCHANGED <<objects, handles, flocks, exists, want, throwing>>

(* Mutant of FlockTimeout: the deadline is never reached. *)
FlockTimeoutNever(r) ==
  /\ want[r] # None
  /\ attempts[r] > MaxAttempts
  /\ want' = [want EXCEPT ![r] = None]
  /\ attempts' = [attempts EXCEPT ![r] = 0]
  /\ throwing' = throwing \union {r}
  /\ UNCHANGED <<objects, handles, flocks, exists>>

(* The time is up after a failed attempt: file_lock throws. *)
FlockTimeout(r) ==
  /\ want[r] # None
  /\ attempts[r] > 0
  /\ want' = [want EXCEPT ![r] = None]
  /\ attempts' = [attempts EXCEPT ![r] = 0]
  /\ throwing' = throwing \union {r}
  /\ UNCHANGED <<objects, handles, flocks, exists>>

(* Mutants of Unlock: a destructor runs twice; the flock goes with the     *)
(* first object; it never goes, the count being tested before it is        *)
(* decremented; the handle falls back to a shared lock when the last       *)
(* exclusive object goes.                                                  *)
UnlockTwice(r, f, x) ==
  /\ want[r] = None
  /\ Live(r, f) = 0 \/ Alive(objects[r][f], x)
  /\ objects' = [objects EXCEPT ![r][f] = OneLess(@, x)]
  /\ handles' = [handles EXCEPT ![r][f] = Decremented(@)]
  /\ flocks' = IF handles[r][f].count = 1
                 THEN [flocks EXCEPT ![f] = FlockDrop(@, r)]
                 ELSE flocks
  /\ UNCHANGED <<exists, want, attempts, throwing>>

UnlockUncounted(r, f, x) ==
  /\ want[r] = None
  /\ Alive(objects[r][f], x)
  /\ objects' = [objects EXCEPT ![r][f] = OneLess(@, x)]
  /\ handles' = [handles EXCEPT ![r][f] = Unset]
  /\ flocks' = [flocks EXCEPT ![f] = FlockDrop(@, r)]
  /\ UNCHANGED <<exists, want, attempts, throwing>>

UnlockOffByOne(r, f, x) ==
  /\ want[r] = None
  /\ Alive(objects[r][f], x)
  /\ objects' = [objects EXCEPT ![r][f] = OneLess(@, x)]
  /\ handles' = [handles EXCEPT ![r][f] =
                   IF @.count = 0 THEN Unset
                   ELSE [count |-> @.count - 1, exclusive |-> @.exclusive]]
  /\ flocks' = IF handles[r][f].count = 0
                 THEN [flocks EXCEPT ![f] = FlockDrop(@, r)]
                 ELSE flocks
  /\ UNCHANGED <<exists, want, attempts, throwing>>

UnlockDowngrades(r, f, x) ==
  /\ want[r] = None
  /\ Alive(objects[r][f], x)
  /\ objects' = [objects EXCEPT ![r][f] = OneLess(@, x)]
  /\ handles' = [handles EXCEPT ![r][f] =
                   IF @.count = 1 THEN Unset
                   ELSE [count |-> @.count - 1,
                         exclusive |-> objects'[r][f].exclusive > 0]]
  /\ flocks' = [flocks EXCEPT ![f] =
                  IF handles[r][f].count = 1 THEN FlockDrop(@, r)
                  ELSE FlockAdd(FlockDrop(@, r), r, objects'[r][f].exclusive > 0)]
  /\ UNCHANGED <<exists, want, attempts, throwing>>

(* A repository object's destructor: unlock() with the object's handle. *)
Unlock(r, f, x) ==
  /\ want[r] = None
  /\ Alive(objects[r][f], x)
  /\ objects' = [objects EXCEPT ![r][f] = OneLess(@, x)]
  /\ handles' = [handles EXCEPT ![r][f] = Decremented(@)]
  /\ flocks' = IF handles[r][f].count = 1
                 THEN [flocks EXCEPT ![f] = FlockDrop(@, r)]
                 ELSE flocks
  /\ UNCHANGED <<exists, want, attempts, throwing>>

(* The exception is caught, below the entry point or at it: the objects of *)
(* the frames it left are gone, others may live on.                        *)
Caught(r) ==
  /\ r \in throwing
  /\ throwing' = throwing \ {r}
  /\ UNCHANGED <<objects, handles, flocks, exists, want, attempts>>

(* The process is killed: the operating system closes its files. *)
Killed(r) ==
  /\ objects' = [objects EXCEPT ![r] = [f \in LockFile |-> NoObjects]]
  /\ handles' = [handles EXCEPT ![r] = [f \in LockFile |-> Unset]]
  /\ flocks' = [f \in LockFile |-> FlockDrop(flocks[f], r)]
  /\ want' = [want EXCEPT ![r] = None]
  /\ attempts' = [attempts EXCEPT ![r] = 0]
  /\ throwing' = throwing \ {r}
  /\ UNCHANGED exists

FileLockStep(r) == FlockGranted(r) \/ FlockRetry(r) \/ FlockTimeout(r)

Next ==
  \E r \in Request :
    \/ FileLockStep(r)
    \/ Caught(r)
    \/ Killed(r)
    \/ \E f \in LockFile :
         \/ LockRefused(r, f)
         \/ \E x \in BOOLEAN :
              BeginFileLock(r, f, x) \/ LockAgain(r, f, x) \/ Unlock(r, f, x)

(* The polling loop of file_lock keeps running: nothing in it blocks. *)
Fairness == \A r \in Request : WF_vars(FileLockStep(r))

Spec == Init /\ [][Next]_vars /\ Fairness

-----------------------------------------------------------------------------
(* Properties *)

Holders(f) == flocks[f].shared \union flocks[f].exclusive

(* While a request has a live GitRepository on a file (an exclusive lock)  *)
(* no other request has a live repository object on it, read-only ones     *)
(* included: what __construct and __destruct of git.php rely on.           *)
Exclusion ==
  \A r, s \in Request, f \in LockFile :
    r # s /\ objects[r][f].exclusive > 0 => Live(s, f) = 0

(* The handle table, the operating system and the objects agree: a request *)
(* holds the flock exactly while one of its objects lives (nothing leaks,  *)
(* nothing is used after its release), exclusively if an object asked so.  *)
LocksMatchObjects ==
  \A r \in Request, f \in LockFile :
    /\ handles[r][f].count = Live(r, f)
    /\ r \in Holders(f) <=> Live(r, f) > 0
    /\ objects[r][f].exclusive > 0 => r \in flocks[f].exclusive

(* "allowing multiple objects to get their own locks on the same file      *)
(* without deadlocking internally": no request waits for its own flock.    *)
NoSelfDeadlock ==
  \A r \in Request : want[r] # None => r \notin Holders(want[r].file)

(* Readers come and go and may keep a writer out for ever, and nothing     *)
(* orders the locks of a master and a clone: every file_lock call ends all *)
(* the same, with the lock or with an exception.                           *)
EveryWaitEnds ==
  \A r \in Request : want[r] # None ~> want[r] = None

(* What a request owns, as its objects see it. *)
Owned ==
  [r \in Request |-> [f \in LockFile |->
     IF Live(r, f) = 0 THEN "none"
     ELSE IF r \in flocks[f].exclusive THEN "exclusive" ELSE "shared"]]

RW == INSTANCE RWLock WITH mode <- Owned

(* The handler implements the readers-writer lock of RWLock. *)
ImplementsRWLock == RW!RWSpec

-----------------------------------------------------------------------------
(* The inductive invariant behind Exclusion, LocksMatchObjects and         *)
(* NoSelfDeadlock.  Each part relates two of: objects, table, system.      *)

CountInv ==
  \A r \in Request, f \in LockFile :
    /\ handles[r][f].count = Live(r, f)
    /\ objects[r][f].exclusive > 0 => handles[r][f].exclusive
    /\ handles[r][f].count = 0 => ~handles[r][f].exclusive

TableInv ==
  \A r \in Request, f \in LockFile :
    /\ r \in flocks[f].exclusive <=> handles[r][f].exclusive
    /\ r \in flocks[f].shared <=> IsSet(r, f) /\ ~handles[r][f].exclusive

SystemInv ==
  \A f \in LockFile, r, s \in Request :
    r \in flocks[f].exclusive /\ s \in Holders(f) => r = s

WaitInv == \A r \in Request : want[r] # None => ~IsSet(r, want[r].file)

IInv == TypeOK /\ CountInv /\ TableInv /\ SystemInv /\ WaitInv
=============================================================================
