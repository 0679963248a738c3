------------------------------- MODULE RWLock -------------------------------
(***************************************************************************)
(* What the repository code wants of a lock on a repository: while a       *)
(* request owns a repository exclusively no other request owns it at all,  *)
(* any number of requests may share it, and what a request was granted is  *)
(* neither weakened nor strengthened until it has let go of it.            *)
(* LockHandler is shown to implement this specification.                   *)
(***************************************************************************)
CONSTANTS Request,   \* the PHP requests being served
          LockFile   \* the lock files, one per repository

VARIABLE mode        \* mode[r][f]: what request r holds on f

Mode == {"none", "shared", "exclusive"}

RWTypeOK == mode \in [Request -> [LockFile -> Mode]]

RWInit == mode = [r \in Request |-> [f \in LockFile |-> "none"]]

AcquireShared(r, f) ==
  /\ mode[r][f] = "none"
  /\ \A s \in Request : mode[s][f] # "exclusive"
  /\ mode' = [mode EXCEPT ![r][f] = "shared"]

AcquireExclusive(r, f) ==
  /\ \A s \in Request : mode[s][f] = "none"
  /\ mode' = [mode EXCEPT ![r][f] = "exclusive"]

Release(r, f) ==
  /\ mode[r][f] # "none"
  /\ mode' = [mode EXCEPT ![r][f] = "none"]

(* The request is over, or its process died: it owns nothing any more. *)
ReleaseAll(r) == mode' = [mode EXCEPT ![r] = [f \in LockFile |-> "none"]]

RWNext ==
  \E r \in Request :
    \/ ReleaseAll(r)
    \/ \E f \in LockFile :
         AcquireShared(r, f) \/ AcquireExclusive(r, f) \/ Release(r, f)

RWSpec == RWInit /\ [][RWNext]_mode
=============================================================================
