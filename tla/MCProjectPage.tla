--------------------------- MODULE MCProjectPage ---------------------------
(* The smallest server with everything that matters: a name used by both   *)
(* teams, a team with one project and one with two, a project that can be  *)
(* exported and one that cannot.                                           *)
EXTENDS ProjectPage, TLC

CONSTANTS t1, t2, proj1, proj2, robot, lib

MCFirstRepo ==
    (t1 :> (proj1 :> <<{robot, lib}>> @@ proj2 :> <<{lib}>>))
    @@ (t2 :> (proj1 :> <<{robot}>> @@ proj2 :> <<>>))

============================================================================
