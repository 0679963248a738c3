CONSTANTS
    t1 = t1  t2 = t2
    proj1 = proj1  proj2 = proj2
    robot = robot  lib = lib
    Teams = {t1, t2}
    Projects = {proj1, proj2}
    Files = {robot, lib}
    Robot = robot
    None = None
    FirstRepo <- MCFirstRepo
    MaxEvents = 3
    MaxTimers = 1
SPECIFICATION Spec
INVARIANTS
    TypeOK
    Agreement
    SelectionListed
    ListingShown
    ListCurrent
    ExportsWhatWasChecked
    NoCommitMissed
CHECK_DEADLOCK FALSE
