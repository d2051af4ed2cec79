SPECIFICATION Spec
CONSTANTS
    Hosts = {h1}
    Jobs = {j1, j2}
SYMMETRY Symmetry
INVARIANTS
    TypeOK
    WorkIsProtected
    LossReachesTasks
    NothingLeaks
    NoStrayTasks
    MarksAreTrue
CHECK_DEADLOCK FALSE
