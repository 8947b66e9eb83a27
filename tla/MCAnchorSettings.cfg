CONSTANTS
    folder = folder
    repo = repo
    sub = sub
    Place = {folder, repo, sub}
    Above <- MCAbove
    Top <- MCTop
    NoRepository = NoRepository
    Absent = Absent
    Malformed = Malformed
    Dolt = {repo}
    Plan = {"a"}
    Proc = {p1, p2}
    Budget = 4
SPECIFICATION Spec
INVARIANTS
    SerialAnswersHold
    ConsentIsNeverInferred
CHECK_DEADLOCK FALSE
