\* Store: every file, four starts of any releases in any order, crashes anywhere.
\* Key: two first starts race while a third comes later, or all three do.
\* Processes end, so the system may stop.
CONSTANTS
    Releases <- mcReleases
    MaxVersion = 3
    MaxRows = 2
    MaxStarts = 4
    Starts = {a, b, c}
    Missing = Missing
    Broken = Broken
    Operators = Operators
    FromEnv = FromEnv
    MaxLosses = 1
SPECIFICATION StartSpec
SYMMETRY Alike
INVARIANTS VersionNamesSchema MigrationsFit OneKey NoWedge
PROPERTIES RowsSurvive KeyFileKept
CHECK_DEADLOCK FALSE
