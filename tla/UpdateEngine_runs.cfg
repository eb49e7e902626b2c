\* Two runs over repositories of every form of constraint and strategy.
SPECIFICATION Spec
CONSTANTS
    a = a
    r1 = r1
    r2 = r2
    None = None
    Runs = {r1, r2}
    Paths <- ThePaths
    Names = {a}
    Versions <- AllVersions
    Repositories <- TheRepositories
    FirstReleases <- First
    Constraints <- PushedConstraints
    MaxReleases = 2
    MaxFailures = 1
SYMMETRY Symmetry
INVARIANTS
    Converges
    RewritesAreSound
    EditsAreTheUpdates
    LoneRunProposesItsUpdates
