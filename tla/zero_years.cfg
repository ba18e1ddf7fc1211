SPECIFICATION MCSpec
CONSTANTS
    Subjects = {"v2"}
    Hosts = {h1, h2}
    Routes = {"other"}
    Limit <- Limits
    WindowSeconds = 2
    Ticks = 2
    FailClosed = TRUE
    Horizon = 9
    BodyLimit = 2
    MultipartLimit = 5
    Sizes = {0, 1, 2, 3, 6}
    Calls = {c1, c2}
    Parts <- ShortParts
    MaxPages = 3
    MaxCharacters = 5
    Recommended = 3
    SkillWords = {"python"}
    OtherKeywords = {"security"}
    Degrees = {"bachelor", "master"}
    Years = {0, 1, 8}
    Ids = {1, 2, 3}
    Names = {"Docker", "CSharp", ""}
    Priorities = {1, 100}
    Rows = {1, 2, 3}
    Places = {1, 2}
    PageLimit = 1
    MaxMoves = 2
INVARIANTS
    ScoresInRange
CHECK_DEADLOCK FALSE
