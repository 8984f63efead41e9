SPECIFICATION Spec
CONSTANTS
    in = in  out = out
    None = None  BadText = BadText  Garbage = Garbage  Refused = Refused
    Dirs <- MCDirs
    Names <- MCNames
    KeyOf <- MCKeyOf
    SeedUrls <- MCSeedUrls
    Strings <- MCStrings
    Texts <- MCTexts
    Dates = {0, 5}
    DefaultDir = out
    Starts <- MCStarts
    DefaultRows <- MCDefaultRows
    Opened <- MCOpened
    Typed <- MCTyped
    Urls = {"u"}
    CliCommands <- MCCliCommands
    MaxSteps = 3
INVARIANT ClearedSeedsAreGone
CHECK_DEADLOCK FALSE
