SPECIFICATION Spec
CONSTANTS
    c1 = c1   gui = gui  cwd = cwd  user = user
    None = None
    Clis <- MCClis
    Gui = gui
    SearchPath <- MCSearchPath
    UserPath = user
    Names <- MCNames
    Texts <- MCTexts
    Starts <- MCStarts
    Commands <- MCCommands
    GuiCommands <- MCGuiCommands
    Typed <- MCTyped
    MaxSteps = 2
INVARIANTS IInv FrontendsAgree
PROPERTIES WritesWhatWasAsked
CHECK_DEADLOCK FALSE
