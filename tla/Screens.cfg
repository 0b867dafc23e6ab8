SPECIFICATION Spec
CONSTANTS
    Height = 16
    Window = 1
    StarWindow = 2
    MaxLog = 2
    MaxSteps = 3
    CliStyles = {"claude", "themed", "bright", "dim"}
INVARIANTS SnapshotIsScreen WorkIsShown OptionsAreOneRun
CHECK_DEADLOCK FALSE
