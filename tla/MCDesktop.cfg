CONSTANT MaxCommands = 3
SPECIFICATION DesktopSpec
INVARIANTS ClosedLeavesNothing
PROPERTIES CommandsComeBack ExitFollowsWork CreatedIsRun
CHECK_DEADLOCK FALSE
