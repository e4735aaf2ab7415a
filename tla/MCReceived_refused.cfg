SPECIFICATION ReceivedSpec
CONSTANTS
    NetworkTexts <- Typed
    Numbers = {51821}
    Hosts = {"name"}
    InterfaceNames = {"wg1"}
    Keys = {"canonical"}
    Shapes <- OneShape
    MaxChanges = 2
INVARIANT GeneratedIsAccepted
CHECK_DEADLOCK FALSE
