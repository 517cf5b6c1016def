CONSTANTS
    Capacity = 9
    Menus <- MCMenus
    TemplateSlots = 1
    SwapchainSlots = 2
    ChainImages = 2
SPECIFICATION Spec
INVARIANTS
    ClientMirrors
    TableIsExact
    DiesInOrder
    RequestsAccepted
CHECK_DEADLOCK FALSE
