SPECIFICATION Spec
CONSTANTS
    Buffers = {b1, b2}
    Objects = {o1}
    SlotCount = 2
    SlotRecords = 5
    GenerationSlots = 1
    MaxSequence = 3
    MaxCommands = 2
    Applications <- MCApplications
    None = None
INVARIANTS SlotsAccounted RunsWhatWasRecorded DirectStaysInRecording NoDoubleReplay
PROPERTIES ReplaysOnlyValid
SYMMETRY Symmetry
CHECK_DEADLOCK FALSE
