SPECIFICATION Spec
CONSTANTS
    MaxCollectionItems = 1
    PageKinds = {"character", "theme"}
    Sources <- MCSources
    Tray = {"model_instructions", "custom_block"}
    Retags = {"", "system_prompt"}
    SavedWidths = {"third", "wide"}
    MaxEdits = 3
INVARIANTS PageSound FloorCanBeMet
PROPERTY AllOrNothing
