CONSTANTS
    Cap = 3
    Counts = {1, 3}
    MaxBytes = 3
    Copies = FALSE
SPECIFICATION PipeSpec
CHECK_DEADLOCK FALSE
PROPERTIES EofAfterAllBytes
