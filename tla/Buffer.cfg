\* A vector of four bytes with a header's room of two, strings of up to three:
\* they fit, fill the vector, make the bytes move or make it grow, and a read
\* may fill the vector and all of the second area.
\* A failed read ends the process: nothing can be done after it.
CONSTANTS
    Cheap = 2
    InitialSize = 2
    Extra = 2
    Byte = {0, 1}
    MaxChunk = 3
    MaxReadable = 4
SPECIFICATION Spec
INVARIANTS NeverOutgrows
PROPERTIES QueueSpec
CHECK_DEADLOCK FALSE
