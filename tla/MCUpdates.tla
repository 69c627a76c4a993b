------------------------------ MODULE MCUpdates ------------------------------
EXTENDS Updates

Two == {2}
Disk == {"disk"}
Either == {"gui", "agent"}
Both == BOOLEAN
==============================================================================
