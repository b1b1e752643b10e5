------------------------------- MODULE MCSound -------------------------------
EXTENDS Sound

\* Settings that were saved, and flash that was never written.
Plain == [bass |-> 3, treble |-> 2, bassfreq |-> 6, treblefreq |-> 4, spacial |-> 1,
          vol |-> 100]
Blank == [p \in Param |-> IF p \in {"treble", "treblefreq"} THEN -1 ELSE 255]
SomeBlocks == {Plain, Blank}

\* A number that is cut to a byte; one beyond the limit, and one that is refused.
SomeVolumes  == {100, 300}
SomeRequests == {[bass |-> 20, spacial |-> 2], [treble |-> 260], [bassfreq |-> 1]}
=============================================================================
