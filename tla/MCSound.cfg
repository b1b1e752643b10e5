SPECIFICATION Spec
CONSTANTS
    Web = {w1, w2}  Ws = {s1}  Console = {c1}
    Blocks <- SomeBlocks  Cold = Cold
    Request <- SomeRequests  Volumes <- SomeVolumes
    POLLS = 1  EVENTS = 3
    Client = Client  None = None
INVARIANTS SettingsAgree FlushUndisturbed
PROPERTY FlushEnds
