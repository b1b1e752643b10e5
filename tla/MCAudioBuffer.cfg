SPECIFICATION FairSpec
CONSTANTS
    BUFFER_SIZE = 6
    VSTASKBUF = 2
    RECEIVE = 2
    SDI_BURST = 2
    StreamLen = 8
INVARIANTS RingHoldsStream DecoderHearsStream WaitsOnlyWhilePlaying
PROPERTIES PipeSpec ChunkIsStored BytesAreHeard
