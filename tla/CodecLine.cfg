CONSTANTS
    Messages <- MCMessages
    Damaged <- MCDamaged
    Capacity = {44, 140}
    MaxHits = 2
    Span = 15
SPECIFICATION CodecSpec
INVARIANT DecodesWhatWasSent
