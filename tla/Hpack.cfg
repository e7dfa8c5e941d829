SPECIFICATION MCSpec
CONSTANTS
    NameLen <- MCNameLen
    ValueLen <- MCValueLen
    Hash <- MCHash
    RawCap = 4
    Width = 8
    None = None
    Blocks <- MCBlocks
    Sizes = {0, 2, 5}
    MaxTable = 4
    Symbols <- MCSymbols
INVARIANTS
    DecodesAsEncoded
    IndexSound
    DecodesTheCode
    RoundTrip
CHECK_DEADLOCK FALSE
