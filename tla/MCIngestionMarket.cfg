\* One source, every text, one delivery.
CONSTANTS
    None = None
    Malformed = Malformed
    NoSource = NoSource
    ParserIds = {generic}
    Sources = {s1}
    MessageIds = {m1}
    Versions = {v1}
    Texts <- TypoTexts
    RawHashes = {}
    MaxMessages = 1
SPECIFICATION Spec
SYMMETRY Symmetry
INVARIANTS MarketMeansNoEntry
