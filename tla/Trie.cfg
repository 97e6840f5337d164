\* Every file of at most three of eight lines.
SPECIFICATION TrieSpec
CONSTANTS
    Alpha = 3
    Texts <- ShortTexts
INVARIANTS
    FoundIsListed
    CollectsHits
