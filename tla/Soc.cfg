SPECIFICATION SocSpec
CONSTANTS
    MemWords = 3
    AddressBytes = 1
    CountBytes = 1
    WordBytes = 2
    Radix = 9
    MaxLoadWords = 2
    Images <- SomeImages
    Places = {0, 4}
    Marks = 2
    Gap = 3
INVARIANTS AnsweredSoon WrittenWhole StartsClean ReadsEachWord
PROPERTY IsAtomicMemory
