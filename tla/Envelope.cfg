SPECIFICATION FairSpec
CONSTANTS
    Peak = 3
    Fine = 2
    Rates <- MCRates
    Levels <- MCLevels
INVARIANT UnderItsPeak
PROPERTY StagesEnd
