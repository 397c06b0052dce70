SPECIFICATION Spec
CONSTANTS
    VoiceCount = 2
    Period = 5
    Depth = 2
    Peak = 1
    Values <- MCValues
    Commands <- MCCommands
INVARIANTS NoRace LandsInItsSample MixesEveryVoice
PROPERTY IsSampleEngine
