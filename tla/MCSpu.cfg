SPECIFICATION Spec
CONSTANTS
    Voices <- MCVoices
    SoundRamSize = 24
    Programs <- MCPrograms
    Pitches <- MCPitches
    Addresses <- MCAddresses
    AdsrLows <- MCLows
    AdsrHighs <- MCHighs
    Volumes <- MCVolumes
    Words <- MCWords
    MaxWrites = 2
INVARIANTS TypeOK ReadsStayInside
PROPERTIES EnvelopeFollowsPhase NotesEnd
CHECK_DEADLOCK FALSE
