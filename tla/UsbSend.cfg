SPECIFICATION FairSpec
CONSTANTS
    EpSize = 3
    Banks <- MCBanks
    ReportId = 0
    CdcTexts <- MCCdcTexts
    MidiEvents <- MCMidiEvents
    ReportBodies <- MCReportBodies
INVARIANTS
    StreamsKeptApart
    TransfersEnd
PROPERTIES
    ImplementsReportPipe
    SendReturns
    NothingRests
