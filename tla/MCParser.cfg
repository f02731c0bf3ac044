SPECIFICATION ParserSpec
CONSTANTS
    Openable = {"a"}
    Unopenable = {"x"}
    Lines <- MCLines
INVARIANTS
    ParserTypeOK
    WiresWhatIsWritten
    OpenIsOwned
    FlagsMarkTheirCommand
PROPERTIES
    ReadsTheGrammar
