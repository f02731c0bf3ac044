SPECIFICATION ParserSpec
CONSTANTS
    Openable = {"a"}
    Unopenable = {"x"}
    Lines <- MCLines
INVARIANTS
    FailedRedirectionStopsTheLine
