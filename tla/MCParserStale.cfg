SPECIFICATION ParserSpec
CONSTANTS
    Openable = {"a"}
    Unopenable = {"x"}
    Lines <- MCLines
PROPERTIES
    AlwaysReadsTheGrammar
