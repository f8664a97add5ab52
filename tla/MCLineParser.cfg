SPECIFICATION ParserSpec
CONSTANT MaxLen = 17
INVARIANTS Recognises ReadAsOneDerivation
