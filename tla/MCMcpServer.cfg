SPECIFICATION Spec
CONSTANTS
    Instances = {i1, i2}
    Calls = {c1, c2}
    Asks <- MCAsks
    None = None
INVARIANTS
    TypeOK
    AnswersTruthful
    OneProcessServes
PROPERTIES
    CallsSettle
