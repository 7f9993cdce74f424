SPECIFICATION FairSpec
CONSTANTS
    a1 = a1  a2 = a2
    Agents = {a1, a2}
    Kinds = {"Service"}
    MaxEvents = 3
INVARIANT TypeOK
INVARIANT SubjectsSettled
INVARIANT ObjectsSettled
PROPERTY ComesToRest
CHECK_DEADLOCK FALSE
