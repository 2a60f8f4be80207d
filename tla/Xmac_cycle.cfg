SPECIFICATION FairSpec
CONSTANT Turns = 3
INVARIANTS TypeOK CycleGoesOn RadioFollows
PROPERTY DutyCycle
