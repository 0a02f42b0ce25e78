SPECIFICATION FairSpec
CONSTANT MaxQueue = 2
INVARIANTS TypeOK NotStuck LabelHonest
PROPERTIES NothingUnheard ConnectEnds Heard
