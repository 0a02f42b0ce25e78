SPECIFICATION FairSpec
PROPERTY StopHonoured
