SPECIFICATION Spec
CONSTANTS
    Tabs = {t1}
    Captures = {c1, c2}
    NoCapture = NoCapture
    MaxBindings = 2
    Documents = {1, 2}
    Addresses = {1, 2}
    MaxPage = 2
    MaxArtifacts = 1
INVARIANTS TypeOK SlotHeld PictureOfItsPage PictureIsClean DeliveredUnderOneBinding
PROPERTY SlotComesBack
CHECK_DEADLOCK FALSE
