SPECIFICATION Spec
CONSTANTS
    Words <- SomeWords
    Value <- Values
    Unfit = {"huge"}
    Special = {"don't", "-2"}
    Nicknames <- SomeNicknames
    MaxWords = 3
CHECK_DEADLOCK FALSE
INVARIANTS WritesSaid CountsAsAsked OneMessage
