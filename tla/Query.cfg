SPECIFICATION Spec
CONSTANTS
    Pools <- TwoPools
    Epochs <- TheEpochs
    Slots <- TheSlots
    RegisteredAt <- EarlyAndLate
    Members <- Joined
    MaxFaults = 2
INVARIANTS DoneIsStoredOrSaid StakeOfItsEpochOrLater NoStakeBeforeEpoch405
PROPERTIES NodeEpochReached
CHECK_DEADLOCK FALSE
