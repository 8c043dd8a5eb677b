CONSTANTS
  Producer = {p1, p2}
  NoOwner = NoOwner
  Kind <- TokenKinds
  MaxMsgs = 2
SPECIFICATION FairSpec
INVARIANTS
  TakenInOrder
  NeverSleepsOnMsg
  AtMostOneAfterStop
PROPERTIES
  EveryMsgTaken
  DestructorReturns
