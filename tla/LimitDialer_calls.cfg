SPECIFICATION LiveSpec
CONSTANTS
  OurId <- MyId
  PeerIds <- Ids
  Relays <- RelayOf
  Ours <- Mine
  Calls = {c1, c2, c3}
  Peers = {p1, p2}
  PerPeerLimit = 2
  Handled <- Filtered
  AddressLists <- Lists
  None = None
CHECK_DEADLOCK FALSE
INVARIANTS TypeOK OneTaskEach AnswersTell ConnectedByAnAnswer SelfIsNeverDialed
PROPERTY EveryDialIsAnswered
