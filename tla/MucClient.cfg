CONSTANTS
  Peers = {alice, bob}
  Anonymous = {bob}
  Nicks = {n1, n2}
  MaxStream = 2
  None = None
SPECIFICATION FairSpec
INVARIANTS
  RoomOutlivesHandler
  MessagesAttributed
  CheckExplained
PROPERTIES
  ConnectReturns
  DisconnectCompletes
