SPECIFICATION Spec
CONSTANTS
  MaxAssoc = 6
  Statuses = {0, 6}
  Peers <- MCPeers
INVARIANTS TypeOK RowIsJoin RowFits
