CONSTANTS
  Capacity = 12
  Width = 4
  IPv4Size = 2
  IPv6Size = 3
  Messages <- MCMessages
  Family = {"AF_INET", "AF_INET6", "AF_UNSPEC"}
SPECIFICATION Spec
CHECK_DEADLOCK FALSE
INVARIANTS
  PTypeOK
  ParsedAsGrammar
  NoCompleteMessageWaits
  StreamTiled
