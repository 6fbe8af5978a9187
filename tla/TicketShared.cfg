SPECIFICATION Spec
CONSTANTS
  s1 = s1
  s2 = s2
  r1 = r1
  r2 = r2
  NoCard = NoCard
  Seats = {s1, s2}
  Readers = {r1}
  ReaderOf <- SharedReader
  Cards = {c1}
  TicketCards = {c1}
  AccessBits = {"transport", "locked"}
  FactoryBlocks <- MixedBlocks
  INITIAL_BALANCE = 5
  TICKET_PRICE = 2
  UINT16_MAX = 65535
PROPERTIES AccessBitsKept
