SPECIFICATION FairSpec
CONSTANTS
  s1 = s1
  s2 = s2
  r1 = r1
  r2 = r2
  NoCard = NoCard
  Seats = {s1}
  Readers = {r1}
  ReaderOf <- OneReader
  Cards = {c1, c2, c3}
  TicketCards = {c1, c2}
  AccessBits = {"transport"}
  FactoryBlocks <- MixedBlocks
  INITIAL_BALANCE = 5
  TICKET_PRICE = 2
  UINT16_MAX = 65535
INVARIANT FareKept
PROPERTIES TurnstileKeepsUp
