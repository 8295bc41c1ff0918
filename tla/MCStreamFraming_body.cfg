\* A length field under the default, include_header off.
CONSTANTS
  Clients = {c1}
  Rules <- BodyOnly
  Payloads <- PayloadsOf
  Capacity = 2
  MaxMessages = 2
  MaxChunk = 9
SPECIFICATION StreamSpec
CHECK_DEADLOCK FALSE
INVARIANTS
  EveryFrameWasSent
