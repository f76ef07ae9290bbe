SPECIFICATION PartSpec
CONSTANTS
  Events = {e1, e2, e3}
  Deliveries = {d1, d2}
  TTL = 1
  MaxStore = 1
  MaxTime = 2
  Keys = {k1, k2, k3}
  Handlers = {h1, h2}
  AnswerTTL = 2
  MaxSize = 1
INVARIANTS
  PaymentTypesOK
  OncePerTTL
  OneRunPerAnswer
PROPERTY EventuallyHandled
CHECK_DEADLOCK FALSE
