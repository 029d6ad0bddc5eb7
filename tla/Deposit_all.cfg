CONSTANTS
  w1 = w1
  t1 = t1
  t2 = t2
  m1 = m1
  WxOrder = {w1}
  Transfer = {t1, t2}
  Manual = {m1}
  PageSize = 1
  MaxFinalizes = 1
  MaxFaults = 1
SPECIFICATION FairSpec
INVARIANTS
  OneCredit
  OneOrder
  CreditedIsPaid
PROPERTIES
  EveryPaymentCredited
  ImplementsCashier
