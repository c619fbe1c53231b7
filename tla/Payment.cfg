SPECIFICATION FairSpec
CONSTANTS
  NoSlot = NoSlot
  NoIntent = NoIntent
  Slots = {s1, s2}
  PayIds = {p1}
  Foreign = {x1}
  Named = {NoIntent, x1}
  Keys = {kc}
  RefundKeys = {k1, k2}
  Methods = {"card", "paypal"}
  Bodies = {"referenced"}
  Referenced = {"referenced"}
  Amount = 3
  RefundAmounts = {2}
  MaxRequests = 3
  MaxFaults = 1
ACTION_CONSTRAINT FirstUnusedKey
CHECK_DEADLOCK FALSE
INVARIANTS KeyRunsOnce LedgerAgrees StatusBacked NoticeLostOnlyByFault
PROPERTY PaidIsRecorded
