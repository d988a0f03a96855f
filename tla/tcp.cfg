SPECIFICATION Spec
CONSTANTS
  t1 = t1
  t2 = t2
  t3 = t3
  t4 = t4
  none = none
  Topics = {t1, t2, t3, t4}
  NoTopic = none
  MaxMsgId = 15
  Transport = "stream"
  Ordered = TRUE
  SendMayFail = TRUE
  Budget <- MCBudgetTcp
  SubTopics = {t1, t3}
  PubTopics = {t2}
  AppQos = {0}
  ConnectsFirst = TRUE
  PrematureTimeout = TRUE
  FlagsCleared = TRUE
  TopicIdOf <- MCTopicIdOf
  ConnackCodes = {"ACCEPTED", "REJECTED_CONGESTION"}
  AckCodes = {"ACCEPTED"}
INVARIANTS
  SubscribedIdIsGateways
CHECK_DEADLOCK FALSE
