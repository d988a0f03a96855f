SPECIFICATION Spec
CONSTANTS
  t1 = t1
  t2 = t2
  t3 = t3
  t4 = t4
  none = none
  Topics = {t1, t2, t3, t4}
  NoTopic = none
  MaxMsgId = 2
  Transport = "datagram"
  Ordered = FALSE
  SendMayFail = FALSE
  Budget <- MCBudgetWrap
  SubTopics = {t1}
  PubTopics = {t2}
  AppQos <- Qos
  ConnectsFirst = TRUE
  PrematureTimeout = FALSE
  FlagsCleared = TRUE
  TopicIdOf <- MCTopicIdOf
  ConnackCodes = {"ACCEPTED"}
  AckCodes = {"ACCEPTED", "REJECTED_CONGESTION"}
INVARIANTS
  TypeOK
  ConnectSurvivesOneLoss
CHECK_DEADLOCK FALSE
