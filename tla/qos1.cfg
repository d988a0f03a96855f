SPECIFICATION FairSpec
CONSTANTS
  t1 = t1
  t2 = t2
  t3 = t3
  t4 = t4
  none = none
  Topics = {t1, t2, t3, t4}
  NoTopic = none
  MaxMsgId = 15
  Transport = "datagram"
  Ordered = FALSE
  SendMayFail = FALSE
  Budget <- MCBudgetPublish
  SubTopics = {t1}
  PubTopics = {t2}
  AppQos = {1}
  ConnectsFirst = TRUE
  PrematureTimeout = FALSE
  FlagsCleared = TRUE
  TopicIdOf <- MCTopicIdOf
  ConnackCodes = {"ACCEPTED"}
  AckCodes = {"ACCEPTED"}
PROPERTIES
  CallsReturn
CHECK_DEADLOCK FALSE
