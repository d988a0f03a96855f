SPECIFICATION Spec
CONSTANTS
  t1 = t1
  t2 = t2
  t3 = t3
  t4 = t4
  none = none
  Topics = {t1, t2, t3, t4}
  NoTopic = none
  MaxMsgId = 15
  Transport = "datagram"
  Ordered = FALSE
  SendMayFail = FALSE
  Budget <- MCBudgetDelivery
  SubTopics = {t1, t2}
  PubTopics = {t3, t4}
  AppQos = {0}
  ConnectsFirst = TRUE
  PrematureTimeout = FALSE
  FlagsCleared = FALSE
  TopicIdOf <- MCTopicIdOf
  ConnackCodes = {"ACCEPTED"}
  AckCodes = {"ACCEPTED", "REJECTED_CONGESTION"}
INVARIANTS
  SubscribedIdIsGateways
  CallbackNamesTopic
  PublishCarriesOwnTopic
CHECK_DEADLOCK FALSE
