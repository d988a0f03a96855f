SPECIFICATION FairSpec
CONSTANTS
  t1 = t1
  t2 = t2
  t3 = t3
  t4 = t4
  none = none
  Topics = {t1, t2, t3, t4}
  NoTopic = none
  MaxMsgId = 2
  Transport = "datagram"
  Ordered = FALSE
  SendMayFail = FALSE
  Budget <- MCBudgetReliable
  SubTopics = {t1, t2}
  PubTopics = {t2, t3}
  AppQos <- MCQosWithoutPuback
  ConnectsFirst = TRUE
  PrematureTimeout = FALSE
  FlagsCleared = TRUE
  TopicIdOf <- MCTopicIdOf
  ConnackCodes <- ReturnCodes
  AckCodes = {"ACCEPTED"}
INVARIANTS
  AwaitsWhatIsInFlight
  SessionAgrees
PROPERTIES
  CallsReturn
  KeepAliveAnswered
  ExchangesOneAtATime
CHECK_DEADLOCK FALSE
