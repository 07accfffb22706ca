CONSTANTS
  s1 = s1  s2 = s2  s3 = s3  t1 = t1  t2 = t2
  Client = {c1, c2}
  Topic = {t1}
  Sub = {s1, s2, s3}
  UpdateTopic = {t1, t2}
  TopicOf <- MCTopicOf
  MaxNotes = 1  MaxErrors = 1
  MaxBlocks = 3
  MaxChanges = 4
SPECIFICATION NotificationsSpec
INVARIANTS SubscribersUpToDate NothingMissed NotificationsInv
PROPERTIES BalanceNeverGoesBack NotificationsLive
CHECK_DEADLOCK FALSE
