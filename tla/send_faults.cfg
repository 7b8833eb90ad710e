SPECIFICATION FairSpec
CONSTANTS
  imported = imported
  payment = payment
  campaign = campaign
  request = request
  w1 = w1
  w2 = w2
  None = None
  Jobs = {imported, payment, campaign, request}
  WithCase = {payment, campaign}
  Workers = {w1, w2}
  Reports = {"sent", "failed"}
  FormOf <- Forms
  AttemptsOf <- Tries
  Mixes <- Together
CHECK_DEADLOCK FALSE
INVARIANTS
  TypeOK
  LogIsTrue
  CopiesNeedCause
  AnswersAreTrue
  LogAgrees
PROPERTIES
  ImplementsDelivery
  JobsSettle
