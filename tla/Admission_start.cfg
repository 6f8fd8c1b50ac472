SPECIFICATION FairSpec
CONSTANTS
  first = first
  retry = retry
  reused = reused
  other = other
  key = key
  same = same
  different = different
  NoKey = NoKey
  Nobody = Nobody
  Request = {first, retry, reused, other}
  KeyOf <- MCKeyOf
  BodyOf <- MCBodyOf
  Limited <- MCLimited
  Hosted <- MCHosted
  Limit = 1
CHECK_DEADLOCK FALSE
INVARIANT OneStartPerKey
INVARIANT AnswersAgree
INVARIANT RaceFindsItsBatch
INVARIANT AdmittedWithinLimit
PROPERTY Answered
PROPERTY Promise
