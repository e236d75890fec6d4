\* The handlers of the backends, each by itself
SPECIFICATION Spec
CONSTANTS
  Backends = {"bigquery", "athena", "snowflake"}
  MaxRows = {0, 1, 3}
  Totals = {0, 1, 3, 4}
  Polls = 2
  PageCap = 2
  Feeds = {"mqtt", "redis", "kafka", "postgres"}
  LastMessage = 3
  IdleTicks = 2
  Requests = 3
  Partitions = {1, 2}
  Limits = {1, 3, 4}
  Offsets = 3
  Configs <- MCConfigs
  Documents <- MCDocuments
  NoNumber = NoNumber
  Pieces = 2
  Cap = 3
  Wanted <- MCWanted
  Values <- MCValues
  Listing = 2
  MaxKeys = 1
INVARIANTS
  GetLeavesData
  AnswerIsFate
  RowsExact
  GetWriteWarned
  NoSilentOrphan
  TailComplete
  TailTellsEnd
  TopicAnswersTrue
  KafkaAnswersTrue
  SecretsKept
  
  ChatKept
  WireExact
PROPERTY Answered
PROPERTY TailEnds
\* a request ends when it has been answered
CHECK_DEADLOCK FALSE
