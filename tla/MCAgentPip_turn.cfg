SPECIFICATION Spec
CONSTANTS
  Tasks = {"t1"}
  Statuses = {"todo", "doing"}
  Leads <- MCLeads
  Members = {"pip"}
  Gone = Gone
  Nobody = Nobody
  Malformed = Malformed
  Changes <- MCChanges
  Boards <- MCBoards
  Providers = {"openai", "anthropic"}
  Replies <- MCReplies
  NotJson = NotJson
  Queries <- MCQueries
  MaxRounds = 2
  MaxAttempts = 2
  MaxActions = 2
  MaxRequests = 1
  MaxActs = 1
INVARIANTS
  TypeOK
  CallsAnswered
PROPERTIES
  ToldIsOffered
  AppliedAsAsked
  OnlyChosenActions
  RequestsAnswered
CHECK_DEADLOCK FALSE
