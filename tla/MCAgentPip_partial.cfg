SPECIFICATION Spec
CONSTANTS
  Tasks = {"t1"}
  Statuses = {"todo", "doing"}
  Leads <- MCLeads
  Members = {"pip"}
  Gone = Gone
  Nobody = Nobody
  Malformed = Malformed
  Changes <- MCChanges
  Boards <- MCBoards
  Providers = {"openai"}
  Replies <- MCReplies
  NotJson = NotJson
  Queries <- MCQueries
  MaxRounds = 1
  MaxAttempts = 1
  MaxActions = 2
  MaxRequests = 1
  MaxActs = 0
PROPERTIES
  RefusedChangedNothing
CHECK_DEADLOCK FALSE
