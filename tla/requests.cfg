\* Every request, body, command and page of MCRequests.
SPECIFICATION RequestSpec
CONSTANTS
  HttpRequest <- MCHttpRequest
  Decoded <- MCDecoded
  Number <- MCNumber
  Malformed = Malformed
  JsonValue <- MCJsonValue
  Kind = {"string", "status", "number", "boolean", "object", "null"}
  QueueMethod = {"add", "pause", "resume", "getJobs", "getJobCounts", "getWorkers", "getJobLogs", "updateJobProgress", "addJobLog"}
  List <- MCList
  Start <- MCStart
  Length <- MCLength
  Limit = 3
  NaN = NaN
INVARIANTS
  RoutingIsSound
  
  PagesCoverLists
  OutcomeIsTold
CHECK_DEADLOCK FALSE
