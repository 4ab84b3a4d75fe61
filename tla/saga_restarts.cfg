SPECIFICATION FairSpec
CONSTANTS
  Poster = {g1, g2}
  None = None
  Text = {"flood", "fire"}
  Report <- Reports
  MaxId = 4
  Ops = {"Create", "Post", "Status", "Edit", "Delete", "DeleteRow"}
  PutStatus = {"ACTIVE", "RESOLVED"}
  Faults = {"slow", "down", "restart"}
INVARIANTS IncidentTypeOK SequenceAhead CreatedIsAnnounced RowNamesItsIncident
PROPERTIES CreateAnswered AlertTellsReport
CHECK_DEADLOCK FALSE
