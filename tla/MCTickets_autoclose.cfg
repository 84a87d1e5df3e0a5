\* Two requests at a time on two tickets while two copies of the task run.
CONSTANTS
  Workers = {w1, w2}
  Tasks = {c1, c2}
  TicketIds = {t1, t2}
  BATCH_SIZE = 2
  MaxRequests = 3
  MaxFaults = 1
  None = None
SPECIFICATION FairSpec
CHECK_DEADLOCK FALSE
INVARIANTS
  TicketsTypeOK
  ClosingsAreRecorded
PROPERTIES
  ClosedForSilence
  AnswerBeatsAutoClose
  AbandonedTicketsClose
