CONSTANTS
  Programs = {"producer", "consumer"}
  Set = {"payload_size", "report_interval"}
  Words = {"4K", "0"}
  MaxItems = 3
  None = None
SPECIFICATION Spec
INVARIANT MeaningKept
INVARIANT StartsAsMeant
CHECK_DEADLOCK FALSE
