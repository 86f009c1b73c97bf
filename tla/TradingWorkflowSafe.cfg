SPECIFICATION Spec
CONSTANTS
  None = None
  Raised = Raised
  Failed = Failed
  Iso = Iso
  IdOrder <- MCOrder
  MaxAge = 1
  Prices = {1, 2, 3, 4, 5, 6, 7}
  MaxRate = 4
  r1 = r1
  r2 = r2
  Runs = {r1, r2}
  Users = {"ann", "ann:wf_fx"}
  Permitted = {"ann"}
  Offered <- MCOffered
  Registrations <- MCRegistrations
  Descriptions <- MCDescriptions
  CandleAnswers <- MCCandles
  QuoteAnswers <- MCQuotes
  LabAnswers <- MCLab
  InitialEntries <- MCInitial
  Others <- MCOthers
  Join <- MCJoin
  DefaultKey <- MCDefaultKey
  MaxClock = 2
INVARIANTS ExecutedWasChecked RepeatsStageNothing
CHECK_DEADLOCK FALSE
