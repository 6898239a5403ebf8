SPECIFICATION FirstVisitSpec
CONSTANTS
  Forms = {f1}
  Blank = Blank
  NoRow = NoRow
  f1 = f1
  MaxAsked = 2
PROPERTIES CompleteFormIsSaved
CHECK_DEADLOCK FALSE
