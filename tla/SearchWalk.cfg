SPECIFICATION Spec
CONSTANTS
  None = None
  Rows = {1, 2, 3}
  Tables <- SmallTables
  Sorts = {"newest", "oldest", "salary_high", "salary_low", "created"}
  Databases = {"sqlite", "postgres"}
  Amounts = {5}
  Asked = {None, 0, 9}
  Far = {3}
  DefaultPerPage = 2
  MaxPerPage = 2
  Width = 8
  MaxChanges = 3
CHECK_DEADLOCK FALSE
INVARIANTS
  TypeOK
  WalkComplete
  NoRepeat
