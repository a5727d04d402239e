CONSTANTS
  MAX_BOOK_NUM = 1
  MAX_SHELF_NUM = 2
  oak = oak  pine = pine  none = none
  ShelfInfo <- MCShelfInfo
  NoShelf = none
SPECIFICATION Spec
INVARIANTS TypeOK CopyComplete CopyExact RecordStored SettledAfterFullSync
PROPERTY LoginSucceeds
