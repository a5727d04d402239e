SPECIFICATION Spec
CONSTANTS
  MAX_BOOK_NUM = 3
  MAX_SHELF_NUM = 2
  Unreliable = TRUE
  i1 = i1
  s1 = s1
  BookInfo <- MCBookInfo
  ShelfInfo <- MCShelfInfo
INVARIANTS TypeOK NumbersDense RefusedOnlyWhenFull
PROPERTIES InsertPlacesOneRow ShelvesImplementIdPool
