SPECIFICATION Spec
CONSTANTS
  MAX_BOOK_NUM = 3
  MAX_SHELF_NUM = 1
  DEFAULT_FINDS = 2
  PAD_BOXED_HIGHT = 1
  MaxCache = 3
  Faults = FALSE
  Others = {}
INVARIANT RowIsBook
