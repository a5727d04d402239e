SPECIFICATION Spec
CONSTANTS
  MAX_BOOK_NUM = 4
  MAX_SHELF_NUM = 1
  DEFAULT_FINDS = 3
  PAD_BOXED_HIGHT = 2
  MaxCache = 4
  Faults = TRUE
  Others = {2, 4}
INVARIANTS AlignedRowIsBook SliderOnRow Ascending AllListed ListingOfQuery
CONSTRAINT StillAligned
VIEW InFront
