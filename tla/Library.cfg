SPECIFICATION LibSpec
CONSTANTS
  MAX_BOOK_NUM = 1
  MAX_SHELF_NUM = 1
  Unreliable = TRUE
  c1 = c1  c2 = c2  nobody = nobody  tag = tag  s1 = s1
  Client <- MCClient
  NoClient = nobody
  Label <- MCLabel
  BookInfo <- MCBookInfo
  ShelfInfo <- MCShelfInfo
  Lossy = TRUE
INVARIANTS NeverBoth CountsAddUp AloneUpToDate AloneNoOrphans
SYMMETRY Clients
VIEW Compared
