CONSTANTS
  CatalogPages <- MCCatalogPages
  ItemPages <- MCItemPages
  Enough = 2
SPECIFICATION Spec
INVARIANTS
  PaginationOfOneBanner
  PriceGuideNames
  ColorsComplete
  NoPartsAboveNA
\* The parser returns.
CHECK_DEADLOCK FALSE
