SPECIFICATION Spec
CONSTANTS
  MAX_PAGES = 2
  page_size = 6
  Bases = {8, 15, 22}
  Layouts <- MCLayouts
  None = none
INVARIANTS BlocksDisjoint BlocksBacked EmptyHeapIsFresh
PROPERTIES PagesFullBeforeNew
