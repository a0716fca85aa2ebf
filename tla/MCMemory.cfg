SPECIFICATION MemorySpec
CONSTANTS
  Thread = {t1, t2}
  Ranges <- MCRanges
  Pages = 9
  Entries = 2
  PtsPerPage = 3
  UserBase = 6
  Top = 13
  SpMins = {3, 4}
SYMMETRY Symmetry
VIEW View
INVARIANTS
  PagesSound
  TablesSound
PROPERTIES
  ImplementsAddressSpace
