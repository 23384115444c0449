CONSTANTS
  N = 3  Here = {2, 3}  Hits = {1, 2}  Current = 2
  Saved <- MCSaved
  Loader = Loader  Renderer = Renderer  Enricher = Enricher  Warmer = Warmer  None = None
  Budgets <- Selectors
SPECIFICATION FairSpec
CHECK_DEADLOCK FALSE
INVARIANTS TypeOK SelectionInRange WhatIsShown
PROPERTIES SelectorSettles
