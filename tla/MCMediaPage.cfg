SPECIFICATION Spec
CONSTANTS
  Pristine = Pristine
  Elsewhere = Elsewhere
  Cards = {c1, c2, c3}
  Texts = {t1}
  Budgets <- MCBudgets
SYMMETRY Symmetry
INVARIANTS StoredOnceUnlessExcused GalleryMatchesRowsUnlessRaced NoSilentUndo
CHECK_DEADLOCK FALSE
