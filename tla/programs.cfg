SPECIFICATION Spec
CONSTANTS
  a1 = a1
  a2 = a2
  asserts = asserts
  other = other
  css = css
  role = role
  Author = {a1, a2}
  Asserts = {asserts, other}
  Locators = {css}
  Intent <- Reworded
  Policy <- Unchanged
  MaxRevision = 1
  MaxPreviews = 3
  RestoreAllowed = FALSE
SYMMETRY Symmetry
INVARIANTS
  RepairsFormAChain
  AdmissionsAgree
  ExercisedAsStored
  PromotedUnderItsSeal
