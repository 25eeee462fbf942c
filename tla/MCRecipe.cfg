SPECIFICATION RecipeSpec
CONSTANTS
  Sources <- MCSources
  None = None
INVARIANTS
  RecipeTypeOK
  PromiseProven
  ExactStaysExact
