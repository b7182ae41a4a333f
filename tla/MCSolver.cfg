SPECIFICATION Spec
CONSTANTS
  Width <- NarrowWidths
  Programs <- MCPrograms
INVARIANTS RefinementsHold OrderIndependent
PROPERTIES KnownIsFinal Terminates
