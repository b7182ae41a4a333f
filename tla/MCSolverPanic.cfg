SPECIFICATION Spec
CONSTANTS
  Width <- NarrowWidths
  Programs <- Branching
INVARIANTS NoBorrowPanic
