SPECIFICATION SSpec
CONSTANTS
  Functions <- AllFunctions
  MaxBorrows = 8
INVARIANT AcceptedIsSafe
