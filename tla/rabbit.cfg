SPECIFICATION Spec
CONSTANTS
  h1 = h1  h2 = h2
  Handlers <- TwoHandlers
  Limits <- ZeroOrTwo
  Backlogs <- JustTwo
INVARIANT TypeOK
INVARIANT Conserved
INVARIANT PeekDistinct
PROPERTY OnlyPostCreates
PROPERTY HeldComesBack
PROPERTY PublishedArrives
CHECK_DEADLOCK FALSE
