SPECIFICATION Spec
CONSTANTS
  Layouts <- MCLayouts
  Terms <- MCTerms
  VertSplitOff = 11
INVARIANTS
  CanvasInView
  CanvasReachable
  ClickSelectsShown
