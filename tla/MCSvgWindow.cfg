SPECIFICATION PagesSpec
CONSTANTS
  Scenes <- MCScenes
  PageSpecs <- MCPageSpecs
  MaxWindows = 4
INVARIANT
  SvgShowsItsWindow
CHECK_DEADLOCK FALSE
