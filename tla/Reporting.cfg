SPECIFICATION Spec
CONSTANTS
  Screens <- MCScreens
  Rules <- MCRules
  Self = Self
  Editor = Editor
  Browser = Browser
  Nothing = Nothing
  NoSample = NoSample
  Untouched = Untouched
  Handlers = {h1, h2}
  Capacity = 1
  MaxEvents = 3
  MaxResends = 1
PROPERTIES
  FeedSpec
  
CHECK_DEADLOCK FALSE
