SPECIFICATION Spec
CONSTANTS
  Unset = Unset
  Text = Text
  WebURL = WebURL
  Actor = Actor
  Refused = Refused
  Choices <- MCChoices
  MaxEdits = 5
INVARIANTS
  RadiusAsRequested
  StrayIgnored
  RunsOnlyDocumented
