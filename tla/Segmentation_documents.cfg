SPECIFICATION Spec
CONSTANTS
  Formats = {"markdown", "html", "text", "csv"}
  LineKinds <- SomeKinds
  MaxLines = 5
  MaxBlock = 2
  MaxTokens = 6
  HeadingTags = {"h1", "h2"}
  BlockTags = {"br"}
  DroppedTags = {"svg"}
  Words = {"text"}
  None = None
CHECK_DEADLOCK FALSE
INVARIANTS NothingLostOrMoved FencedIsCode DividesWhenItCan OnlyBlankFails LoneTitleIsNoConcept PageTextIsKept HeadingsOfPage
