SPECIFICATION DocumentSpec
CONSTANTS
  Types = {"layerStyles"}
  Texts = {"a", "b"}
  MaxLength = 2
INVARIANT NoStylesIsNil
CHECK_DEADLOCK FALSE
