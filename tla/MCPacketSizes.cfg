CONSTANTS
  Quarter = 16
  LengthModulus = 16
  PageSize = 4
  HeaderSize = 3
  PrefixSize = 1
  Unit <- MCUnit
  Texts <- MCTexts
  NoNumber = NoNumber
SPECIFICATION SizesSpec
INVARIANT CapacityTight
INVARIANT SizesFaithful
PROPERTY Decided
CHECK_DEADLOCK FALSE
