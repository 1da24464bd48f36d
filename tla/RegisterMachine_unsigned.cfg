SPECIFICATION Spec
CONSTANTS
  ByteSign <- MCByteSign
  BitCount <- MCBitCount
  GeneralRegister <- MCGeneralRegister
PROPERTY HigherOrSame
