SPECIFICATION Spec
CONSTANTS
  ByteSign <- MCByteSign
  BitCount <- MCBitCount
  GeneralRegister <- MCGeneralRegister
INVARIANT FlagsAgree
PROPERTIES SignedOrder ByteOrder OverflowIsExact CarryOverflows RotationKeepsBits ExtensionFlags
