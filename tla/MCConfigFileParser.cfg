CONSTANTS
  FileSystem <- MCFileSystem
  Stoi <- MCStoi
  LowerOf <- MCLowerOf
  RTrimSlash <- MCRTrimSlash
  Networks <- MCNetworks
  PluginOptKeys <- MCPluginOptKeys
  AbsoluteMaxPacketSize = 268435461
  Default = Default
  InvalidArgument = InvalidArgument
  OutOfRange = OutOfRange
  ConfigPaths <- MCConfigPaths
  Lines <- MCRootLines
  MaxLines = 3

SPECIFICATION Spec
INVARIANT TypeOK
PROPERTY ImplementsConfigReload
