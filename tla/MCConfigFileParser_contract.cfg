CONSTANTS
  FileSystem <- MCFileSystem
  Stoi <- MCStoi
  LowerOf <- MCLowerOf
  RTrimSlash <- MCRTrimSlash
  Networks <- MCNetworks
  PluginOptKeys <- MCPluginOptKeys
  AbsoluteMaxPacketSize = 268435461
  Default = Default
  InvalidArgument = InvalidArgument
  OutOfRange = OutOfRange
  ConfigPaths <- MCConfigPaths
  Lines <- MCContractLines
  MaxLines = 1

SPECIFICATION Spec
PROPERTY LoadContract
