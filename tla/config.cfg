SPECIFICATION Spec
CONSTANTS
  Names <- MCNames
  Binds <- MCBinds
  Files <- MCFiles
  Default <- MCDefault
  NoSocks = NoSocks
  NoName = NoName
  None = None
  IP <- MCIP
  Loopback = {"v4", "v6"}
  Local = {"v4", "v6"}
  Colons <- MCColons
  DefaultBind = "127.0.0.1"
  NoBind = ""
  defaultSocksPort = 1
  Ephemeral = {4, 5}
  MaxPort = 6
  Programs <- MCPrograms
INVARIANTS
  BindsUnlessTaken
  StatusShowsTunnel
