SPECIFICATION PartsSpec
CONSTANTS
  Parts = {"auth", "voice", "share", "music", "mesh", "pair", "servers",
           "capture", "litemedia", "litesfu", "chat", "sfuclient", "link",
           "popup", "mode"}
  Session = {a, b}
  Channel = {room}
  ChannelOf <- MCChannelOf
  Sender = {a}
  Call = {c1, c2}
  Transport = {t1, t2}
  Producer = {p1}
  Consumer = {k1}
  MaxRouters = 2
  MaxDeaths = 1
  NoSession = noSession
  NoTransport = noTransport
  NoProducer = noProducer
  Box = {"b1", "b2"}
  Job = {"j1"}
  Program = {"gateway"}
  Email = {"e1", "e2"}
  ChannelId = {"c1", "c2", "c3"}
  Request = {"first", "second"}
  NoOne = "nobody"
  NoChannel = "none"
  Conn = {"c1", "c2"}
  User = {"u1"}
  NoUser = "none"
  MaxArrivals = 4
  MaxErrors = 1
  MaxFaults = 1
  Supervised = {"api", "turn"}
  Rank <- MCRank
  Api = "api"
  TurnProgram = "turn"
  MaxBreaks = 2
  Follow = {"status", "health"}
  Password = {"p1", "p2"}
  Empty = "empty"
  MaxClicks = 2
  Checker = {"watchdog", "api"}
  Ip = {"i1", "i2"}
  NoIp = "none"
  MaxMoves = 4
  WebPort = {"p1", "p2"}
  RelayRange = {"r1", "r2"}
  MaxSaves = 3
  Scope = {"s1", "s2"}
  NoScope = "none"
  Method = {"first", "second"}
  MaxSessions = 2
  MaxTokens = 2
  MaxSwitches = 1
  VoiceChannel = {"c1", "c2"}
  NoVoice = "none"
  MaxJoins = 2
  MaxShares = 2
  MaxCaptures = 2
  LiveStream = {"s1", "s2"}
  NoLive = "none"
  DeskServer = {"s1", "s2"}
  DeskAddress = {"a1", "a2"}
  NoDesk = "none"
  MaxPicks = 2
  MaxQueue = 2
  MaxWindows = 3
  LiteServer = {"s1", "s2"}
  NoLite = "none"
  LiteCommand = {"c1"}
  MaxRequests = 3
  StoreFlow = {"first", "second"}
  MaxSlips = 2
INVARIANTS
  Types
  ScopeIsolation
  QuietIsReady
  MicReleased
  ActiveIsServed
  RecoveryIsWanted
  CaptureReleased
  SettledIsServed
  MusicIsServed
  MeshComplete
  DesktopSettles
  ClientSettles
CHECK_DEADLOCK FALSE
VIEW Running
