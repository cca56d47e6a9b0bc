SPECIFICATION WholeSpec
CONSTANTS
  NoName = NoName
  NoAnswer = NoAnswer
  ChainCap = 65
  Similar <- Alike
  Spaced = {"my web"}
  Dotted = {"..", ""}
  NotSaid = NotSaid
  ArchiveWord = {"a.tgz"}
  Digital = {"1"}
  OddWord = {"^1"}
  Noise = {"dist", "node_modules"}
  Coloned = {"a:b"}
  DropGit <- CutGit
  DropSuffix <- CutSuffix
  DropArchive <- CutSuffix
  Safe <- Same
  Unsafe <- Forbidden
  ByName <- InBytes
  Slot <- Slots
  Known <- Containers
  Fate <- Fates
  Clean <- Cleaned
  NoLayer = NoLayer
  Launcher = Launcher
  MaxSourceFiles = 400
  Stem <- StemOf
  Protocol = {"file"}
  SortsLater <- Later
  Size = 4
  Calls <- AllCalls
  Nothing = Nothing
  Task = {b1}
  Client = {c1}
  Ref = {"r"}
  Name = {"m", "n"}
  Recipe = {"x"}
  Instance = {i}
  Here = "here"
  Requests <- StoreRequests
  LastRelease = 2
  Caller = {"c"}
  Release = {1, 2}
  User = {u1}
  Template = {"t"}
  Holder = h
  NoPath = "none"
  MaxRetries = 2
  MaxQueued = 2
  Thread = {t1}
  Plugin = {"p"}
  BundleArchives = {{"p"}}
  MaxTasks = 2
  Seconds = {1}
  Package = {"p1", "p2"}
  Skill = {"s"}
  Picks = {{"p1", "s"}}
  MaxOps = 3
  Home = {h1, h2}
  Job = {j1, j2}
  MaxCopies = 2
  MaxTaken = 2
  Folder = {f, g}
  Adder = {a1, a2}
  MaxAdds = 3
  Saver = {w1, w2}
  Storage = {d1, d2}
  NotSet = NotSet
  MaxSaves = 2
  Remote = {r1, r2}
  Tag = {"v1"}
  MaxMoves = 1
  Full = 2
  MaxBreaks = 1
  MaxFrames = 1
  MaxAsked = 1
  Daemon = {"d1", "d2", "d3"}
  Ours = {"d2", "d3"}
  Port = {1, 2}
  MaxForeign = 1
  Legacy = {"l"}
  Fresh = {"a"}
  MaxStarts = 4
  MaxFaults = 2
CHECK_DEADLOCK FALSE
INVARIANTS NamesSound PluginsSound GivenSound ProcessesSound TemplatesSound  TasksSound RepositorySound 

