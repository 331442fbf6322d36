SPECIFICATION Spec
CONSTANTS
  Parts = {"members", "sessions", "public api", "alerts", "media", "upload", "metrics",
           "exports", "wall clock", "queue", "adapters", "content", "composer", "connect",
           "pages", "calendar"}
  Users = {u1, u2, u3}
  Addresses = {e1}
  Requests = {q1, q2}
  Founder = u1
  NewRoles = {"owner", "approver"}
  Transfers = "nobody"
  People = {ann, bob}
  Tabs = {t1}
  Calls = {c1}
  Nothing = Nothing
  MaxSessions = 2
  MaxRotations = 2
  MaxResets = 1
  MaxDrops = 1
  Attempts = {1, 2, 3}
  Bodies = {a, b}
  MaxTroubles = 1
  PerMinute = 2
  MaxWindows = 1
  Members <- MCMembers
  Author = "e"
  Causes = {"account_reconnect", "mention"}
  Markets = {"tokyo"}
  Ticks = {d1, d2}
  MaxEvents = 2
  MaxDisturbed = 1
  Assets = {m1}
  Posts = {p1, p2}
  Jobs = {j1}
  Habits = {}
  Uploaders = {up1, up2}
  Total = 3
  MaxOpened = 2
  Targets = {g1, g2}
  Capable = {g1}
  Milestones = 2
  Pullers = {x1, x2}
  Exports = {f1}
  Exporters = {y1, y2}
  MaxSlips = 1
  MaxMarks = 1
  Zones <- MCZones
  Reach = 60
  QueuePosts = {1, 2}
  Week = 3
  SlotHorizon = 5
  SlotMargin = 1
  LastDay = 3
  MaxSlotChanges = 1
  QueueHabits = {}
  Nets = {"bluesky", "line", "fake"}
  BodyErrors = {"ExpiredToken", "BlobTooLarge", "InvalidRequest"}
  MaxCallsOut = 3
  Library <- MCLibrary
  Drafts <- MCDrafts
  Unset = Unset
  Texts = {"", "a", "b"}
  Files = {"f"}
  Absent = Absent
  Modes = {"now", "time", "queue"}
  Hurries = {}
  MaxEdits = 4
  Handshakes = {h1, h2}
  Openings = {o1, o2}
  Profiles = {r1}
  Nil = Nil
  MaxFaults = 1
  Cards = {1, 2, 3}
  PageSize = 1
  MaxInstant = 2
  MaxStirs = 2
  Never = Never
  MonthStarts <- MCMonthStarts
  Anchors = {33, 34, 61}
  Offsets <- MCOffsets
  Entries = {n1}
  EntryHours <- MCHours
  ServerNow = 720
  MaxTurns = 3
INVARIANTS OwnerExists    MailedOnce  
           UploadWhole  WallClockResolved OnOwnSlot 
           ThreadKeepsText FrozenIsPreviewed   PagesComplete CalendarShowsAll
PROPERTIES QueueKeepsOrder
CHECK_DEADLOCK FALSE
