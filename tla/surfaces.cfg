\* The drop-down: three options, five events.
CONSTANT Options <- SelectOptions
CONSTANT WordsOf <- SelectWords
CONSTANT Queries <- SelectQueries
CONSTANT MaxEvents = 5
\* The cord and the blob.
CONSTANT Actuation = 2
CONSTANT Travel = 3
CONSTANT Patience = 2
CONSTANT MaxGestures = 5
\* The tabs.
CONSTANT TabValues <- SurfaceTabs
CONSTANT Views <- SurfaceViews
CONSTANT MaxKeys = 4
\* The drafts.
CONSTANT FactIds = {"f", "g"}
CONSTANT HardMax = 2
CONSTANT MaxFacts = 2
CONSTANT MaxCites = 2
\* The profiles.
CONSTANT Texts = {"x"}
CONSTANT MaxTime = 2
CONSTANT MaxStream = 3
CONSTANT QueryAddsTenant = TRUE
\* The releases.
CONSTANT Builds <- ReleaseBuilds
CONSTANT Paths <- ReleasePaths
CONSTANT Scripts <- ReleaseScripts
CONSTANT BodyMentions <- ReleaseBodies
CONSTANT RuntimeName <- ReleaseNames
CONSTANT Inside <- ReleaseInside
\* The gate.
CONSTANT Apps <- GateApps
CONSTANT SourceLines <- GateLines
CONSTANT PageLength = 3
CONSTANT MaxEdits = 2
CONSTANT MaxCommands = 2
\* The browser.
CONSTANT Members = {"ann", "ben"}
CONSTANT PostIds = {"p", "q"}
CONSTANT MaxRequests = 4
CONSTANT MaxSessions = 2
\* The limiter.
CONSTANT Clients = {"ann", "bob"}
CONSTANT Proxies <- LimiterProxies
CONSTANT ClientSends <- LimiterHeaders
CONSTANT Burst = 2
\* The auth router.
CONSTANT Plugins <- DispatchPlugins
CONSTANT RoutesOf <- DispatchRoutes
CONSTANT Disabled = {"/sign-up/email", "/health"}
CONSTANT Guests = {"ann", "bob"}
CONSTANT Sessions = {"s1", "s2"}
\* The process.
CONSTANT Environments <- ProcessEnvironments
CONSTANT QueueLimit = 1
CONSTANT MaxCreates = 2
CONSTANT MaxProbes = 1
CONSTANT MaxTurns = 2
SPECIFICATION SurfacesSpec
INVARIANTS ProfilesSurviveTheWire ReleaseIsWhole AcceptedIsGrounded ScreensTellTheSession BucketsAreTheClients DispatchIsGuarded GateTellsTheTruth ProcessIsAccountable
PROPERTIES WidgetsActOnce
CHECK_DEADLOCK FALSE
