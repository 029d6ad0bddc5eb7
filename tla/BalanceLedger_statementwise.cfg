CONSTANTS
  alice = alice
  bob = bob
  settler = settler
  rpc = rpc
  rpc2 = rpc2
  cli = cli
  server = server
  tool = tool
  NoWorker = NoWorker
  Fen = 10
  User = {alice, bob}
  Worker = {settler, rpc, cli}
  OSProcess = {server, tool}
  ProcessOf <- MCProcessOf
  LogType <- MCLogType
  Requests <- Statementwise
  InitialBalance <- MCInitialBalance
  Arrears <- MCArrears
  MaxRequests = 3
  MaxCrashes = 1
  Mortal = {tool}
SPECIFICATION Spec
INVARIANTS
  LedgerBalanced
PROPERTIES
  ImplementsBook
