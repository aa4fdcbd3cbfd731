SPECIFICATION CollectorSpec
CONSTANTS
  k1 = k1  k2 = k2  t1 = t1  t2 = t2  r1 = r1  opus = opus  flash = flash
  Sessions = {1, 2}
  Format <- MCFormat
  Root <- MCRoot
  Keys = {k1, k2}
  Threads = {t1, t2}
  Cwd <- MCCwd
  Requests = {r1}
  Directory <- MCDirectory
  Home <- MCHome
  Model <- MCModel
  ModelNames = {opus, flash}
  Contents <- MCContents
  Payloads <- MCPayloads
  Now = 200
  Nothing = Nothing  Torn = Torn
  MaxTokens = 1
  MaxWritten = 2
  MaxUsed = 2
  SizeLimit = 1
CONSTRAINT Apart
ACTION_CONSTRAINT EditsFirst
VIEW View
INVARIANTS ProjectsSumToObserved
