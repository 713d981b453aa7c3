SPECIFICATION FairSpec
CONSTANTS
  Replicas = {r1, r2}
  MaxCrashes = 2
  Tabs = {t1, t2}
  Accounts = {alice, bob}
  Allowed = {alice}
  NoAccount = NoAccount
  NoTab = NoTab
  MaxMishaps = 1
INVARIANTS TypeOK SessionsHonoured
PROPERTIES SecretIsOnce AllowedGetsIn
