SPECIFICATION FairSpec
CONSTANTS
  Replicas = {r1, r2}
  MaxCrashes = 1
  Tabs = {t1}
  Accounts = {alice, bob}
  Allowed = {alice}
  NoAccount = NoAccount
  NoTab = NoTab
  MaxMishaps = 1

PROPERTY FreshCodeHelps
