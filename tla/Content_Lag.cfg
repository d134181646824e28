SPECIFICATION FairSpec
CONSTANTS
  S = S
  argo1 = argo1
  argo2 = argo2
  web = web
  mine = mine
  theirs = theirs
  team = team
  strict = strict
  lax = lax
  gold = gold
  claims = claims
  Unset = Unset
  SizeNames <- MCSizeNames
  ClassKeys <- MCClassKeys
  ClaimKeys <- MCClaimKeys
  StorageKeys <- MCStorageKeys
  ArgoNamespaces <- MCArgoNamespaces
  Projects <- MCProjects
  Lists <- MCLists
  UserKeys <- MCUserKeys
  LabelValues <- MCLabelValues
  SizeSpecs <- MCSizeSpecs
  DefaultsVersions <- MCDefaults
  Entries <- MCEntries
  MaxUpsets = 2
INVARIANTS TypeOK TidyNeverPanics MergedAsDocumented ProjectsHaveHome QuietMeansExact
PROPERTY Settles
