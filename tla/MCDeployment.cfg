SPECIFICATION Spec
CONSTANTS
  r1 = r1
  r2 = r2
  Unset = Unset
  NoSettings = NoSettings
  data = data
  backup = backup
  NoVolume = NoVolume
  Volume = {data, backup}
  MountPoint = {"/app/data/oauth-storage", "/srv/oauth"}
  Replica = {r1, r2}
  Variable <- MCVariable
  Value <- MCValue
  Unusable <- MCUnusable
  FernetKey <- MCFernetKey
  Installed <- MCInstalled
  ResolverPlugin = {}
  World <- MCWorld
  MaxLogins = 2
  MaxEdits = 2
SYMMETRY Symmetry
INVARIANTS
  FailClosed
  DurableLogins
