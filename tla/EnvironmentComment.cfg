SPECIFICATION Spec
CONSTANTS
  pwd = pwd
  oldpwd = oldpwd
  home = home
  bad = bad
  d1 = d1
  d2 = d2
  text = text
  Names <- MCNames
  Valid <- MCValid
  Values <- MCValues
  Dirs <- MCDirs
  PWD = pwd
  OLDPWD = oldpwd
  HOME = home
  NoValue = NoValue
  Declared = Declared
  Envs <- MCEnvs
  Statuses = {0}
  Rank <- MCRank
INVARIANT ListedHaveNoValue
