CONSTANTS
  ita = ita
  hubs = hubs
  Repos = {ita, hubs}
  h1 = h1
  h2 = h2
  Hooks = {h1, h2}
  t1 = t1
  t2 = t2
  Ticks = {t1, t2}
  MaxBuilds = 2
  MaxCalls = 2
  MaxFailed = 2
SPECIFICATION ReportLiveSpec
INVARIANTS
  ReportTypeOK
  TagsStand
PROPERTIES
  LabelForward
  Published
