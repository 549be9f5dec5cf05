\* Two uploads at a time, for two projects, while a page is rendered.
SPECIFICATION Spec
CONSTANTS
  p1 = p1
  p2 = p2
  v1 = v1
  app = app
  u1 = u1
  u2 = u2
  Projects = {p1, p2}
  Versions = {v1}
  Paths = {app}
  before = before
  after = after
  cut = cut
  Contents = {before, after, cut}
  Mappings <- MCMappings
  Built <- MCBuilt
  Columns = {0, 1, 2, 18, 19, 20, 21, 599, 600, 601, 602}
  Uploads = {u1, u2}
  Frames <- MCFrames
  NoRelease = NoRelease
  NoPath = NoPath
  MaxFrames = 3
SYMMETRY Symmetry
INVARIANTS
  TypeOK
  OneArtifactFound
  PageOfOneMap
  MapsReadRight
