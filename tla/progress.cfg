SPECIFICATION FairSpec
CONSTANTS
  k1 = k1
  k2 = k2
  crd = crd
  dep = dep
  cfg = cfg
  lease = lease
  val = val
  text = text
  console = console
  Kedas = {k1}
  NoKeda = NoKeda
  Specs <- PlainOnly
  AddonCfgs <- NoAddon
  ExtFinalizers = {FALSE}
  Fields <- MCFields
  StickyFields = {"logging"}
  Values = {val, text, console}
  Unset = Unset
  Sanitized <- MCSanitized
  ManifestSeq <- Manifest
  Crds = {crd}
  Deployments = {dep}
  Generational = {crd, dep}
  OperatorLease = lease
  Absent = Absent
  Tampered = Tampered
  Namespaces = {"kyma-system"}
  DefaultAddonNamespace = "kyma-system"
  CarefulUsers = TRUE
  Versions = {"0.15.0"}
  Budget <- ProgressBounds
  ReadsCatchUp = FALSE
PROPERTIES UserResourcesSurvive
  DeletionCompletes InstallCompletes EventsQuiesce
CHECK_DEADLOCK FALSE
