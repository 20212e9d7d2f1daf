SPECIFICATION Spec
CONSTANTS
  k1 = k1
  k2 = k2
  crd = crd
  dep = dep
  cfg = cfg
  lease = lease
  val = val
  text = text
  console = console
  Kedas = {k1, k2}
  NoKeda = NoKeda
  Specs <- PlainOnly
  AddonCfgs <- NoAddon
  ExtFinalizers = {FALSE}
  Fields <- MCFields
  StickyFields = {"logging"}
  Values = {val, text, console}
  Unset = Unset
  Sanitized <- MCSanitized
  ManifestSeq <- SmallManifest
  Crds = {}
  Deployments = {dep}
  Generational = {dep}
  OperatorLease = lease
  Absent = Absent
  Tampered = Tampered
  Namespaces = {"kyma-system"}
  DefaultAddonNamespace = "kyma-system"
  CarefulUsers = FALSE
  Versions = {"0.15.0"}
  Budget <- OneTamper
  ReadsCatchUp = TRUE
INVARIANTS SettledInstalled
CHECK_DEADLOCK FALSE
