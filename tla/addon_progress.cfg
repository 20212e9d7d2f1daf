SPECIFICATION FairSpec
CONSTANTS
  k1 = k1
  k2 = k2
  crd = crd
  dep = dep
  cfg = cfg
  lease = lease
  val = val
  text = text
  console = console
  Kedas = {k1}
  NoKeda = NoKeda
  Specs <- TunedOnly
  AddonCfgs <- AddonOnOff
  ExtFinalizers = {FALSE}
  Fields <- MCFields
  StickyFields = {"logging"}
  Values = {val, text, console}
  Unset = Unset
  Sanitized <- MCSanitized
  ManifestSeq <- SmallManifest
  Crds = {}
  Deployments = {dep}
  Generational = {dep}
  OperatorLease = lease
  Absent = Absent
  Tampered = Tampered
  Namespaces = {"kyma-system"}
  DefaultAddonNamespace = "kyma-system"
  CarefulUsers = TRUE
  Versions = {"0.15.0"}
  Budget <- GuardBounds
  ReadsCatchUp = FALSE
PROPERTIES HttpScaledObjectsSurvive UserEditsSurvive
  AddonConverges
CHECK_DEADLOCK FALSE
