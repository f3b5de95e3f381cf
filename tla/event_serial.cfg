SPECIFICATION Spec
CONSTANTS
  k1 = k1  k2 = k2  k3 = k3  m1 = m1  m2 = m2  a1 = a1  a2 = a2  a3 = a3  t1 = t1  t2 = t2
  None = None
  Assets = {a1, a2}
  Keys = {k1, k2}
  ManualIds = {m1}
  Editors = {t1}
  Scanners = {t1}
PROPERTIES ScansKeepEdits ImplementsContract
