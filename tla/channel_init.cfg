SPECIFICATION Spec
CONSTANTS
  Procs = {p1, p2, p3}
  MaxPkgs = 2
PROPERTIES SettledKeepsPackages
