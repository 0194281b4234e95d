SPECIFICATION Spec
CONSTANTS
  UserIds = {u1, u2, u3}
  Tokens = {t1, t2}
  Names = {n1, n2}
  Requests = {r1, r2}
  None = None
SYMMETRY Symmetry
INVARIANTS
  TypeOK
  TokenMakesOneNode
  DeleteNeverBlocked
PROPERTIES
  AdministratorRemains
