SPECIFICATION Spec
CONSTANTS
  a1 = a1 s1 = s1 t1 = t1 t2 = t2 k1 = k1 k2 = k2 r1 = r1
  Interactive = {a1} Service = {s1} Tokens = {t1, t2} Codes = {k1, k2}
  Requests = {r1} MaxTokens = 1 MaxCodes = 1 NoClient = NoClient
INVARIANTS VoidForGood GoodStandingKeeps
 
SYMMETRY Random
