SPECIFICATION Spec
CONSTANTS
  Registers = {cassa1, cassa2}
  Null = Null
  Requests = {r1, r2}
  MaxSales = 2
SYMMETRY Interchangeable
INVARIANT TypeOK
INVARIANT OneRowPerRegister
INVARIANT SealedWasSold
