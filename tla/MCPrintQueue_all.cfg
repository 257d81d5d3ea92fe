SPECIFICATION Spec
CONSTANTS
  table = table  counter = counter
  spritz = spritz  beer = beer  pizza = pizza  cola = cola
  Orders = {table, counter}
  Rows = {spritz, beer, pizza, cola}
  OrderOf <- TwoOrders
  Bar = {spritz, beer, cola}
  AutoPrint = {beer}
  Pizzeria = {pizza}
  Takeaway = {counter}
  Changed = {pizza}
  Requests = {q1}
  Reads = {s1}
  NoOrder = NoOrder
  MaxQueue = 1
INVARIANT TypeOK
INVARIANT NothingForgotten
 
CHECK_DEADLOCK FALSE
