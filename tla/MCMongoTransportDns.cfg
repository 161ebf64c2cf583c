SPECIFICATION Spec
CONSTANTS
  Pcb = {p1, p2}
  NULL = NULL
  Window = 3
  MaxBytes = 4
  MaxWant = 3
  Reuse = FALSE
INVARIANTS
  NoStrayDnsCallback
