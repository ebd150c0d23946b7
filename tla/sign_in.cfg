SPECIFICATION Spec
CONSTANTS
  None = None
  Users = {ann, bob}
  First = ann
  Stranger = zed
  Conns = {c1, c2}
  Programs = {"threads", "turns", "slots", "single", "layers", "shared", "sockets"}
INVARIANTS
  TypeOK
  
  

  
  
  
SYMMETRY ConnsAlike
CHECK_DEADLOCK FALSE
