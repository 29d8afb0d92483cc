CONSTANTS
  Value = {v1, v2}
  NULL = NULL
  max_num = 3
  ele_size = 8
SPECIFICATION Spec
PROPERTY HoldsMaxNum
