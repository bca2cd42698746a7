SPECIFICATION ReadlineSpec
CONSTANTS
  CFG_CBSIZE = 7
  plen = 3
  Keys = {"a", " ", "TAB"}
INVARIANT ShownIsTyped
