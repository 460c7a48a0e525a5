CONSTANTS
  Keys = {0, 1, 6, 16, 53, 64, 65, 66, 70, 72}
  ValidKeymaps <- MCKeymaps
  Keymap <- MCKeymap
  Setup <- KeymapSetups
  LastDevice = 12
  Driver <- BoardDevices
  VirtualDevices <- KeymapVirtuals
SPECIFICATION Spec
INVARIANTS TypeOK DipsSelect NestingBounded OutputsFitKeymap HooksFitKeymap LedsTruthful HeldKeysApply
PROPERTY SwitchEnds
