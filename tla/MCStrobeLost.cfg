CONSTANTS
  Keys = {1, 6, 16, 64, 65, 66, 70, 72}
  ValidKeymaps <- MCKeymaps
  Keymap <- MCKeymap
  Setup <- KeymapSetups
  LastDevice = 12
  Driver <- BoardDevices
  VirtualDevices <- KeymapVirtuals
SPECIFICATION Spec
PROPERTY StrobePersists
