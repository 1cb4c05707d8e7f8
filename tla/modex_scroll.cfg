CONSTANTS
  SCROLL_X_WIDTH = 2
  SCROLL_Y_DIM = 3
  SHOWN = 2
  BAR = 1
  SLACK = 4
  MEM_FENCE_WIDTH = 8
  Photos <- MCPhotos
  Images <- MCImages
  Layouts <- MCLayouts
  Speeds = {1, 3}
  MaxCommands = 6
SPECIFICATION Spec
INVARIANTS InsideBuffers ShowsWindow HalfSetHidden
PROPERTY NoTearing
