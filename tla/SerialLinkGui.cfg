SPECIFICATION Spec
CONSTANT Link = "gui"
INVARIANT
  GuiSilenceIsNoticed
