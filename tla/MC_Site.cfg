SPECIFICATION FairSpec
CONSTANTS
  Pixel = 2
  Widths = {1400, 1472, 1474, 1960, 1962}
  MaxScroll = 2
INVARIANTS FooterFollowsWidth ParallaxOnlyWhenWide
PROPERTY FooterSettles
