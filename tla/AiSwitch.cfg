SPECIFICATION SwitchFairSpec
CONSTANTS
  Types = {"yolov5", "fall"}
  MaxLink = 2
  MaxDets = 2
INVARIANTS ScreensAgree FollowsYoloOnly
PROPERTY DetectorHeard
