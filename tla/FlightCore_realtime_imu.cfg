CONSTANTS
  Scheduler = "realtime"
  Sources = {"imu_silent"}
  MutableParams = {}
SPECIFICATION Spec
PROPERTIES SilentImuNoticed
