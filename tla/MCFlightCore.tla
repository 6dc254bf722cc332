---------------------------- MODULE MCFlightCore ----------------------------
(* Instances of FlightCore for TLC: which disturbances and parameter changes *)
(* each run allows.                                                          *)
EXTENDS FlightCore
MCLinkSources   == {"rc_bad", "rc_stale", "imu_silent", "rearm"}
MCLinkParams    == {"failsafeValid", "allowUnhealthyEstimator"}
MCGyroSources   == {"gyro_command", "accel_command", "imu_silent", "uncalibrated",
                    "rc_stale", "restart"}
MCGyroParams    == {"calibrateGyroOnArm"}
MCErrorSources  == {"estimator", "rc_stale", "param_burst", "uncalibrated", "rearm"}
MCErrorParams   == {"allowUnhealthyEstimator", "mixerValid", "takeMinThrottle",
                    "calibrateGyroOnArm"}
MCRealtimeSources == {"rc_stale", "imu_silent", "clock", "accel_command", "uncalibrated",
                      "restart"}

=============================================================================
