---------------------------- MODULE MCDeviceLink -----------------------------
(* Model-checking instance of DeviceLink: a queue of three flushed two at a time, *)
(* more scans than fit, and the firmware's backoff of 5, 10, 20, 30, 30 seconds.  *)
EXTENDS DeviceLink

MCCap == 3
MCFlushBatch == 2
MCBackoffCap == 6
=============================================================================
