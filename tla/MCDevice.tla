------------------------------ MODULE MCDevice -------------------------------
(***************************************************************************)
(* Model-checking instance of Device.                                      *)
(*                                                                         *)
(* DeviceLink: a queue of three flushed two at a time, more scans than     *)
(* fit, the firmware's backoff of 5, 10, 20, 30, 30 seconds.               *)
(* WifiManager: the firmware's 15 s window, backoff of 5 to 60 s and radio *)
(* reset after four failures, in steps of five seconds.                    *)
(* SettingsStore: one plain setting and one secret.                        *)
(* HealthLog: two threads, a file of four units, lines of one or three, a  *)
(* tick counter that wraps at eight, one rotation that can do nothing.     *)
(***************************************************************************)
EXTENDS Device

MCCap == 3
MCFlushBatch == 2
MCBackoffCap == 6
=============================================================================
