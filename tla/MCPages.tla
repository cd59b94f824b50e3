------------------------------- MODULE MCPages -------------------------------
(***************************************************************************)
(* Model-checking instance of Pages.                                       *)
(*                                                                         *)
(* SerialSetup: two contents of the settings the device accepts, one it    *)
(* refuses and one whose request is too long; two crashes or late answers. *)
(* MqttViewer: two clients, two topics, two subtopics, a list of two.      *)
(* DevicePage: two cards, two keys.                                        *)
(***************************************************************************)
EXTENDS Pages

MCCap == 2
=============================================================================
