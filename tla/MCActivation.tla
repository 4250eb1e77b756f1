---------------------------- MODULE MCActivation ----------------------------
(* Three of the ten notification setters: the first, one between, the last. *)
EXTENDS Activation

MCNotifySetters == <<"freewheel", "xrun", "property_change">>
=============================================================================
