---------------------------- MODULE MCEventHandler ----------------------------
(* EventHandler on a small instance: a log of events the handler asks for     *)
(* and events it does not.                                                    *)
EXTENDS EventHandler

MCEvent == [type : {"Subscribed", "Other"}]

MCQuery == {[type |-> "Subscribed"]}

===============================================================================
