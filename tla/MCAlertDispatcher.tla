------------------------- MODULE MCAlertDispatcher -------------------------
(***************************************************************************)
(* The alerts AlertDispatcher is checked with                              *)
(***************************************************************************)
EXTENDS AlertDispatcher

Order(mqtt, pushover, webhook) ==
    [c \in Channels |-> CASE c = "mqtt"     -> mqtt
                          [] c = "pushover" -> pushover
                          [] c = "webhook"  -> webhook
                          [] OTHER          -> "off"]

\* A test of one channel, and an alert to two with another one blocked.
MCOrders == {Order("off", "on", "off"), Order("blocked", "on", "on")}

=============================================================================
