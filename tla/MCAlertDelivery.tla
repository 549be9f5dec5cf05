--------------------------- MODULE MCAlertDelivery ---------------------------
(* Small instances of AlertDelivery for TLC. *)
EXTENDS AlertDelivery

CONSTANTS smtp, webhook

MCNotifiers == <<smtp, webhook>>
MCSchedule == <<1, 2>>
==============================================================================
