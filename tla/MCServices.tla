----------------------------- MODULE MCServices -----------------------------
(***************************************************************************)
(* Services on a table of three slots and four ids, two tracked tasks per  *)
(* service, two listeners and three listener ids: the table, the tracked   *)
(* list and the listener list all fill up, and ids start again, within the *)
(* operations of one behaviour.                                            *)
(***************************************************************************)
EXTENDS Services

MCServices == {"MQTT", "MDNS", "CRON"}
=============================================================================
