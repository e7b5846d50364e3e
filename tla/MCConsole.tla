----------------------------- MODULE MCConsole -----------------------------
(* A small instance of the console: one operator, one browser tab. *)
EXTENDS Console

MCSubscriptions == {{<<"alerts">>}, {<<"account">>}}
MCChannels == {<<"account", "fills">>}
=============================================================================
