-------------------------- MODULE MCBrowserSession --------------------------
(* Values for TLC. *)
EXTENDS BrowserSession
=============================================================================
