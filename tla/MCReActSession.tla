---------------------------- MODULE MCReActSession ----------------------------
(* Three turns of up to two calls of two tools: enough for a turn with a refused
   call after one with an executed call, for answers to be mixed up, and for the
   cap after both.  Two keys that may be tried in either order. *)
EXTENDS ReActSession

MCTools == {"customer_profile", "alert_history"}
MCClients == {"claude", "gemini", "cerebras", "groq"}
=============================================================================
