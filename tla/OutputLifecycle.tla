--------------------------- MODULE OutputLifecycle ---------------------------
(***************************************************************************)
(* What a libobs output promises to whoever listens to its "start",        *)
(* "stop", "reconnect" and "reconnect_success" signals: the four signals   *)
(* trace a path through four conditions, whatever threads emit them.       *)
(***************************************************************************)
VARIABLE told            \* the condition the signals emitted so far describe

Condition == {"off", "opening", "live", "retrying"}

Init == told = "off"

(* obs_output_start succeeded: the plugin is opening the connection.       *)
Open == told = "off" /\ told' = "opening"

(* "start": the first connection attempt reached the server.               *)
Started == told = "opening" /\ told' = "live"

(* "reconnect": the connection dropped, or one more attempt failed.        *)
Reconnecting == told \in {"live", "retrying"} /\ told' = "retrying"

(* "reconnect_success": a retry reached the server.                        *)
Reconnected == told = "retrying" /\ told' = "live"

(* "stop": the owner stopped the output, the first attempt failed or the   *)
(* retries are spent.  An output that is off may signal it again.          *)
Stopped == told' = "off"

Next == Open \/ Started \/ Reconnecting \/ Reconnected \/ Stopped

Spec == Init /\ [][Next]_told
=============================================================================
