------------------------------ MODULE MCSystemd ------------------------------
(***************************************************************************)
(* Small instances of Systemd.                                             *)
(***************************************************************************)
EXTENDS Systemd

Plain == [autostart |-> FALSE, restart_on_failure |-> FALSE, user |-> FALSE,
          group |-> FALSE, password |-> FALSE, description |-> FALSE,
          size |-> 2]

(* A longer text, of a service that starts at boot. *)
Boot == [Plain EXCEPT !.autostart = TRUE, !.size = 3]

(* A service that is restarted when it fails. *)
Resilient == [Plain EXCEPT !.restart_on_failure = TRUE]

(* A spec that no user service may have. *)
Foreign == [Plain EXCEPT !.user = TRUE]

MCAllSpecs       == {Plain, Boot, Foreign}
MCBootSpecs      == {Boot}
MCResilientSpecs == {Plain, Resilient}

MCAllOps   == DOMAIN Legs
MCStartOps == {"restart", "start_and_wait", "stop_and_wait",
               "install_if_needed_and_start"}

=============================================================================
