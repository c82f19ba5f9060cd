------------------------------ MODULE MCLaunchd ------------------------------
(***************************************************************************)
(* Small instances of Launchd.                                             *)
(***************************************************************************)
EXTENDS Launchd

Plain == [autostart |-> FALSE, restart_on_failure |-> FALSE, user |-> FALSE,
          group |-> FALSE, password |-> FALSE, description |-> FALSE,
          size |-> 2]

(* A longer text, of a service that starts at load. *)
Boot == [Plain EXCEPT !.autostart = TRUE, !.size = 3]

(* One that is kept alive as well. *)
Resilient == [Boot EXCEPT !.restart_on_failure = TRUE]

(* A spec that launchd's capabilities rule out. *)
Foreign == [Plain EXCEPT !.restart_on_failure = TRUE]

MCAllSpecs       == {Plain, Boot, Resilient, Foreign}
MCSpecs          == {Plain, Boot}
MCBootSpecs      == {Boot}
MCResilientSpecs == {Resilient}

MCAllOps  == DOMAIN Legs
MCStopOps == {"restart", "stop_and_wait", "install_if_needed_and_start",
              "stop_if_needed_and_uninstall"}
=============================================================================
