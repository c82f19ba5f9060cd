--------------------------------- MODULE MCSc ---------------------------------
(***************************************************************************)
(* Small instances of Sc.                                                  *)
(***************************************************************************)
EXTENDS Sc

Plain == [autostart |-> FALSE, restart_on_failure |-> FALSE, user |-> FALSE,
          group |-> FALSE, password |-> FALSE, description |-> FALSE,
          size |-> 0]

(* A service that asks for everything. *)
Full == [Plain EXCEPT !.autostart = TRUE, !.restart_on_failure = TRUE,
                      !.description = TRUE]

(* A spec that no user service may have, and a system service only with a *)
(* password.                                                              *)
Foreign == [Plain EXCEPT !.user = TRUE]

Resilient == [Plain EXCEPT !.restart_on_failure = TRUE]

MCAllSpecs       == {Plain, Full, Foreign}
MCResilientSpecs == {Resilient, Foreign}

MCAllOps  == DOMAIN Legs
MCStopOps == {"restart", "stop_and_wait", "install_if_needed_and_start",
              "stop_if_needed_and_uninstall"}

=============================================================================
