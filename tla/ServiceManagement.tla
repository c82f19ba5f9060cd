-------------------------- MODULE ServiceManagement --------------------------
(***************************************************************************)
(* What UniServiceManager (manager/src/manager.rs) promises to a caller    *)
(* who has a service to himself, on every platform and whatever fails,     *)
(* dies or restarts on the way: a service is defined or not and runs or    *)
(* not, and only the right method at the right time changes that.  The     *)
(* modules of the platforms implement this one.                            *)
(***************************************************************************)

CONSTANT Clients

Verbs == {"install", "uninstall", "start", "stop"}

VARIABLES
  defined,  \* the platform has a definition of the service
  running,  \* it has a process of the service
  doing,    \* per client: what the platform has been asked to do, or "none"
  ok        \* per client: the last thing it asked for was done

vars == <<defined, running, doing, ok>>

Init ==
  /\ defined = FALSE /\ running = FALSE
  /\ doing = [c \in Clients |-> "none"] /\ ok = [c \in Clients |-> FALSE]

Asked(v) == \E c \in Clients : doing[c] = v

(* A service comes to be by an install and goes by an uninstall, which      *)
(* leaves no process behind...                                              *)
Define == Asked("install") /\ defined' = TRUE /\ UNCHANGED running
Remove == Asked("uninstall") /\ defined' = FALSE /\ running' = FALSE

(* ...only what is defined runs, by whoever started it; and it may end. *)
Run == defined /\ running' = TRUE /\ UNCHANGED defined
End == running' = FALSE /\ UNCHANGED defined

(* What an Ok says of the service at the moment it is given. *)
Promise == [install |-> defined', uninstall |-> ~defined', start |-> running',
            stop |-> TRUE]

(* A service that runs may be stopped, and nothing else be done to it... *)
Begins(c) ==
  /\ doing[c] = "none" /\ doing'[c] \in Verbs /\ ~ok'[c]
  /\ running => doing'[c] = "stop"

(* ...and what was asked ends well or badly, or with the client. *)
Ends(c) ==
  /\ doing[c] # "none" /\ doing'[c] = "none"
  /\ ok'[c] => Promise[doing[c]]

Rests(c) == doing'[c] = doing[c] /\ (ok'[c] => ok[c])

Next ==
  /\ \A c \in Clients : Begins(c) \/ Ends(c) \/ Rests(c)
  /\ Define \/ Remove \/ Run \/ End \/ UNCHANGED <<defined, running>>

Spec == Init /\ [][Next]_vars

=============================================================================
