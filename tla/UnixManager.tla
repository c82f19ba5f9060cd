----------------------------- MODULE UnixManager -----------------------------
(***************************************************************************)
(* What the ServiceManagers of Linux and macOS have in common: a service   *)
(* is defined by a file, which install writes (write_file in               *)
(* manager/src/unix_util.rs) and uninstall removes, and install and        *)
(* uninstall take more than one step.  Systemd and Launchd EXTEND this     *)
(* module with the commands of their system.                               *)
(***************************************************************************)
EXTENDS ManagerSteps

VARIABLE file   \* the service's definition: NoFile, or the text in the file

(* A text begins with what was written last.  It is exactly the definition  *)
(* made from its spec when its size is the spec's; a longer one goes on     *)
(* with the rest of an older text.  NoSpec: not a whole definition.         *)
NoFile == [spec |-> NoSpec, size |-> 0, exists |-> FALSE]
Sizes  == {0} \cup {s.size : s \in Specs}
Files  == {NoFile} \cup
          [spec : Specs \cup {NoSpec}, size : Sizes, exists : {TRUE}]

TextOf(s)  == [spec |-> s, size |-> s.size, exists |-> TRUE]
WellFormed == file.spec # NoSpec /\ file = TextOf(file.spec)

FirstStep == [install |-> "open", uninstall |-> "unload",
              start |-> "start", stop |-> "stop"]

UnixTypeOK ==
  /\ ClientTypeOK
  /\ file \in Files
  /\ step \in [Clients -> {"none", "open", "write", "load", "unload",
                           "remove", "start", "stop"}]
  /\ \A c \in Clients : step[c] # "none" <=> pc[c] = "act"

UnixInit ==
  /\ ClientInit /\ StepInit
  /\ file = NoFile

-----------------------------------------------------------------------------

FailStep(c) == step[c] # "none" /\ Finish(c, Failed) /\ UNCHANGED file

(* write_file opens the file, creating it if it is not there... *)
OpenFile(c) ==
  /\ step[c] = "open" /\ Then(c, "write")
  /\ file' = IF file.exists THEN file ELSE [NoFile EXCEPT !.exists = TRUE]

(* ...and writes from its beginning, without truncating it: what is longer *)
(* stays longer.                                                           *)
Overlay(f, s) ==
  [spec |-> s, size |-> IF f.size > s.size THEN f.size ELSE s.size,
   exists |-> TRUE]

(* The file may be gone from its directory when it is written to. *)
WriteFile(c) ==
  /\ step[c] = "write"
  /\ file' = IF file.exists THEN Overlay(file, spec[c]) ELSE file

(* A write that fails: sync_all does after all of it, or only the beginning of *)
(* the text got there. The file is then no definition and may have grown; a    *)
(* length between two sizes counts as the next one.                            *)
WriteFileFails(c) ==
  /\ step[c] = "write" /\ file.exists
  /\ \/ file' = Overlay(file, spec[c])
     \/ \E n \in Sizes :
          /\ n \in file.size .. Overlay(file, spec[c]).size
          /\ file' = [file EXCEPT !.spec = NoSpec, !.size = n]
  /\ Finish(c, Failed)

(* fs::remove_file, the last step of uninstall. *)
RemoveFile(c) ==
  /\ step[c] = "remove" /\ file.exists
  /\ file' = NoFile /\ Finish(c, Done)

CheckUnix(c, r) == CheckFrom(c, r, FirstStep) /\ UNCHANGED file

DieUnix(C) == DieAtStep(C) /\ UNCHANGED file

=============================================================================
