-------------------------- MODULE MCExecutionPolicy --------------------------
(* Hosts and bodies for model checking ExecutionPolicy.                    *)
EXTENDS ExecutionPolicy, TLC

Host(platform, security, critical, listed) ==
  [platform |-> platform, security |-> security, critical |-> critical,
   listed |-> listed, safe |-> TRUE, grouped |-> TRUE,
   enable_real_apply |-> "on", reboots |-> TRUE]

MCMachines ==
  {Host("linux", FALSE, FALSE, FALSE), Host("windows", FALSE, FALSE, FALSE)}

Empty == [k \in Keys |-> "unset"]
MCBodies ==
  {[Empty EXCEPT !["mode"] = "apply", !["real_apply"] = "on",
                 !["security_only"] = "on"],
   [Empty EXCEPT !["mode"] = "apply", !["security_only"] = "off",
                 !["security_and_critical"] = "on", !["scan_apply"] = "off"],
   [Empty EXCEPT !["mode"] = "other", !["real_apply"] = "off",
                 !["reboot_policy"] = "maintenance-window"],
   [Empty EXCEPT !["mode"] = "apply", !["group"] = "apply"]}

(* An upgrade: the version before knew neither real_apply nor a mode.  And *)
(* a console in use.                                                       *)
MCFirstRows ==
  {[k \in Keys |-> CASE k \in {"real_apply", "mode", "group"} -> "unset"
                     [] k = "patterns" -> "listed"
                     [] OTHER -> Default(k)],
   [k \in Keys |-> CASE k \in {"real_apply", "security_only"} -> "on"
                     [] k = "mode" -> "apply"
                     [] k = "reboot_policy" -> "maintenance-window"
                     [] k = "download_install" -> "off"
                     [] OTHER -> Default(k)]}

Symmetry == Permutations(Operators)
=============================================================================
