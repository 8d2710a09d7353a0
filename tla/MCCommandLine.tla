---------------------------- MODULE MCCommandLine ----------------------------
(***************************************************************************)
(* Raw command lines for CommandLine: a flag that changes the jail's       *)
(* namespaces, a value flag, --rw, "--" and a plain word, so that a flag   *)
(* word can stand before the command, after it, after "--", or as the     *)
(* value of -c.                                                            *)
(***************************************************************************)
EXTENDS CommandLine

W(k, o, t) == [kind |-> k, opt |-> o, text |-> t]
MCWords ==
  { W("opt", "disable_clone_newuser", <<"--disable_clone_newuser">>),
    W("opt", "chroot", <<"-c">>), W("opt", "rw", <<"--rw">>),
    W("end", "", <<"--">>), W("plain", "", <<"x">>) }

\* every occurrence the scan or the reading of spec.md can produce
MCArgs ==
  {[opt |-> w.opt, arg |-> <<>>] : w \in {w \in MCWords : w.kind = "opt"}}
    \cup {[opt |-> "chroot", arg |-> w.text] : w \in MCWords}
    \cup {[opt |-> "?", arg |-> <<>>]}

MCPasswd == <<"u">> :> 4
MCGroup == <<"w">> :> 5
\* the rlimit resources of Cmdline (Resources), spelled out: these values are
\* substituted into Parser, so they cannot be defined through it
MCResources == {"as", "core", "cpu", "fsize", "nofile", "nproc", "stack"}
MCSoft == [r \in MCResources |-> 100]
MCHard == [r \in MCResources |-> 2^Width - 1]

=============================================================================
