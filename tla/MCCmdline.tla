------------------------------ MODULE MCCmdline ------------------------------
(***************************************************************************)
(* Model values for Cmdline.  Widths are scaled (Width 16 for the 64-bit   *)
(* integers, MiB = 16, UidWidth 4 for uid_t) so that every overflow the    *)
(* build can reach is reachable with tokens of at most five characters.    *)
(***************************************************************************)
EXTENDS Cmdline

A(o, s) == [opt |-> o, arg |-> s]

MCPasswd == <<"u">> :> 4
MCGroup == <<"w">> :> 5
MCSoft == [r \in Resources |-> IF r = "nofile" THEN 1024 ELSE 100]
MCHard == [r \in Resources |-> IF r \in {"nofile", "nproc"} THEN 4096 ELSE ULLONG_MAX]

(* Every case of the switch once, with tokens on which the code and        *)
(* spec.md read numbers alike (the disagreements have runs of their own).  *)
ArgsCore ==
  { A("chroot", <<"c">>), A("hostname", <<"h">>), A("time_limit", <<"5">>),
    A("rw", <<>>), A("disable_proc", <<>>), A("disable_clone_newnet", <<>>),
    A("user", <<"u", ":", "7">>), A("user", <<"7", ":", "q">>), A("user", <<"q">>),
    A("group", <<"3">>), A("log", <<"l">>), A("help", <<>>), A("port", <<"8">>),
    A("mode", <<"e">>), A("mode", <<"z">>),
    A("rlimit_as", <<"M", "A", "X">>), A("rlimit_cpu", <<"d", "e", "f">>),
    A("rlimit_nofile", <<"9">>), A("rlimit_core", <<"k">>),
    A("rlimit_nproc", <<"9", "9", "9", "9", "9">>),
    A("persona_mmap_page_zero", <<>>), A("pass_fd", <<"5">>),
    A("tmpfs_size", <<"9">>), A("env", <<"v">>),
    A("uid_mapping", <<"0", ":", "7", ":", "1">>),
    A("bindmount_ro", <<"s", ":", "d">>), A("bindmount", <<"s">>),
    A("tmpfsmount", <<"t">>) }

(* The Mount and Mapping Table Builders' options, for longer command      *)
(* lines: two sizes, so that a -T sees a size set before and changed after *)
(* it, and mappings with one and with no colon, whose missing parts alias  *)
(* the ones given, interleaved in one table and split over two.           *)
ArgsMounts ==
  { A("tmpfsmount", <<"t">>), A("tmpfs_size", <<"9">>), A("tmpfs_size", <<"0", "x", "f">>),
    A("bindmount", <<"s", ":", "d">>), A("bindmount_ro", <<"s">>), A("rw", <<>>),
    A("disable_proc", <<>>), A("chroot", <<"c">>),
    A("uid_mapping", <<"0", ":", "7">>), A("gid_mapping", <<"5">>) }

ArgsUser == { A("user", <<"7">>), A("user", <<"u">>), A("user", <<"u", ":", "7">>) }
ArgsUidWide == { A("user", <<"1", "6">>), A("user", <<"9">>) }
\* 19 is beyond the scaled INT_MAX (7) and wraps to descriptor 3
ArgsFd == { A("pass_fd", <<"1", "9">>), A("pass_fd", <<"5">>) }
\* a mode word whose first letter is a mode, next to a plain mode letter
ArgsMode == { A("mode", <<"o", "n", "e">>), A("mode", <<"e">>) }
ArgsLimits == { A("rlimit_as", <<"4", "0", "9", "6">>), A("rlimit_as", <<"9">>),
                A("rlimit_cpu", <<"6", "0">>) }
ArgsStaleErrno == { A("tmpfs_size", <<"9", "9", "9", "9", "9">>),
                    A("rlimit_cpu", <<"6", "5", "5", "3", "5">>), A("rlimit_cpu", <<"6", "0">>) }
ArgsUsage == { A("mode", <<"o">>), A("mode", <<"z">>), A("help", <<>>), A("chroot", <<"c">>) }
ArgsTmpfs == { A("tmpfsmount", <<"t">>), A("tmpfs_size", <<"9">>), A("chroot", <<"c">>) }

=============================================================================
