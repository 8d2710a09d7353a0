----------------------------- MODULE GetoptLong -----------------------------
(***************************************************************************)
(* The option table of cmdlineParse (custom_opts) and what the loop        *)
(*   for (;;) { c = getopt_long(argc, argv, "H:D:c:...", opts, &idx); ... } *)
(* followed by nsjconf->argv = &argv[optind] makes of the raw words of the *)
(* command line: the sequence of option occurrences the switch sees and   *)
(* the command vector.  getopt_long is glibc's: with an optstring that     *)
(* starts with neither '+' nor '-' it permutes (skips non-options and      *)
(* moves them behind the options) unless POSIXLY_CORRECT is set in the     *)
(* environment, in which case it stops at the first non-option.            *)
(*                                                                         *)
(* A raw word is a record [kind, opt, text]: kind "opt" is a word naming   *)
(* option opt (short or long form alike), "end" is "--", "plain" is any   *)
(* other word.  text is the word itself, which an option requiring an      *)
(* argument takes from the next word whatever that word looks like.        *)
(***************************************************************************)
EXTENDS Naturals, Sequences

(* custom_opts: every long option and whether it has required_argument.   *)
NoArgOpts ==
  {"help", "rw", "daemon", "verbose", "keep_env", "keep_caps", "silent",
   "disable_sandbox", "skip_setsid", "pivot_root_only", "disable_no_new_privs",
   "persona_addr_compat_layout", "persona_mmap_page_zero",
   "persona_read_implies_exec", "persona_addr_limit_3gb",
   "persona_addr_no_randomize", "disable_clone_newnet", "disable_clone_newuser",
   "disable_clone_newns", "disable_clone_newpid", "disable_clone_newipc",
   "disable_clone_newuts", "enable_clone_newcgroup", "disable_proc", "iface_no_lo"}
ArgOpts ==
  {"mode", "chroot", "user", "group", "hostname", "cwd", "port", "bindhost",
   "max_conns_per_ip", "log", "time_limit", "env", "pass_fd", "rlimit_as",
   "rlimit_core", "rlimit_cpu", "rlimit_fsize", "rlimit_nofile", "rlimit_nproc",
   "rlimit_stack", "uid_mapping", "gid_mapping", "bindmount_ro", "bindmount",
   "tmpfsmount", "tmpfs_size", "cgroup_mem_max", "cgroup_mem_mount",
   "cgroup_mem_parent", "iface", "iface_vs_ip", "iface_vs_nm", "iface_vs_gw"}
CustomOpts == [o \in NoArgOpts \cup ArgOpts |-> o \in ArgOpts]

Texts(ws) == [i \in 1..Len(ws) |-> ws[i].text]

(***************************************************************************)
(* The successive getopt_long calls.  ws are the words not yet scanned,    *)
(* opts the occurrences returned so far, skipped the non-options passed   *)
(* over (permuting mode only).  An unknown option, or a last word that     *)
(* needs an argument, is returned as '?'.  "--" ends the options; the      *)
(* command vector (argv + optind afterwards) is the skipped non-options    *)
(* followed by what remains.                                               *)
(***************************************************************************)
RECURSIVE Scan(_, _, _, _)
Scan(ws, opts, skipped, permute) ==
  IF ws = <<>> THEN [opts |-> opts, cmd |-> skipped]
  ELSE LET w == Head(ws)
           Returned(o, a) == Append(opts, [opt |-> o, arg |-> a])
       IN CASE w.kind = "end" -> [opts |-> opts, cmd |-> skipped \o Texts(Tail(ws))]
            [] w.kind = "plain" /\ ~permute -> [opts |-> opts, cmd |-> Texts(ws)]
            [] w.kind = "plain" -> Scan(Tail(ws), opts, Append(skipped, w.text), permute)
            [] w.opt \notin DOMAIN CustomOpts ->
                 Scan(Tail(ws), Returned("?", <<>>), skipped, permute)
            [] ~CustomOpts[w.opt] -> Scan(Tail(ws), Returned(w.opt, <<>>), skipped, permute)
            [] Tail(ws) = <<>> -> [opts |-> Returned("?", <<>>), cmd |-> skipped]
            [] OTHER -> Scan(Tail(Tail(ws)), Returned(w.opt, Head(Tail(ws)).text),
                             skipped, permute)

GetoptLoop(ws, permute) == Scan(ws, <<>>, <<>>, permute)

=============================================================================
