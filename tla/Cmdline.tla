------------------------------- MODULE Cmdline -------------------------------
(***************************************************************************)
(* cmdlineParse of src/cmdline.c: the defaults, the getopt_long loop with  *)
(* one action per case of its switch, and the steps after the loop (the   *)
(* implicit mounts, log initialisation, user and group resolution and the  *)
(* command check).  argv is chosen in Init from the option occurrences in  *)
(* Args; getopt_long's own scanning is abstracted: argv is the sequence of *)
(* (option, optarg) pairs it returns, and hasCmd says whether anything is  *)
(* left at argv[optind] afterwards.                                        *)
(***************************************************************************)
EXTENDS CmdlineTokens, FiniteSets, GetoptLong

CONSTANTS
  NULL,          \* the NULL pointer
  Args,          \* option occurrences getopt_long may return: [opt, arg]
  MaxArgs,       \* bound on the number of option occurrences in argv
  MiB,           \* the (1024 * 1024) multiplier of MB limits, scaled with Width
  UidWidth,      \* bits of uid_t and gid_t (32 in the build)
  PasswdDB,      \* getpwnam: user name token -> uid
  GroupDB,       \* getgrnam: group name token -> gid
  InvokerUid,    \* getuid()
  InvokerGid,    \* getgid()
  SoftLimit,     \* prlimit64(0, res): rlim_cur of every resource
  HardLimit      \* prlimit64(0, res): rlim_max of every resource

VARIABLES
  argv, hasCmd,  \* the command line, fixed for a behaviour
  logOk,         \* whether logInitLogFile can open its log file
  optind,        \* index of the next option occurrence getopt_long returns
  pc,            \* "getopt", "mounts", "log", "uid", "gid", "argv", "done"
  status,        \* "running", "ok" (returns true), "false" (returns false),
                 \* "exit0" (cmdlineUsage: exit(0)), "fatal" (LOG_F/PLOG_F)
  conf,          \* *nsjconf
  user, group, logfile,  \* the locals holding the -u, -g and -l arguments
  tmpfsSz,       \* static char cmdlineTmpfsSz[]: the size it prints
  errno

vars == <<argv, hasCmd, logOk, optind, pc, status, conf, user, group, logfile,
          tmpfsSz, errno>>

-----------------------------------------------------------------------------
(* The option table (custom_opts) grouped by what the switch does.          *)
StrOpts == {"hostname", "cwd", "chroot", "bindhost", "iface", "iface_vs_ip",
            "iface_vs_nm", "iface_vs_gw", "cgroup_mem_mount", "cgroup_mem_parent"}
NumField == [max_conns_per_ip |-> "max_conns_per_ip", time_limit |-> "tlimit",
             cgroup_mem_max |-> "cgroup_mem_max"]
NumFields == {"port", "max_conns_per_ip", "tlimit", "tmpfs_size", "cgroup_mem_max"}
FlagOpt == [daemon |-> <<"daemonize", TRUE>>, verbose |-> <<"verbose", TRUE>>,
            keep_env |-> <<"keep_env", TRUE>>, keep_caps |-> <<"keep_caps", TRUE>>,
            silent |-> <<"is_silent", TRUE>>, disable_sandbox |-> <<"apply_sandbox", FALSE>>,
            skip_setsid |-> <<"skip_setsid", TRUE>>,
            pivot_root_only |-> <<"pivot_root_only", TRUE>>,
            disable_no_new_privs |-> <<"disable_no_new_privs", TRUE>>,
            rw |-> <<"is_root_rw", TRUE>>, disable_proc |-> <<"mount_proc", FALSE>>,
            iface_no_lo |-> <<"iface_no_lo", TRUE>>,
            disable_clone_newnet |-> <<"clone_newnet", FALSE>>,
            disable_clone_newuser |-> <<"clone_newuser", FALSE>>,
            disable_clone_newns |-> <<"clone_newns", FALSE>>,
            disable_clone_newpid |-> <<"clone_newpid", FALSE>>,
            disable_clone_newipc |-> <<"clone_newipc", FALSE>>,
            disable_clone_newuts |-> <<"clone_newuts", FALSE>>,
            enable_clone_newcgroup |-> <<"clone_newcgroup", TRUE>>]
FlagFields == {FlagOpt[o][1] : o \in DOMAIN FlagOpt}
Resources == {"as", "core", "cpu", "fsize", "nofile", "nproc", "stack"}
RlimitOpt == [rlimit_as |-> <<"as", MiB>>, rlimit_core |-> <<"core", MiB>>,
              rlimit_cpu |-> <<"cpu", 1>>, rlimit_fsize |-> <<"fsize", MiB>>,
              rlimit_nofile |-> <<"nofile", 1>>, rlimit_nproc |-> <<"nproc", 1>>,
              rlimit_stack |-> <<"stack", MiB>>]
PersonaOpt == [persona_addr_compat_layout |-> "ADDR_COMPAT_LAYOUT",
               persona_mmap_page_zero |-> "MMAP_PAGE_ZERO",
               persona_read_implies_exec |-> "READ_IMPLIES_EXEC",
               persona_addr_limit_3gb |-> "ADDR_LIMIT_3GB",
               persona_addr_no_randomize |-> "ADDR_NO_RANDOMIZE"]
ModeLetter == [l |-> "LISTEN_TCP", o |-> "STANDALONE_ONCE",
               e |-> "STANDALONE_EXECVE", r |-> "STANDALONE_RERUN"]
Modes == {ModeLetter[c] : c \in DOMAIN ModeLetter}
BindFlags == [bindmount_ro |-> {"MS_BIND", "MS_REC", "MS_RDONLY"},
              bindmount |-> {"MS_BIND", "MS_REC"}]
TmpfsRef == "cmdlineTmpfsSz"   \* options pointing at the static buffer
Slash == <<"/">>
ProcPath == <<"/proc">>

\* the options some case of the switch handles: every option of custom_opts
Handled ==
  StrOpts \cup DOMAIN NumField \cup DOMAIN FlagOpt \cup DOMAIN RlimitOpt
    \cup DOMAIN PersonaOpt \cup DOMAIN BindFlags
    \cup {"help", "port", "user", "group", "log", "pass_fd", "tmpfs_size", "env",
        "uid_mapping", "gid_mapping", "tmpfsmount", "mode"}
ASSUME Handled = DOMAIN CustomOpts
ASSUME \A a \in Args : a.opt \in Handled \cup {"?"}

-----------------------------------------------------------------------------
(* The compound literal that resets *nsjconf, and the three standard fds   *)
(* inserted at the head of open_fds.                                       *)
DefaultConf ==
  [str |-> [f \in StrOpts |->
              CASE f = "hostname" -> <<"NSJAIL">> [] f = "cwd" -> Slash
                [] f = "bindhost" -> <<"::">> [] f = "iface_vs_ip" -> <<"0.0.0.0">>
                [] f = "iface_vs_nm" -> <<"255.255.255.0">>
                [] f = "iface_vs_gw" -> <<"0.0.0.0">>
                [] f = "cgroup_mem_mount" -> <<"/sys/fs/cgroup/memory">>
                [] f = "cgroup_mem_parent" -> <<"NSJAIL">>
                [] OTHER -> NULL],
   num |-> [f \in NumFields |-> IF f = "tmpfs_size" THEN 4 * MiB ELSE 0],
   flag |-> [f \in FlagFields |->
               f \in {"apply_sandbox", "mount_proc", "clone_newnet", "clone_newuser",
                      "clone_newns", "clone_newpid", "clone_newipc", "clone_newuts"}],
   rl |-> [r \in Resources |->
             CASE r = "as" -> 512 * MiB [] r = "cpu" -> 600 [] r = "fsize" -> 1 * MiB
               [] r = "nofile" -> 32 [] r \in {"nproc", "stack"} -> SoftLimit[r]
               [] OTHER -> 0],
   personality |-> {}, mode |-> "STANDALONE_ONCE",
   inside_uid |-> InvokerUid, outside_uid |-> InvokerUid,
   inside_gid |-> InvokerGid, outside_gid |-> InvokerGid,
   mountpts |-> <<>>, uid_mappings |-> <<>>, gid_mappings |-> <<>>,
   open_fds |-> <<2, 1, 0>>, envs |-> <<>>]

Init ==
  /\ argv \in SeqOf(Args, MaxArgs)
  /\ hasCmd \in BOOLEAN
  /\ logOk \in BOOLEAN
  /\ optind = 1
  /\ pc = "getopt"
  /\ status = "running"
  /\ conf = DefaultConf
  /\ user = NULL /\ group = NULL /\ logfile = NULL
  /\ tmpfsSz = 4 * MiB
  /\ errno = 0

-----------------------------------------------------------------------------
(* One iteration of the getopt_long loop returning option occurrence Cur.  *)
Cur == argv[optind]
Consume(opts) ==
  /\ pc = "getopt" /\ optind <= Len(argv) /\ Cur.opt \in opts
  /\ optind' = optind + 1

Continue == UNCHANGED <<argv, hasCmd, logOk, pc, status>>
Locals == <<user, group, logfile>>

\* exit(0) from cmdlineUsage, or a LOG_F; nothing of the state matters after
Stop(how) ==
  /\ status' = how /\ pc' = "done"
  /\ UNCHANGED <<argv, hasCmd, logOk, conf, user, group, logfile, tmpfsSz, errno>>

SetStr ==
  /\ Consume(StrOpts)
  /\ conf' = [conf EXCEPT !.str[Cur.opt] = Cur.arg]
  /\ Continue /\ UNCHANGED <<Locals, tmpfsSz, errno>>

SetNum ==
  /\ Consume(DOMAIN NumField)
  /\ LET conv == IF Cur.opt = "time_limit" THEN Strtol(Cur.arg) ELSE Strtoul(Cur.arg)
     IN /\ conf' = [conf EXCEPT !.num[NumField[Cur.opt]] = conv.val]
        /\ errno' = ErrnoAfter(conv, errno)
  /\ Continue /\ UNCHANGED <<Locals, tmpfsSz>>

SetFlag ==
  /\ Consume(DOMAIN FlagOpt)
  /\ conf' = [conf EXCEPT !.flag[FlagOpt[Cur.opt][1]] = FlagOpt[Cur.opt][2]]
  /\ Continue /\ UNCHANGED <<Locals, tmpfsSz, errno>>

\* -u, -g and -l only remember their argument
SetLocal ==
  /\ Consume({"user", "group", "log"})
  /\ user' = IF Cur.opt = "user" THEN Cur.arg ELSE user
  /\ group' = IF Cur.opt = "group" THEN Cur.arg ELSE group
  /\ logfile' = IF Cur.opt = "log" THEN Cur.arg ELSE logfile
  /\ Continue /\ UNCHANGED <<conf, tmpfsSz, errno>>

\* 'h' and '?' (an unknown option or a missing argument): usage, exit(0)
Help ==
  /\ Consume({"help", "?"})
  /\ Stop("exit0")

Port ==
  /\ Consume({"port"})
  /\ conf' = [conf EXCEPT !.num["port"] = Strtoul(Cur.arg).val,
                          !.mode = "LISTEN_TCP"]
  /\ errno' = ErrnoAfter(Strtoul(Cur.arg), errno)
  /\ Continue /\ UNCHANGED <<Locals, tmpfsSz>>

(* cmdlineParseRLimit(res, optarg, mul) and the assignment of its result.  *)
ParseRLimit ==
  /\ Consume(DOMAIN RlimitOpt)
  /\ LET r == RlimitOpt[Cur.opt][1]
         conv == Strtoull(Cur.arg)
         val == (conv.val * RlimitOpt[Cur.opt][2]) % 2^Width
         err == ErrnoAfter(conv, errno)
         Set(v) == conf' = [conf EXCEPT !.rl[r] = v]
         sentinel == CaseEq(Cur.arg, <<"m", "a", "x">>) \/ CaseEq(Cur.arg, <<"d", "e", "f">>)
     IN \/ /\ CaseEq(Cur.arg, <<"m", "a", "x">>)
           /\ Set(HardLimit[r]) /\ UNCHANGED errno /\ Continue
        \/ /\ CaseEq(Cur.arg, <<"d", "e", "f">>)
           /\ Set(SoftLimit[r]) /\ UNCHANGED errno /\ Continue
        \/ /\ ~sentinel /\ ~IsANumber(Cur.arg)
           /\ Stop("fatal")
        \/ /\ ~sentinel /\ IsANumber(Cur.arg)
           /\ val = ULLONG_MAX /\ err # 0
           /\ status' = "fatal" /\ pc' = "done" /\ errno' = err
           /\ UNCHANGED <<argv, hasCmd, logOk, conf>>
        \/ /\ ~sentinel /\ IsANumber(Cur.arg)
           /\ ~(val = ULLONG_MAX /\ err # 0)
           /\ Set(val) /\ errno' = err /\ Continue
  /\ UNCHANGED <<Locals, tmpfsSz>>

Persona ==
  /\ Consume(DOMAIN PersonaOpt)
  /\ conf' = [conf EXCEPT !.personality = @ \cup {PersonaOpt[Cur.opt]}]
  /\ Continue /\ UNCHANGED <<Locals, tmpfsSz, errno>>

(* (int) of a long: gcc keeps the low bits as two's complement; int is as *)
(* wide as uid_t in the build (32 bits, UidWidth in the model).           *)
IntCast(v) ==
  LET low == v % 2^UidWidth
  IN IF low >= 2^(UidWidth - 1) THEN low - 2^UidWidth ELSE low

\* --pass_fd: (int)strtol, inserted at the head of open_fds
PassFd ==
  /\ Consume({"pass_fd"})
  /\ conf' = [conf EXCEPT !.open_fds = <<IntCast(Strtol(Cur.arg).val)>> \o @]
  /\ errno' = ErrnoAfter(Strtol(Cur.arg), errno)
  /\ Continue /\ UNCHANGED <<Locals, tmpfsSz>>

\* --tmpfs_size rewrites the static buffer every tmpfs entry points at
TmpfsSize ==
  /\ Consume({"tmpfs_size"})
  /\ conf' = [conf EXCEPT !.num["tmpfs_size"] = Strtoull(Cur.arg).val]
  /\ tmpfsSz' = Strtoull(Cur.arg).val
  /\ errno' = ErrnoAfter(Strtoull(Cur.arg), errno)
  /\ Continue /\ UNCHANGED Locals

Env ==
  /\ Consume({"env"})
  /\ conf' = [conf EXCEPT !.envs = Append(@, Cur.arg)]
  /\ Continue /\ UNCHANGED <<Locals, tmpfsSz, errno>>

(* -U / -G: inside_id is optarg, outside_id what the first split returns,  *)
(* count what splitting outside_id returns.                                 *)
\* variant splitting optarg again, which the first split cut at its colon
MappingOfResplit(s) ==
  LET first == SplitStrByColon(s)
  IN [inside_id |-> first.head, outside_id |-> SplitStrByColon(first.tail).head,
      count |-> SplitStrByColon(first.head).tail]

MappingOf(s) ==
  LET first == SplitStrByColon(s)
      second == SplitStrByColon(first.tail)
  IN [inside_id |-> first.head, outside_id |-> second.head, count |-> second.tail]

Mapping ==
  /\ Consume({"uid_mapping", "gid_mapping"})
  /\ IF Cur.opt = "uid_mapping"
       THEN conf' = [conf EXCEPT !.uid_mappings = Append(@, MappingOf(Cur.arg))]
       ELSE conf' = [conf EXCEPT !.gid_mappings = Append(@, MappingOf(Cur.arg))]
  /\ Continue /\ UNCHANGED <<Locals, tmpfsSz, errno>>

BindMount ==
  /\ Consume(DOMAIN BindFlags)
  /\ LET sp == SplitStrByColon(Cur.arg)
     IN conf' = [conf EXCEPT !.mountpts =
                   Append(@, [src |-> sp.head, dst |-> sp.tail, flags |-> BindFlags[Cur.opt],
                              options |-> "", fs_type |-> ""])]
  /\ Continue /\ UNCHANGED <<Locals, tmpfsSz, errno>>

\* variant giving each -T its own empty options, as the implicit root tmpfs gets
TmpfsMountUnsized ==
  /\ Consume({"tmpfsmount"})
  /\ conf' = [conf EXCEPT !.mountpts =
                Append(@, [src |-> NULL, dst |-> Cur.arg, flags |-> {},
                           options |-> "", fs_type |-> "tmpfs"])]
  /\ Continue /\ UNCHANGED <<Locals, tmpfsSz, errno>>

TmpfsMount ==
  /\ Consume({"tmpfsmount"})
  /\ conf' = [conf EXCEPT !.mountpts =
                Append(@, [src |-> NULL, dst |-> Cur.arg, flags |-> {},
                           options |-> TmpfsRef, fs_type |-> "tmpfs"])]
  /\ Continue /\ UNCHANGED <<Locals, tmpfsSz, errno>>

\* -M switches on optarg[0]; any other character prints usage and exits 0
Mode ==
  /\ Consume({"mode"})
  /\ \/ /\ Cur.arg # <<>> /\ Cur.arg[1] \in DOMAIN ModeLetter
        /\ conf' = [conf EXCEPT !.mode = ModeLetter[Cur.arg[1]]]
        /\ Continue /\ UNCHANGED <<Locals, tmpfsSz, errno>>
     \/ /\ ~(Cur.arg # <<>> /\ Cur.arg[1] \in DOMAIN ModeLetter)
        /\ Stop("exit0")

\* getopt_long returns -1
GetoptDone ==
  /\ pc = "getopt" /\ optind > Len(argv)
  /\ pc' = "mounts"
  /\ UNCHANGED <<argv, hasCmd, logOk, optind, status, conf, Locals, tmpfsSz, errno>>

-----------------------------------------------------------------------------
\* variant inserting the root entry before /proc is put at the head
ImplicitMountsProcFirst ==
  /\ pc = "mounts"
  /\ LET ro == IF conf.flag["is_root_rw"] THEN {} ELSE {"MS_RDONLY"}
         chroot == conf.str["chroot"]
         proc == [src |-> NULL, dst |-> ProcPath, flags |-> {}, options |-> "",
                  fs_type |-> "proc"]
         root == IF chroot # NULL
                   THEN [src |-> chroot, dst |-> Slash, flags |-> {"MS_BIND", "MS_REC"} \cup ro,
                         options |-> "", fs_type |-> ""]
                   ELSE [src |-> NULL, dst |-> Slash, flags |-> ro, options |-> "",
                         fs_type |-> "tmpfs"]
         withRoot == <<root>> \o conf.mountpts
     IN conf' = [conf EXCEPT !.mountpts =
                   IF conf.flag["mount_proc"] THEN <<proc>> \o withRoot ELSE withRoot]
  /\ pc' = "log"
  /\ UNCHANGED <<argv, hasCmd, logOk, optind, status, Locals, tmpfsSz, errno>>

(* After the loop: /proc, then the root entry, both at the head.            *)
ImplicitMounts ==
  /\ pc = "mounts"
  /\ LET ro == IF conf.flag["is_root_rw"] THEN {} ELSE {"MS_RDONLY"}
         chroot == conf.str["chroot"]
         proc == [src |-> NULL, dst |-> ProcPath, flags |-> {}, options |-> "",
                  fs_type |-> "proc"]
         root == IF chroot # NULL
                   THEN [src |-> chroot, dst |-> Slash, flags |-> {"MS_BIND", "MS_REC"} \cup ro,
                         options |-> "", fs_type |-> ""]
                   ELSE [src |-> NULL, dst |-> Slash, flags |-> ro, options |-> "",
                         fs_type |-> "tmpfs"]
         withProc == IF conf.flag["mount_proc"] THEN <<proc>> \o conf.mountpts
                     ELSE conf.mountpts
     IN conf' = [conf EXCEPT !.mountpts = <<root>> \o withProc]
  /\ pc' = "log"
  /\ UNCHANGED <<argv, hasCmd, logOk, optind, status, Locals, tmpfsSz, errno>>

\* variant that carries on after logInitLogFile fails (a missing return)
LogInitNoReturn ==
  /\ pc = "log"
  /\ \/ ~logOk /\ status' = "false" /\ pc' = "uid"
     \/ logOk /\ pc' = "uid" /\ UNCHANGED status
  /\ UNCHANGED <<argv, hasCmd, logOk, optind, conf, Locals, tmpfsSz, errno>>

(* logInitLogFile (outside src/) opens the -l file, or /proc/self/fd/2     *)
(* when none was given (the --log help text); either open can fail.        *)
LogInit ==
  /\ pc = "log"
  /\ \/ ~logOk /\ status' = "false" /\ pc' = "done"
     \/ logOk /\ pc' = "uid" /\ UNCHANGED status
  /\ UNCHANGED <<argv, hasCmd, logOk, optind, conf, Locals, tmpfsSz, errno>>

(* One side of cmdlineParseUid/Gid: the name database first, then a       *)
(* number converted by strtoull and cast to the UidWidth-bit id type.      *)
ResolveId(db, s) ==
  CASE s \in DOMAIN db -> [ok |-> TRUE, id |-> db[s], erange |-> FALSE]
    [] IsANumber(s) -> [ok |-> TRUE, id |-> Strtoull(s).val % 2^UidWidth,
                        erange |-> Strtoull(s).erange]
    [] OTHER -> [ok |-> FALSE, id |-> 0, erange |-> FALSE]

ParseId(tok, db, insideF, outsideF, next) ==
  LET sp == SplitStrByColon(tok)
      in == ResolveId(db, sp.head)
      out == ResolveId(db, sp.tail)
      Fail == status' = "false" /\ pc' = "done"
      Go == pc' = next /\ UNCHANGED status
  IN \/ tok = NULL /\ Go /\ UNCHANGED <<conf, errno>>
     \/ tok # NULL /\ ~in.ok /\ Fail /\ UNCHANGED <<conf, errno>>
     \/ /\ tok # NULL /\ in.ok /\ ~sp.split /\ Go
        /\ conf' = [conf EXCEPT ![insideF] = in.id]
        /\ errno' = ErrnoAfter(in, errno)
     \/ /\ tok # NULL /\ in.ok /\ sp.split /\ ~out.ok /\ Fail
        /\ conf' = [conf EXCEPT ![insideF] = in.id]
        /\ errno' = ErrnoAfter(in, errno)
     \/ /\ tok # NULL /\ in.ok /\ sp.split /\ out.ok /\ Go
        /\ conf' = [conf EXCEPT ![insideF] = in.id, ![outsideF] = out.id]
        /\ errno' = ErrnoAfter(out, ErrnoAfter(in, errno))

ParseUid ==
  /\ pc = "uid"
  /\ ParseId(user, PasswdDB, "inside_uid", "outside_uid", "gid")
  /\ UNCHANGED <<argv, hasCmd, logOk, optind, Locals, tmpfsSz>>

ParseGid ==
  /\ pc = "gid"
  /\ ParseId(group, GroupDB, "inside_gid", "outside_gid", "argv")
  /\ UNCHANGED <<argv, hasCmd, logOk, optind, Locals, tmpfsSz>>

\* nsjconf->argv = &argv[optind]; no command: usage, exit(0)
CheckArgv ==
  /\ pc = "argv"
  /\ status' = IF hasCmd THEN "ok" ELSE "exit0"
  /\ pc' = "done"
  /\ UNCHANGED <<argv, hasCmd, logOk, optind, conf, Locals, tmpfsSz, errno>>

Next ==
  \/ SetStr \/ SetNum \/ SetFlag \/ SetLocal \/ Help \/ Port \/ ParseRLimit
  \/ Persona \/ PassFd \/ TmpfsSize \/ Env \/ Mapping \/ BindMount \/ TmpfsMount
  \/ Mode \/ GetoptDone
  \/ ImplicitMounts \/ LogInit \/ ParseUid \/ ParseGid \/ CheckArgv

Spec == Init /\ [][Next]_vars

-----------------------------------------------------------------------------
(***************************************************************************)
(* Properties.                                                             *)
(***************************************************************************)
Token == Seq(STRING)
MountEntry == [src : Token \cup {NULL}, dst : Token, flags : SUBSET {"MS_BIND", "MS_REC", "MS_RDONLY"},
               options : {"", TmpfsRef}, fs_type : {"", "tmpfs", "proc"}]
MappingEntry == [inside_id : Token, outside_id : Token, count : Token]

TypeOK ==
  /\ optind \in 1..MaxArgs + 1
  /\ pc \in {"getopt", "mounts", "log", "uid", "gid", "argv", "done"}
  /\ status \in {"running", "ok", "false", "exit0", "fatal"}
  /\ (status = "running") <=> (pc # "done")
  /\ conf.str \in [StrOpts -> Token \cup {NULL}]
  /\ conf.num \in [NumFields -> 0..ULLONG_MAX]
  /\ conf.flag \in [FlagFields -> BOOLEAN]
  /\ conf.rl \in [Resources -> 0..ULLONG_MAX]
  /\ conf.personality \subseteq {PersonaOpt[o] : o \in DOMAIN PersonaOpt}
  /\ conf.mode \in Modes
  /\ {conf.inside_uid, conf.outside_uid, conf.inside_gid, conf.outside_gid}
       \subseteq 0..2^UidWidth - 1
  /\ conf.mountpts \in Seq(MountEntry)
  /\ conf.uid_mappings \in Seq(MappingEntry) /\ conf.gid_mappings \in Seq(MappingEntry)
  /\ conf.open_fds \in Seq(-(2^(UidWidth - 1))..2^(UidWidth - 1) - 1)
  /\ conf.envs \in Seq(Token)
  /\ user \in Token \cup {NULL} /\ group \in Token \cup {NULL} /\ logfile \in Token \cup {NULL}
  /\ tmpfsSz \in 0..ULLONG_MAX
  /\ errno \in {0, ERANGE}

(* Refinement mapping: while cmdlineParse runs there is no specification;  *)
(* when it returns true, the configuration it leaves is the abstract one,   *)
(* each tmpfs entry's options read through the pointer it holds.           *)
AbsMount(m) ==
  [src |-> m.src, dst |-> m.dst, type |-> m.fs_type, flags |-> m.flags,
   size |-> IF m.options = TmpfsRef THEN tmpfsSz ELSE -1]

AbsOutcome ==
  CASE status = "running" -> [kind |-> "pending"]
    [] status = "ok" ->
         [kind |-> "spec",
          spec |-> [mode |-> conf.mode,
                    ns |-> [k \in {"net", "user", "ns", "pid", "ipc", "uts", "cgroup"} |->
                              conf.flag["clone_new" \o k]],
                    personality |-> conf.personality,
                    mounts |-> [i \in 1..Len(conf.mountpts) |-> AbsMount(conf.mountpts[i])],
                    uid_mappings |-> conf.uid_mappings, gid_mappings |-> conf.gid_mappings,
                    fds |-> Range(conf.open_fds), envs |-> conf.envs, rl |-> conf.rl]]
    [] OTHER -> [kind |-> "none"]

Abstract == INSTANCE JailSpec WITH outcome <- AbsOutcome

(* The parse as a whole implements the Specification Assembler of spec.md: *)
(* last occurrence wins (including --port against --mode), repeatable flags *)
(* accumulate in order, root and /proc precede the explicit mounts with    *)
(* --rw and --disable_proc seen wherever they occur, every --tmpfsmount    *)
(* sees the final --tmpfs_size, limits are resolved, and every failure     *)
(* leaves no specification.                                                *)
AssemblerRefined == Abstract!Spec

-----------------------------------------------------------------------------
(***************************************************************************)
(* What spec.md states of the parse, checked against what the code does.  *)
(***************************************************************************)
LastOcc(opts) == LET occ == SelectSeq(argv, LAMBDA a : a.opt \in opts)
                 IN IF occ = <<>> THEN NULL ELSE Last(occ).arg
Processed == {argv[i] : i \in 1..optind - 1}

(* spec.md 3: "Identity falls back inside==outside when no split form is  *)
(* given".  cmdlineParseUid returns at `str == second` once inside_uid is  *)
(* set, so the outside uid keeps the getuid() default.                     *)
OutsideUidFallsBack ==
  (status = "ok" /\ user # NULL /\ ~SplitStrByColon(user).split)
    => conf.outside_uid = conf.inside_uid

(* spec.md 4.2: a token that is no user name must be decimal or 0x-hex   *)
(* digits and is parsed as an unsigned integer (the name database first,   *)
(* as the code does, so that 4.2 and the "regardless of the name database" *)
(* of spec.md 8 do not conflict here).  The code casts strtoull's result   *)
(* to uid_t, so a number beyond it wraps, 2^32 to uid 0.                   *)
NumericUidExact ==
  LET head == SplitStrByColon(user).head
  IN (status = "ok" /\ user # NULL /\ SpecIsNumber(head) /\ head \notin DOMAIN PasswdDB)
       => conf.inside_uid = SpecValue(head)

(* spec.md 4.3: a numeric limit is the number times the unit multiplier,   *)
(* and overflow is fatal; cmdlineParseRLimit multiplies after strtoull and *)
(* its overflow test only looks for ULLONG_MAX.                            *)
NumericLimitExact ==
  status = "ok" =>
    \A o \in DOMAIN RlimitOpt :
      LET tok == LastOcc({o})
      IN (tok # NULL /\ SpecIsNumber(tok))
           => conf.rl[RlimitOpt[o][1]] = SpecValue(tok) * RlimitOpt[o][2]

(* spec.md 4.3: only a malformed or overflowing limit token is fatal.  The *)
(* overflow test of cmdlineParseRLimit reads errno without clearing it, so *)
(* an ERANGE left by an earlier strtoull can reject an in-range limit.     *)
ValidLimitToken(a) ==
  \/ CaseEq(a.arg, <<"m", "a", "x">>) \/ CaseEq(a.arg, <<"d", "e", "f">>)
  \/ SpecIsNumber(a.arg) /\ SpecValue(a.arg) * RlimitOpt[a.opt][2] <= ULLONG_MAX
LimitRejectedOnlyIfInvalid ==
  status = "fatal" =>
    \E a \in Processed : a.opt \in DOMAIN RlimitOpt /\ ~ValidLimitToken(a)

(* spec.md 6/7: only a help request exits with status 0; a usage error     *)
(* (unknown flag, bad mode letter, no command) terminates with failure.    *)
(* cmdlineUsage always calls exit(0).                                      *)
UsageErrorsFail ==
  status = "exit0" => \E a \in Processed : a.opt = "help"

(* spec.md 3: the Open Descriptor Set holds the standard streams "plus   *)
(* any explicitly added ones".  --pass_fd stores (int)strtol(optarg), so a *)
(* number beyond INT_MAX keeps another descriptor (4294967299 keeps fd 3)  *)
(* or a negative one, and the descriptor asked for is not kept.           *)
FdsAsGiven ==
  status = "ok" =>
    \A a \in Processed :
      (a.opt = "pass_fd" /\ SpecIsNumber(a.arg)) => SpecValue(a.arg) \in Range(conf.open_fds)

(* spec.md 6: the mode letters l, o, e and r select a mode, and "any other *)
(* letter is fatal".  The switch of the -M case reads only optarg[0], so  *)
(* '-M lol' or '-M once' is accepted as the mode of its first character.   *)
ModeFromWholeArgument ==
  status = "ok" =>
    \A a \in Processed : a.opt = "mode" => a.arg \in {<<"l">>, <<"o">>, <<"e">>, <<"r">>}

(* spec.md 4.4: the tmpfs size string is shared by every tmpfs entry,      *)
(* including the implicit root tmpfs; the code gives the root tmpfs "".    *)
TmpfsEntriesCarrySize ==
  status = "ok" =>
    \A i \in 1..Len(conf.mountpts) :
      conf.mountpts[i].fs_type = "tmpfs" => conf.mountpts[i].options = TmpfsRef

=============================================================================
