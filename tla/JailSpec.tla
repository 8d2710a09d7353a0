------------------------------- MODULE JailSpec -------------------------------
(***************************************************************************)
(* What the Specification Assembler promises (spec.md 3, 4.4-4.6, 7): the  *)
(* whole command line is turned, in one step, either into no specification *)
(* at all or into the Jail Specification it denotes, where non-repeatable  *)
(* flags take their last occurrence, repeatable ones accumulate in order,  *)
(* the root entry and then /proc precede the explicit mounts, every tmpfs  *)
(* mount carries the final --tmpfs_size, and every limit is concrete.      *)
(*                                                                         *)
(* Identity values are not part of this abstraction: what the code does   *)
(* with them departs from spec.md and is checked by separate properties of *)
(* Cmdline.  Neither is the options string of the implicit root tmpfs      *)
(* (spec.md 4.4 says it carries the size; the code gives it none).         *)
(***************************************************************************)
EXTENDS CmdlineTokens, FiniteSets

CONSTANTS NULL, Args, MaxArgs, MiB, PasswdDB, GroupDB, SoftLimit, HardLimit

VARIABLES argv, hasCmd, logOk, outcome

Pending == [kind |-> "pending"]
NoSpec == [kind |-> "none"]
NoSize == -1

Occ(opts) == SelectSeq(argv, LAMBDA a : a.opt \in opts)
Has(opts) == Occ(opts) # <<>>
LastArg(opts) == Last(Occ(opts)).arg
Args2Seq(opts) == [i \in 1..Len(Occ(opts)) |-> Occ(opts)[i].arg]

(* spec.md 4.1: split at the first colon; head before it, tail after it; *)
(* with no colon the tail is the head itself ("no second part given").  *)
Split(s) ==
  LET colons == {i \in 1..Len(s) : s[i] = ":"}
  IN IF colons = {} THEN [head |-> s, tail |-> s, split |-> FALSE]
     ELSE [head |-> SubSeq(s, 1, Min(colons) - 1),
           tail |-> SubSeq(s, Min(colons) + 1, Len(s)), split |-> TRUE]

\* spec.md 6: the limit flags, with the MB ones scaled by MiB
LimitRes == [rlimit_as |-> "as", rlimit_core |-> "core", rlimit_cpu |-> "cpu",
             rlimit_fsize |-> "fsize", rlimit_nofile |-> "nofile",
             rlimit_nproc |-> "nproc", rlimit_stack |-> "stack"]
Unit(r) == IF r \in {"as", "core", "fsize", "stack"} THEN MiB ELSE 1
\* the documented defaults: 512 MB, 0, 600 s, 1 MB, 32, 'def', 'def'
DefaultLimit(r) ==
  CASE r = "as" -> 512 * MiB [] r = "cpu" -> 600 [] r = "fsize" -> MiB
    [] r = "nofile" -> 32 [] r \in {"nproc", "stack"} -> SoftLimit[r] [] OTHER -> 0
IsMax(s) == CaseEq(s, <<"m", "a", "x">>)
IsDef(s) == CaseEq(s, <<"d", "e", "f">>)
LimitOK(s, r) == IsMax(s) \/ IsDef(s) \/ (SpecIsNumber(s) /\ SpecValue(s) * Unit(r) <= ULLONG_MAX)
LimitValue(s, r) ==
  CASE IsMax(s) -> HardLimit[r] [] IsDef(s) -> SoftLimit[r]
    [] OTHER -> SpecValue(s) * Unit(r)

\* spec.md 4.2: a name of the database, or a number
Resolvable(db, s) == s \in DOMAIN db \/ SpecIsNumber(s)
IdentityFails(opt, db) ==
  /\ Has({opt})
  /\ LET sp == Split(LastArg({opt}))
     IN ~Resolvable(db, sp.head) \/ (sp.split /\ ~Resolvable(db, sp.tail))

ModeNamed == [l |-> "LISTEN_TCP", o |-> "STANDALONE_ONCE",
              e |-> "STANDALONE_EXECVE", r |-> "STANDALONE_RERUN"]

(* spec.md 7: every way the assembly is abandoned.                         *)
Fails ==
  \/ Has({"help", "?"})
  \/ \E i \in 1..Len(Occ({"mode"})) :
        Occ({"mode"})[i].arg \notin {<<c>> : c \in DOMAIN ModeNamed}
  \/ \E i \in 1..Len(Occ(DOMAIN LimitRes)) :
        LET a == Occ(DOMAIN LimitRes)[i] IN ~LimitOK(a.arg, LimitRes[a.opt])
  \/ IdentityFails("user", PasswdDB)
  \/ IdentityFails("group", GroupDB)
  \/ ~logOk            \* the log file (-l or /proc/self/fd/2) cannot be opened
  \/ ~hasCmd

-----------------------------------------------------------------------------
Mode ==
  IF ~Has({"port", "mode"}) THEN "STANDALONE_ONCE"
  ELSE LET a == Last(Occ({"port", "mode"}))
       IN IF a.opt = "port" THEN "LISTEN_TCP" ELSE ModeNamed[a.arg[1]]

NsKinds == {"net", "user", "ns", "pid", "ipc", "uts", "cgroup"}
Namespaces ==
  [k \in NsKinds |-> IF k = "cgroup" THEN Has({"enable_clone_newcgroup"})
                     ELSE ~Has({"disable_clone_new" \o k})]

Personality ==
  LET bit == [persona_addr_compat_layout |-> "ADDR_COMPAT_LAYOUT",
              persona_mmap_page_zero |-> "MMAP_PAGE_ZERO",
              persona_read_implies_exec |-> "READ_IMPLIES_EXEC",
              persona_addr_limit_3gb |-> "ADDR_LIMIT_3GB",
              persona_addr_no_randomize |-> "ADDR_NO_RANDOMIZE"]
  IN {bit[o] : o \in {o \in DOMAIN bit : Has({o})}}

TmpfsSize == IF Has({"tmpfs_size"}) THEN SpecValue(LastArg({"tmpfs_size"})) ELSE 4 * MiB

Explicit(a) ==
  LET sp == Split(a.arg)
  IN CASE a.opt = "tmpfsmount" ->
            [src |-> NULL, dst |-> a.arg, type |-> "tmpfs", flags |-> {}, size |-> TmpfsSize]
       [] a.opt = "bindmount_ro" ->
            [src |-> sp.head, dst |-> sp.tail, type |-> "",
             flags |-> {"MS_BIND", "MS_REC", "MS_RDONLY"}, size |-> NoSize]
       [] OTHER ->
            [src |-> sp.head, dst |-> sp.tail, type |-> "",
             flags |-> {"MS_BIND", "MS_REC"}, size |-> NoSize]

MountTable ==
  LET ro == IF Has({"rw"}) THEN {} ELSE {"MS_RDONLY"}
      root == IF Has({"chroot"})
                THEN [src |-> LastArg({"chroot"}), dst |-> <<"/">>, type |-> "",
                      flags |-> {"MS_BIND", "MS_REC"} \cup ro, size |-> NoSize]
                ELSE [src |-> NULL, dst |-> <<"/">>, type |-> "tmpfs",
                      flags |-> ro, size |-> NoSize]
      proc == [src |-> NULL, dst |-> <<"/proc">>, type |-> "proc", flags |-> {},
               size |-> NoSize]
      ex == Occ({"bindmount_ro", "bindmount", "tmpfsmount"})
  IN <<root>> \o (IF Has({"disable_proc"}) THEN <<>> ELSE <<proc>>)
       \o [i \in 1..Len(ex) |-> Explicit(ex[i])]

Mappings(opt) ==
  LET ms == Occ({opt})
      triple(s) == LET first == Split(s)
                       second == Split(first.tail)
                   IN [inside_id |-> first.head, outside_id |-> second.head,
                       count |-> second.tail]
  IN [i \in 1..Len(ms) |-> triple(ms[i].arg)]

Assembled ==
  [mode |-> Mode, ns |-> Namespaces, personality |-> Personality,
   mounts |-> MountTable,
   uid_mappings |-> Mappings("uid_mapping"), gid_mappings |-> Mappings("gid_mapping"),
   fds |-> {0, 1, 2} \cup {SpecValue(a) : a \in Range(Args2Seq({"pass_fd"}))},
   envs |-> Args2Seq({"env"}),
   rl |-> [r \in {LimitRes[o] : o \in DOMAIN LimitRes} |->
             LET o == CHOOSE o \in DOMAIN LimitRes : LimitRes[o] = r
             IN IF Has({o}) THEN LimitValue(LastArg({o}), r) ELSE DefaultLimit(r)]]

-----------------------------------------------------------------------------
Init ==
  /\ argv \in SeqOf(Args, MaxArgs)
  /\ hasCmd \in BOOLEAN
  /\ logOk \in BOOLEAN
  /\ outcome = Pending

Assemble ==
  /\ outcome = Pending
  /\ outcome' = IF Fails THEN NoSpec ELSE [kind |-> "spec", spec |-> Assembled]
  /\ UNCHANGED <<argv, hasCmd, logOk>>

Spec == Init /\ [][Assemble]_<<argv, hasCmd, logOk, outcome>>

=============================================================================
