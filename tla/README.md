# TLA+ models of nsjail's command-line front end

The repository's source is one file, `src/cmdline.c`. It turns argv into a
`struct nsjconf_t`, the Jail Specification that the execution engine (not in
this repository) consumes. This directory models that translation: what
`cmdlineParse` and its helpers do to the configuration for every command line
in a bounded set, and how that compares with what `spec.md` says the parser
produces.

## 1. Inventory

### Parts of the system and how they interact

| Part (spec.md name) | Code | State it changes | Interacts with |
|---|---|---|---|
| Option scanner | `custom_opts` (347-410), the `getopt_long` loop (419-425), `&argv[optind]` (719) | glibc's `optind` and its permutation of argv | Assembler (which option occurrences the switch sees, and the command vector) |
| Specifier Splitter | `cmdlineSplitStrByColon` (179-199) | writes a NUL into the token in place | Identity Resolver, Mount and Mapping builders |
| Number recognition | `cmdlineIsANumber` (146-154), `strtoull`/`strtoul`/`strtol` base 0 | `errno` (set on ERANGE, never cleared) | Identity and Limit Resolvers, `--port`, `--tmpfs_size`, `--pass_fd`, `--cgroup_*` |
| Limit Resolver | `cmdlineParseRLimit` (156-177) | reads `errno`, the process's current (soft, hard) limits | Assembler, the rlimit options |
| Identity Resolver | `cmdlineParseUid` / `cmdlineParseGid` (201-267) | `inside_uid/gid`, `outside_uid/gid` | name databases (getpwnam/getgrnam), runs after the loop |
| Mount Table Builder | `-R`/`-B`/`-T` cases (587-619), implicit mounts (675-706) | `mountpts`, the static `cmdlineTmpfsSz` buffer | `--tmpfs_size`, `--chroot`, `--rw`, `--disable_proc` |
| Mapping Table Builder | `-U`/`-G` cases (572-586) | `uid_mappings`, `gid_mappings` | Splitter |
| Specification Assembler | `cmdlineParse` (269-727) | every field of `nsjconf_t`, `optind`, the locals `logfile`, `user`, `group` | all of the above, `logInitLogFile`, `cmdlineUsage` |
| Log sink | `logInitLogFile` (not under `src/`) | log destination | called once after the loop; may fail |
| Help / parameter logging | `cmdlineHelp`, `cmdlineLogParams`, `cmdlineUsage` | none (output), but `cmdlineUsage` calls `exit(0)` | Assembler |

Everything is sequential: one pass over the options that getopt_long
returns, then a fixed sequence of post-loop steps. What makes the code hard
is therefore not concurrency but **order and hidden shared state**:

* glibc's `getopt_long` permutes argv (the optstring does not start with
  `+`), so a word that looks like an option is nsjail's own wherever it
  stands, even after the program name;
* a flag's effect depends on its position relative to others (`--port`
  and `-M` both set the mode; `--tmpfs_size` changes the size of every `-T`
  entry, earlier ones included, through a shared static buffer; `--rw`,
  `--chroot` and `--disable_proc` act only after the loop);
* `errno` carries state from one conversion to the next: an ERANGE left by
  any earlier conversion is read by `cmdlineParseRLimit`;
* integer edges: `strtoull(..) * mul` wraps modulo 2^64, and `(uid_t)`
  truncates to 32 bits;
* early returns: a failing step after another step has already changed the
  configuration (the inside uid is set before the outside uid fails);
* exit paths: `cmdlineUsage` calls `exit(0)`.

The hazards are listed one per line, with the properties that cover them,
in `PROJECT.json` ("hazards").

### Properties per part

* Option scanner composed with the Assembler: the jail built from a raw
  command line is the one its flags denote, and the trailing arguments are
  the command's (`CommandLineRefined`).
* Splitter: the head is what precedes the first ':' and the tail what
  follows it; without a ':' the tail aliases the head. `AssemblerRefined`
  checks this through the mount, mapping and identity tables, against
  `JailSpec`'s own `Split`.
* Numbers: a token is accepted exactly when spec.md calls it a number, and
  is read as its value (`NumberReadAsSpecified`).
* Limit Resolver: a limit is fatal only for a malformed or overflowing
  token (`LimitRejectedOnlyIfInvalid`), and a numeric limit is exactly the
  number times its unit (`NumericLimitExact`).
* Identity Resolver: a numeric token that is no user name denotes that
  number (`NumericUidExact`);
  an unsplit identity is the same inside and outside (`OutsideUidFallsBack`).
* Mount Table Builder: every tmpfs mount carries the configured size
  (`TmpfsEntriesCarrySize`), and the mount table is root, /proc, then the
  explicit entries in order (part of `AssemblerRefined`).
* Mapping Table Builder: each `-U`/`-G` entry is the triple spec.md's two
  splits give, a missing count aliasing the outside id, in order per table
  (part of `AssemblerRefined`).
* Open Descriptor Set: every descriptor named by `--pass_fd` is kept
  (`FdsAsGiven`).
* Assembler: the whole result is what spec.md's assembler denotes
  (`AssemblerRefined`), usage errors fail rather than succeed
  (`UsageErrorsFail`), and `-M` selects a mode only for one of the four
  mode letters (`ModeFromWholeArgument`).

## 2. Modules

| Module | Models | Kind |
|---|---|---|
| `GetoptLong` | the `custom_opts` table (options with and without an argument) and glibc `getopt_long`'s scan of the raw words, permuting or not (`Scan`) | operators |
| `CmdlineTokens` | Splitter, `cmdlineIsANumber`, glibc `strtoull`/`strtoul`/`strtol` base 0 with saturation and `errno`, `strcasecmp`; plus spec.md's reference definitions of a number (`SpecIsNumber`, `SpecValue`) | operators |
| `Cmdline` | `cmdlineParse` with `cmdlineParseRLimit`, `cmdlineParseUid/Gid`, the implicit mounts, `logInitLogFile`'s outcome, `cmdlineUsage` | state machine |
| `JailSpec` | spec.md's promise for the assembler: one step from the command line to a specification or to none | abstract spec |
| `MCCmdline` | option sets, databases and limits for TLC | MC module |
| `CommandLine` | composition: raw words go through `GetoptLong!Scan`; the resulting occurrences and command drive `Cmdline` (taken as `Parser == INSTANCE Cmdline`). `SpecReading` is spec.md's reading of a command line, and `JailSpec` is instanced over it. | composition |
| `MCCommandLine` | raw words and the occurrence set for `CommandLine` | MC module |
| `MCTokens` | every token up to a length over a small alphabet, grown one character at a time | MC module for the operators |

### How `Cmdline` corresponds to the code

State (`VARIABLES`):

* `argv`: what getopt_long returns, as a sequence of `[opt, arg]` records.
  It is chosen in `Init` from all sequences of at most `MaxArgs` elements of
  `Args`. getopt_long's scanning of the real argv, its permutation of
  non-options and the `optarg` strings' storage are abstracted away.
  Unknown options are the element `"?"`. `Cmdline` assumes, and TLC checks
  when it loads the model, that the options the switch handles (`Handled`)
  are exactly those of `custom_opts` (`GetoptLong!CustomOpts`). It also
  checks that every element of `Args` is one of them or `"?"`. What
  `getopt_long` makes of the raw words is modelled separately in
  `GetoptLong`.
* `hasCmd`: whether a command remains after the options (`argv[optind]`).
* `logOk`: whether `logInitLogFile` succeeds. The function is not under
  `src/`. It opens the `-l` file, or `/proc/self/fd/2` by default (the
  `--log` help text), so it may fail with or without `-l`.
* `optind`: the position of the next option; `pc`: the program point
  (`getopt` loop, then `mounts`, `log`, `uid`, `gid`, `argv`, `done`).
* `status`: `running`, `ok` (returns true), `false` (returns false),
  `exit0` (`cmdlineUsage` exited), `fatal` (`LOG_F`/`PLOG_F`).
* `conf`: the `nsjconf_t` fields that the options reach (strings, numbers,
  flags, the limits, the personality bits, mode, ids, mount list, mapping
  lists, `open_fds`, `envs`), initialised by `DefaultConf` exactly as the
  initialiser at lines 272-320 and the loop at 322-327.
* `user`, `group`, `logfile`: the locals saved during the loop and used after it.
* `tmpfsSz`: the static `cmdlineTmpfsSz` buffer. `-T` entries hold the
  reference `TmpfsRef`, not a copy, just as the code stores the pointer.
* `errno`.

Actions: one per kind of `case` of the switch. A table maps each option to
its field: `SetStr` for string options, `SetNum` for numeric fields,
`SetFlag` for flags, `SetLocal` for `-u/-g/-l`. The cases with their own code
each have an action: `Help`, `Port`, `ParseRLimit` (one disjunct per
outcome: max, def, not a number, overflow detected, value), `Persona`,
`PassFd`, `TmpfsSize`, `Env`, `Mapping`, `BindMount`, `TmpfsMount`, `Mode`.
Then come `GetoptDone` (getopt returns -1) and the post-loop steps
`ImplicitMounts`, `LogInit`, `ParseUid`, `ParseGid` and `CheckArgv`.

Integer widths are scaled:

* unsigned long long and long have `Width = 16` bits;
* one MiB is `MiB = 16`;
* `uid_t` has `UidWidth = 4` bits.

The scaled widths keep the order relations the code depends on:

* a limit of 4096 "MB" overflows 16 bits, as 2^44 MB overflows 64;
* uid 16 truncates to 0, as 2^32 does;
* `int` is as wide as `uid_t` (`IntCast`), so `--pass_fd 19` keeps fd 3,
  as 4294967299 does;
* 65535 saturates the conversion.

## 3. Runs

All `MCCmdline` runs use `Width = 16`, `MiB = 16`, `UidWidth = 4`, invoker
uid/gid 1, the passwd database `u -> 4`,
the group database `w -> 5`, and current limits with nofile 1024/4096,
nproc 100/4096, others 100/ULLONG_MAX. `CHECK_DEADLOCK FALSE`: every
behaviour ends in a state with `status # "running"` where the program has
returned or exited; no step is enabled there by design.

| Run | Module / cfg | Expect | Checks |
|---|---|---|---|
| `refine` | MCCmdline_refine.cfg | pass | `TypeOK` and `AssemblerRefined`: every command line of up to 3 options drawn from `ArgsCore` (28 options covering every case, each limit outcome, each mode letter, both tmpfs-size orders, mount and mapping forms) is parsed into exactly the specification that `JailSpec` assembles, or into none when `JailSpec` fails. About 570,000 states, 1.5 minutes. |
| `mounts` | MCCmdline_mounts.cfg | pass | `AssemblerRefined` over every command line of up to 4 options drawn from 10 table-building ones (two `--tmpfs_size` values, `-T`, `-B src:dst`, `-R src`, `--rw`, `--disable_proc`, `-c`, `-U 0:7`, `-G 5`). This reaches `-T` between two size changes, `-c` or `--rw` before and after the mounts, and mapping entries with one and no colon (the count aliases the outside id, or all three alias the token) interleaved in one table. About 420,000 states, 35 s. |
| `numbers` | MCTokens_numbers.cfg | violation | `NumberReadAsSpecified`: the empty token is accepted as a number. This is why `-u :1000` and `-g x` resolve to id 0 (root). |
| `uid_fallback` | uid_fallback.cfg | violation | `OutsideUidFallsBack`: `-u 7` leaves outside uid = getuid(). |
| `uid_truncation` | uid_truncation.cfg | violation | `NumericUidExact`: `-u 16` (2^32 in the build) becomes uid 0. |
| `fd_truncation` | fd_truncation.cfg | violation | `FdsAsGiven`: `--pass_fd 19` keeps fd 3, not fd 19. |
| `rlimit_overflow` | rlimit_overflow.cfg | violation | `NumericLimitExact`: `--rlimit_as 4096` wraps to 0. |
| `stale_errno` | stale_errno.cfg | violation | `LimitRejectedOnlyIfInvalid`: `--tmpfs_size 99999` then `--rlimit_cpu 65535` is fatal. |
| `usage_exit` | usage_exit.cfg | violation | `UsageErrorsFail`: `-M z` exits with status 0. |
| `mode_prefix` | mode_prefix.cfg | violation | `ModeFromWholeArgument`: `-M one` is accepted as STANDALONE_ONCE. |
| `commandline_permute` | MCCommandLine_permute.cfg | violation | `CommandLineRefined` in getopt's default permuting mode, over every raw line of up to 5 words from `--disable_clone_newuser`, `-c`, `--rw`, `--` and a plain word `x` (`MaxArgs = 5`, so no line is cut): `x -c` exits through usage, where spec.md runs `x -c`. `x --disable_clone_newuser` also loses the user namespace. |
| `root_tmpfs` | root_tmpfs.cfg | violation | `TmpfsEntriesCarrySize`: the implicit root tmpfs has no size. |

The violation runs use `MaxArgs = 2`, enough for the two-step cases
(`stale_errno`). `findings` in `PROJECT.json` says what each one shows about
the code.

Why the bounds are enough for `refine`:

* the order effects involve pairs of options: `--port`/`-M`,
  `--tmpfs_size`/`-T`, `-c`/`--rw`, and two `-T`s around one
  `--tmpfs_size`;
* three options reach every pair, in both orders, with a third option in
  between or after;
* each case's code does not depend on how many options came before it,
  except through `errno` and the shared buffer, and both are covered.

Each property of a passing run has a mutant in `PROJECT.json`, a plausible bug
that TLC detects:

* `/proc` inserted last, so that it ends up first: `AssemblerRefined`;
* the log failure not returning: `TypeOK`;
* `-T` entries given an empty options string, as the root tmpfs is:
  `AssemblerRefined` under `mounts`;
* the mapping count taken by splitting `optarg` again (which the first
  split has cut at its colon) instead of `outside_id`: `AssemblerRefined`
  under `mounts`.

## 4. Fairness and liveness

`cmdlineParse` runs on one thread, makes no blocking call, and every
case of its switch either advances to the next option or ends the process
(`cmdlineUsage`, `LOG_F`), as does the `default:` case. That it always
ends therefore holds by the shape of the code and of any faithful model
of it, and no liveness property is stated: none could be violated by a
plausible change to the code. What the parse must get right when it ends
is checked as invariants on the final state (`status # "running"`) and
through the refinement, whose abstract step is taken exactly once.

## 5. Not modelled

* `cmdlineHelp`, `cmdlineLogParams`, `logYesNo`: output only.
* The execution engine: not in this repository.
* In `Cmdline`, getopt_long is abstracted to the sequence of (option,
  optarg) pairs it returns. `GetoptLong` models its scan, and
  `CommandLine` composes the two. In `GetoptLong` these are abstracted:
  * a raw word is an option word, `--` or a plain word;
  * clustered short options (`-Mo`) and attached arguments (`--chroot=/`)
    are the same option occurrence as their separate forms;
  * the error text getopt prints is left out.
* The abstract `JailSpec` leaves identity values out. When the code and
  spec.md disagree on them, separate `Cmdline` properties check it. spec.md
  4.2 (the name database first) and spec.md 8 ("1000" yields 1000
  regardless of the database) conflict for a numeric user name. The code
  follows 4.2, so that case is not checked.
* `prlimit64` failing in `cmdlineParseRLimit` and the `default:` case of the
  switch: neither can happen with the option table in the code.
* The types of `port`, `tlimit` and `max_conns_per_ip`: they are declared
  in a header (`cmdline.h` and what it includes) that is not in this
  repository, so these fields keep
  what `strtoul`/`strtol` return.
* String contents beyond what the code inspects: paths, hostnames and
  environment strings are opaque tokens.

## 6. Plan for further work

1. The project has 12 runs, the most the check accepts. A new question
   must replace a run or share one.
2. Group-side versions of the identity properties (`-g`), using the same
   `ParseId`.
3. `--port` accepts any value without a range check (cmdline.c:437).
   spec.md states no range, and the field's type is declared outside
   this repository, so no property exists yet.
