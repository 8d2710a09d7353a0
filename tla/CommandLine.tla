---------------------------- MODULE CommandLine ----------------------------
(***************************************************************************)
(* nsjail's command line end to end: the raw words go through the          *)
(* getopt_long loop (GetoptLong) and the option occurrences it returns     *)
(* drive cmdlineParse (Cmdline); what remains at argv[optind] is the       *)
(* command vector.  Whether getopt_long permutes is fixed by the           *)
(* environment (POSIXLY_CORRECT unset: Permute = TRUE).                    *)
(***************************************************************************)
EXTENDS GetoptLong, SequencesExt

CONSTANTS
  NULL, Args, MaxArgs, MiB, UidWidth, PasswdDB, GroupDB, InvokerUid,
  InvokerGid, SoftLimit, HardLimit, Width,
  Words,        \* raw words a command line is made of
  MaxWords,     \* bound on the number of raw words after argv[0]
  Permute       \* getopt_long permutes (POSIXLY_CORRECT is not set)

VARIABLES
  raw,          \* argv[1..argc-1] as given to nsjail
  argv, hasCmd, logOk, optind, pc, status, conf, user, group, logfile,
  tmpfsSz, errno

Parser == INSTANCE Cmdline

lineVars == <<raw, Parser!vars>>

\* the getopt_long loop over the raw words, as the parser sees it
Scanned == GetoptLoop(raw, Permute)

Init ==
  /\ raw \in SeqOf(Words, MaxWords)
  /\ argv = Scanned.opts
  /\ hasCmd = (Scanned.cmd # <<>>)
  /\ Parser!Init

Next == Parser!Next /\ UNCHANGED raw

Spec == Init /\ [][Next]_lineVars

-----------------------------------------------------------------------------
(***************************************************************************)
(* How spec.md 4.6 and 6 read a command line: flags, each value flag      *)
(* taking the next argument as its value, up to the first argument that    *)
(* is not a flag or up to "--"; the rest is the command vector.  An        *)
(* unknown flag, or a value flag with no argument left, is a usage error   *)
(* ("?") and ends the reading.                                             *)
(***************************************************************************)
RECURSIVE SpecReading(_)
SpecReading(ws) ==
  LET w == Head(ws)
      Then(occ, rest) == LET r == SpecReading(rest)
                         IN [opts |-> <<occ>> \o r.opts, cmd |-> r.cmd]
      Usage == [opts |-> <<[opt |-> "?", arg |-> <<>>]>>, cmd |-> <<>>]
  IN CASE ws = <<>> -> [opts |-> <<>>, cmd |-> <<>>]
       [] w.kind = "end" -> [opts |-> <<>>, cmd |-> Texts(Tail(ws))]
       [] w.kind = "plain" -> [opts |-> <<>>, cmd |-> Texts(ws)]
       [] w.opt \in NoArgOpts -> Then([opt |-> w.opt, arg |-> <<>>], Tail(ws))
       [] w.opt \in ArgOpts /\ Len(ws) > 1 ->
            Then([opt |-> w.opt, arg |-> ws[2].text], Tail(Tail(ws)))
       [] OTHER -> Usage

Intended == SpecReading(raw)

LineAbstract == INSTANCE JailSpec
                  WITH argv <- Intended.opts, hasCmd <- Intended.cmd # <<>>,
                       outcome <- Parser!AbsOutcome

(* spec.md 4.6 and 6: the jail nsjail assembles is the one its own flags   *)
(* denote, and the trailing arguments are the command's, whatever they    *)
(* look like.  The loop in cmdlineParse sees what getopt_long returns, so  *)
(* this holds only if getopt_long stops where the flags end.               *)
CommandLineRefined == LineAbstract!Spec

=============================================================================
