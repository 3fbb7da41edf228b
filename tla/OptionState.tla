----------------------------- MODULE OptionState -----------------------------
(***************************************************************************)
(* What firejail's command line and profiles are collected into, and the   *)
(* algorithms both parsers share: the feature switches of firejail.config  *)
(* (checkcfg.c), the comma lists (profile_list_...), the environment list  *)
(* (env.c) and the quoting of the command (cmdline.c).                     *)
(*                                                                         *)
(* An option of the command line and a line of a profile are the same      *)
(* record [o, v, n, m, list, cond]: the command word, a textual value (""  *)
(* when there is none, "bad" for one the syntax checks of the code         *)
(* refuse), two numbers, a comma list, and the conditional ("?HAS_NET:").  *)
(* The world w is what a run does not change: whether the caller is root,  *)
(* the configuration file, the environment it was given, the sandboxes     *)
(* already running and the profile files.                                  *)
(***************************************************************************)
EXTENDS Integers, Sequences, FiniteSets, TLC, SequencesExt

(* Op(v), with v evaluated once *)
Bind(v, Op(_)) == CHOOSE r \in {Op(x) : x \in {v}} : TRUE

Option(o, v) == [o |-> o, v |-> v, n |-> 0, m |-> 0, list |-> <<>>, cond |-> ""]
Flag(o) == Option(o, "")
Number(o, n) == [Option(o, "") EXCEPT !.n = n]
Listed(o, list) == [Option(o, "") EXCEPT !.list = list]

Bridges == 1..4
NoBridge == [configured |-> FALSE, dev |-> "", veth |-> "", lo |-> 0, hi |-> 0,
             mac |-> "", mtu |-> 0, ip |-> "", ip_none |-> FALSE, mask |-> "",
             masksandbox |-> "", ip6 |-> ""]

(* struct Config and the arg_ variables.  flags holds the arg_ switches that *)
(* are set; str, num and lists hold the values that are not NULL.            *)
EmptyConfig ==
  [flags |-> {}, str |-> <<>>, num |-> <<>>, lists |-> <<>>,
   bridge |-> [b \in Bridges |-> NoBridge],
   intf |-> [b \in Bridges |-> [configured |-> FALSE, dev |-> ""]],
   dns |-> <<>>, caps |-> "", dbus |-> [user |-> 0, system |-> 0], cpus |-> {},
   ignore |-> <<>>, profile |-> <<>>, landlock |-> <<>>, env |-> <<>>,
   ret |-> 0, out |-> "", did |-> ""]

Set(c, f) == [c EXCEPT !.flags = @ \cup {f}]
Clear(c, f) == [c EXCEPT !.flags = @ \ {f}]
IsSet(c, f) == f \in c.flags
PutStr(c, k, v) == [c EXCEPT !.str = (k :> v) @@ @]
PutNum(c, k, n) == [c EXCEPT !.num = (k :> n) @@ @]
PutList(c, k, l) == [c EXCEPT !.lists = (k :> l) @@ @]
Has(f, k) == k \in DOMAIN f
Fail(c) == [c EXCEPT !.out = "error"]
Done(c, what) == [c EXCEPT !.out = "done", !.did = what]

(* init_cfg: an empty configuration with the error action EPERM *)
InitCfg(c) == PutStr(PutStr(c, "cwd", "here"), "error_action", "EPERM")

-----------------------------------------------------------------------------
(* firejail.config *)

Features == {"allow-tray", "apparmor", "bind", "browser-allow-drm", "browser-disable-u2f",
             "chroot", "dbus", "disable-mnt", "file-transfer", "firejail-prompt",
             "force-nonewprivs", "join", "name-change", "network", "private-bin",
             "private-bin-no-local", "private-cache", "private-etc", "private-opt",
             "private-srv", "restricted-network", "seccomp", "seccomp-log", "userns",
             "x11", "xephyr-window-title"}

OffByDefault == {"restricted-network", "force-nonewprivs", "private-bin-no-local",
                 "firejail-prompt", "disable-mnt", "browser-allow-drm", "allow-tray",
                 "chroot", "seccomp-log"}

(* cfg_val and the settings with a value of their own; env is what          *)
(* file-copy-limit puts in front of the caller's environment                *)
ConfigDefaults ==
  [on |-> Features \ OffByDefault, str |-> <<>>, quiet |-> "", arp_probes |-> 2,
   arg_max |-> 128, env_max |-> 256, filter_add |-> <<>>, env |-> <<>>, err |-> FALSE]

ConfigYesNo(f, l) ==
  CASE l.v = "yes" -> [f EXCEPT !.on = @ \cup {l.o}]
    [] l.v = "no" -> [f EXCEPT !.on = @ \ {l.o}]
    [] OTHER -> [f EXCEPT !.err = TRUE]

Removed == {"tracelog", "private-home", "xpra-attach", "xpra-extra-params"}

(* the settings that may be given once only, the screen sizes and quiet *)
ConfigScreen(f, l) ==
  CASE l.o = "netfilter-default" ->
         IF l.v = "bad" \/ Has(f.str, l.o) THEN [f EXCEPT !.err = TRUE]
         ELSE [f EXCEPT !.str = (l.o :> l.v) @@ @]
    [] l.o \in {"xephyr-extra-params", "xvfb-extra-params"} ->
         IF Has(f.str, l.o) THEN [f EXCEPT !.err = TRUE]
         ELSE [f EXCEPT !.str = (l.o :> l.v) @@ @]
    [] l.o \in {"xephyr-screen", "xvfb-screen"} ->
         IF l.v = "bad" THEN [f EXCEPT !.err = TRUE] ELSE [f EXCEPT !.str = (l.o :> l.v) @@ @]
    [] l.o = "quiet-by-default" ->
         IF l.v \in {"yes", "no"} THEN [f EXCEPT !.quiet = l.v] ELSE [f EXCEPT !.err = TRUE]

ArgMax == 131072
IntMax == 2147483647
ConfigLimit(f, l) ==
  CASE l.o = "arg-max-count" -> [f EXCEPT !.arg_max = IF l.n \in 0..ArgMax THEN l.n ELSE ArgMax]
    [] l.o = "env-max-count" -> [f EXCEPT !.env_max = IF l.n >= 0 THEN l.n ELSE IntMax]
    [] l.o = "arp-probes" ->
         IF l.n \in 2..30 THEN [f EXCEPT !.arp_probes = l.n] ELSE [f EXCEPT !.err = TRUE]
    [] l.o = "file-copy-limit" ->
         [f EXCEPT !.env = Append(@, [op |-> "set", name |-> "FIREJAIL_FILE_COPY_LIMIT", value |-> l.v])]
    [] l.o \in {"arg-max-len", "env-max-len", "join-timeout", "whitelist-disable-topdir"} ->
         [f EXCEPT !.str = (l.o :> l.v) @@ @]
    [] l.o = "seccomp-filter-add" -> [f EXCEPT !.filter_add = l.list]
    [] l.o = "seccomp-error-action" ->
         IF l.v = "bad" THEN [f EXCEPT !.err = TRUE] ELSE [f EXCEPT !.str = (l.o :> l.v) @@ @]

ScreenKeys == {"netfilter-default", "xephyr-screen", "xephyr-extra-params", "xvfb-screen",
               "xvfb-extra-params", "quiet-by-default"}
LimitKeys == {"arg-max-count", "arg-max-len", "env-max-count", "env-max-len", "arp-probes",
              "file-copy-limit", "join-timeout", "seccomp-filter-add", "seccomp-error-action",
              "whitelist-disable-topdir"}

(* one line of the file; an invalid one ends the program *)
ConfigLine(f, l) ==
  CASE f.err -> f
    [] l.o \in Features -> ConfigYesNo(f, l)
    [] l.o \in Removed -> f
    [] l.o \in ScreenKeys -> ConfigScreen(f, l)
    [] l.o \in LimitKeys -> ConfigLimit(f, l)
    [] OTHER -> [f EXCEPT !.err = TRUE]

(* the loop of checkcfg *)
LoadConfig(w) ==
  FoldLeft(LAMBDA f, l : Bind(f, LAMBDA g : ConfigLine(g, l)), ConfigDefaults, w.config)

(* checkcfg(val) once the file is loaded (f) *)
Enabled(w, f, feature) ==
  /\ feature \in f.on
  /\ feature = "network" => ("restricted-network" \notin f.on \/ w.root)

-----------------------------------------------------------------------------
(* Comma lists.  A list is the sequence of its items, an item [op, name];   *)
(* the empty string between two commas is the item ["", ""].                *)

Item(op, name) == [op |-> op, name |-> name]
EmptyItem == Item("", "")

(* profile_list_normalize; the empty string is a list of one empty item *)
Normalize(list) ==
  LET l == SelectSeq(list, LAMBDA x : x # EmptyItem) IN IF l = <<>> THEN <<EmptyItem>> ELSE l

(* mutant: a repeated item is kept *)
CompressRepeats(in, x) ==
  CASE x.op = "-" -> [k \in 1..(Len(in) + 1) |-> IF k > Len(in) \/ in[k] = x.name THEN "" ELSE in[k]]
    [] x.op \in {"", "+"} -> Append(in, x.name)
    [] x.op = "=" -> Append([k \in DOMAIN in |-> ""], x.name)

(* profile_list_compress: the array in[], "" where the code has a null      *)
(* pointer, one pass from the left, and the items that are left             *)
CompressStep(in, x) ==
  LET first == {k \in DOMAIN in : in[k] = x.name}
  IN  CASE x.op = "-" ->
             Append(IF first = {} THEN in
                    ELSE [in EXCEPT ![CHOOSE k \in first : \A j \in first : k <= j] = ""], "")
        [] x.op \in {"", "+"} ->
             Append(in, IF x.name = "" \/ first # {} THEN "" ELSE x.name)
        [] x.op = "=" -> Append([k \in DOMAIN in |-> ""], x.name)

Compress(list) ==
  SelectSeq(FoldLeft(LAMBDA in, x : Bind(in, LAMBDA a : CompressStep(a, x)), <<>>, Normalize(list)),
            LAMBDA s : s # "")

(* profile_list_augment: the old list is written out and read back *)
MaxList == 8
Augment(c, k, list) ==
  LET old == IF Has(c.lists, k) THEN [i \in DOMAIN c.lists[k] |-> Item("", c.lists[k][i])]
             ELSE <<EmptyItem>>
      new == Compress(old \o list)
  IN  IF Len(new) > MaxList THEN Fail(c) ELSE PutList(c, k, new)

(* the lists of the private directories are only concatenated *)
Concat(c, k, list) ==
  PutList(c, k, (IF Has(c.lists, k) THEN c.lists[k] ELSE <<>>)
                 \o [i \in DOMAIN list |-> list[i].name])

-----------------------------------------------------------------------------
(* The environment list *)

EnvStore(c, op, name, value) ==
  IF name = "" \/ (op = "set" /\ value = "bad") THEN Fail(c)
  ELSE [c EXCEPT !.env = Append(@, [op |-> op, name |-> name,
                                    value |-> IF op = "set" THEN value ELSE ""])]

(* env_get: the last entry with that name; "null" where the code has NULL *)
EnvGet(env, name) ==
  FoldLeft(LAMBDA r, e : IF e.name # name THEN r ELSE IF e.op = "set" THEN e.value ELSE "null",
           "null", env)

(* a process environment: the function from the names that are set *)
Setenv(e, name, value) == (name :> value) @@ e
Unsetenv(e, name) == [k \in DOMAIN e \ {name} |-> e[k]]

EnvWhitelist == {"LANG", "LANGUAGE", "LC_MESSAGES", "DISPLAY"}

EnvApplyList(e, env, names) ==
  LET step(r, x) == CASE x.op = "rm" -> Unsetenv(r, x.name)
                      [] x.name \in names -> Setenv(r, x.name, x.value)
                      [] OTHER -> r
  IN  FoldLeft(LAMBDA a, x : Bind(a, LAMBDA b : step(b, x)), e, env)

EnvApplyWhitelist(env) == Setenv(EnvApplyList(<<>>, env, EnvWhitelist), "PATH", "hardcoded")

EnvApplyAll(e, env) ==
  LET step(r, x) == IF x.op = "set" THEN Setenv(r, x.name, x.value) ELSE Unsetenv(r, x.name)
  IN  FoldLeft(LAMBDA a, x : Bind(a, LAMBDA b : step(b, x)), e, env)

(* env_ibus_load: the IBUS_ lines of the user's bus files *)
EnvIbusLoad(c, w) ==
  [c EXCEPT !.env = @ \o [i \in DOMAIN w.ibus |-> [op |-> "set", name |-> w.ibus[i], value |-> "ibus"]]]

(* env_defaults *)
EnvDefaults(c, f) ==
  LET prompt == "firejail-prompt" \in f.on \/ EnvGet(c.env, "FIREJAIL_PROMPT") = "yes"
      fixed == <<<<"QT_X11_NO_MITSHM", "1">>, <<"QML_DISABLE_DISK_CACHE", "1">>,
                 <<"container", "firejail">>, <<"SHELL", "usershell">>, <<"KDE_FORK_SLAVES", "1">>,
                 <<"PROMPT_COMMAND", IF prompt THEN "green" ELSE ":">>>>
               \o (IF IsSet(c, "quiet") THEN <<<<"FIREJAIL_QUIET", "yes">>>> ELSE <<>>)
  IN  [c EXCEPT !.env = @ \o [i \in DOMAIN fixed |->
                                [op |-> "set", name |-> fixed[i][1], value |-> fixed[i][2]]]]

-----------------------------------------------------------------------------
(* The command line.  An argument is a sequence of characters; Q is the     *)
(* single quote, D the double quote, S the space.                           *)

Q == "q"
D == "d"
S == "s"

(* cmdline_length, one argument: characters counted with the state of the   *)
(* quotes                                                                   *)
ArgLength(arg, extra) ==
  LET step(r, j) ==
        IF arg[j] = Q
        THEN [in |-> FALSE,
              len |-> r.len + (IF r.in THEN 1 ELSE 0)
                      + (IF j > 1 /\ arg[j - 1] = Q THEN 1 ELSE 3)]
        ELSE [in |-> extra, len |-> r.len + 1 + (IF ~r.in /\ extra THEN 1 ELSE 0)]
      r == FoldLeft(LAMBDA a, j : Bind(a, LAMBDA b : step(b, j)), [in |-> FALSE, len |-> 0],
                    [j \in DOMAIN arg |-> j])
  IN  r.len + (IF r.in THEN 1 ELSE 0) + (IF arg = <<>> THEN 2 ELSE 0) + 1

CmdlineLength(args, extra) ==
  FoldLeft(LAMBDA n, arg : n + ArgLength(arg, extra), 0, args)

(* mutant: the open quotes are not closed in front of a single quote *)
QuoteArgOpen(arg, extra) ==
  LET step(r, j) ==
        IF arg[j] = Q THEN [in |-> FALSE, out |-> r.out \o <<D, Q, D>>]
        ELSE [in |-> extra, out |-> Append(IF ~r.in /\ extra THEN Append(r.out, Q) ELSE r.out, arg[j])]
      r == FoldLeft(LAMBDA a, j : Bind(a, LAMBDA b : step(b, j)), [in |-> FALSE, out |-> <<>>],
                    [j \in DOMAIN arg |-> j])
  IN  r.out \o (IF r.in THEN <<Q>> ELSE <<>>) \o (IF arg = <<>> THEN <<Q, Q>> ELSE <<>>) \o <<S>>

(* quote_cmdline, one argument: a run of single quotes goes between double   *)
(* quotes (the second of two takes the closing double quote back), anything  *)
(* else between single quotes                                                *)
QuoteArg(arg, extra) ==
  LET step(r, j) ==
        IF arg[j] = Q
        THEN LET out == IF r.in THEN Append(r.out, Q) ELSE r.out
             IN  [in |-> FALSE,
                  out |-> IF j > 1 /\ arg[j - 1] = Q THEN Front(out) \o <<Q, D>>
                          ELSE out \o <<D, Q, D>>]
        ELSE [in |-> extra,
              out |-> Append(IF ~r.in /\ extra THEN Append(r.out, Q) ELSE r.out, arg[j])]
      r == FoldLeft(LAMBDA a, j : Bind(a, LAMBDA b : step(b, j)), [in |-> FALSE, out |-> <<>>],
                    [j \in DOMAIN arg |-> j])
  IN  r.out \o (IF r.in THEN <<Q>> ELSE <<>>) \o (IF arg = <<>> THEN <<Q, Q>> ELSE <<>>) \o <<S>>

QuoteCmdline(args, extra) ==
  FoldLeft(LAMBDA out, arg : out \o QuoteArg(arg, extra), <<>>, args)

(* build_cmdline fills a buffer of CmdlineLength + 1 characters *)
BuildCmdline(args) == QuoteCmdline(args, TRUE)

AppRun == <<"R">>

(* build_appimage_cmdline: the first argument is cut off the quoted line by  *)
(* its computed length, and the path of AppRun put in its place              *)
BuildAppimageCmdline(args) ==
  LET line == QuoteCmdline(args, TRUE)
      len2 == CmdlineLength(<<args[1]>>, TRUE)
  IN  <<Q>> \o AppRun \o <<Q, S>> \o SubSeq(line, len2 + 1, Len(line))

(* What a shell makes of a line: the words, with quotes removed (sh(1)) *)
ShellWords(line) ==
  LET step(r, ch) ==
        CASE r.q = "" /\ ch = S -> IF r.open THEN [r EXCEPT !.words = Append(@, r.word), !.word = <<>>,
                                                           !.open = FALSE]
                                   ELSE r
          [] r.q = "" /\ ch \in {Q, D} -> [r EXCEPT !.q = ch, !.open = TRUE]
          [] r.q # "" /\ ch = r.q -> [r EXCEPT !.q = ""]
          [] OTHER -> [r EXCEPT !.word = Append(@, ch), !.open = TRUE]
  IN  FoldLeft(LAMBDA a, ch : Bind(a, LAMBDA b : step(b, ch)),
               [q |-> "", word |-> <<>>, open |-> FALSE, words |-> <<>>], line).words
=============================================================================
