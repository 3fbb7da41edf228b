---------------------------- MODULE FirecfgProofs ---------------------------
(***************************************************************************)
(* Proofs about firecfg, for all machines, configurations and sequences of *)
(* runs: a run that completes makes the links its configuration asks for.  *)
(* The invariant says at each point of a run what the list of ignored      *)
(* programs holds (IgnoresKnown) and which links are due (LinksMade).      *)
(***************************************************************************)
EXTENDS Firecfg, FiniteSetTheorems, TLAPS

Installed(p) == p \in host.installed \ host.snap

\* The programs asked for by the first n lines of the configuration.
Named(p, n) == \E i \in 1..n : host.config[i] = Line("name", p) /\ ~Ignoring(p, i)

\* The lines with ! among the first n.
IgnoresIn(n) == {i \in 1..n : host.config[i].what = "ignore"}

GType ==
  /\ bin \in [Progs -> {"none", "own", "foreign", "dangling"}]
  /\ apps \in [Progs -> {"none", "user", "writing", "partial", "fixed"}]
  /\ host \in Machines /\ line \in 0..Len(host.config) /\ ignorelist \in Seq(Progs)
  /\ done_config \in BOOLEAN /\ unlinked \in BOOLEAN
  /\ fcfg \in {"ok", "exit", "clean", "config", "add", "user", "home", "desktop", "write"}
  /\ fcfg = "add" => cmd = "add-users"
  /\ fcfg = "clean" => line = 0 /\ ~done_config /\ todo \subseteq Progs
  /\ fcfg = "user" => todo = host.profiles
  /\ fcfg = "home" => todo \subseteq host.profiles
  /\ fcfg \in {"desktop", "write"} => todo \subseteq Progs
  /\ fcfg \in {"user", "home"} => line = Len(host.config) /\ done_config

\* The list holds what the lines read so far ignore, if there is room for all.
IgnoresKnown ==
  /\ Len(ignorelist) <= Cardinality(IgnoresIn(line))
  /\ \A p \in ToSet(ignorelist) : Ignoring(p, line)
  /\ IgnoreLines <= ignorelist_maxlen => \A p \in Progs : Ignoring(p, line) => p \in ToSet(ignorelist)

\* The programs that should have a link by now, at each point of a run.
Due(p) ==
  \/ Named(p, line)
  \/ fcfg \in {"user", "home"} /\ p \in host.profiles \ todo /\ ~Ignoring(p, line)
  \/ fcfg \in {"config", "desktop", "write"} /\ done_config /\ Wanted(p)

\* After clean no program has a link that is not due, and every program has one,
\* or something else of that name, as soon as it is due.
LinksMade ==
  do_symlink /\ unlinked /\ IgnoreLines <= ignorelist_maxlen =>
    /\ fcfg = "clean" => \A p \in Progs \ todo : bin[p] # "own"
    /\ fcfg \in {"config", "user", "home", "desktop", "write"} =>
         \A p \in Progs : IF Due(p) /\ Installed(p) THEN bin[p] # "none" ELSE bin[p] # "own"
    /\ fcfg \in {"desktop", "write"} => done_config

GIInv == GType /\ IgnoresKnown /\ LinksMade

\* What the next line of the configuration changes.
LEMMA NextLine ==
  ASSUME GType, line < Len(host.config)
  PROVE  /\ host.config[line + 1] \in [what : {"name", "ignore", "invalid"}, p : Progs]
         /\ line + 1 \in 0..Len(host.config)
         /\ \A p : Ignoring(p, line + 1) <=> \/ Ignoring(p, line)
                                             \/ host.config[line + 1] = Line("ignore", p)
         /\ \A p : Named(p, line + 1) <=> \/ Named(p, line)
                                          \/ /\ host.config[line + 1] = Line("name", p)
                                             /\ ~Ignoring(p, line + 1)
         /\ IgnoresIn(line + 1) = IF host.config[line + 1].what = "ignore"
                                    THEN IgnoresIn(line) \cup {line + 1} ELSE IgnoresIn(line)
<1> DEFINE c == host.config
           R == [what : {"name", "ignore", "invalid"}, p : Progs]
<1>1. c \in Seq(R) /\ line \in 0..Len(c) /\ line < Len(c)
  BY Zenon, FirecfgAssumption DEF GType
<1>3. line \in Nat /\ line + 1 \in 1..Len(c) /\ c[line + 1] \in R
  <2> HIDE DEF c, R
  <2> QED
    BY <1>1
<1>2. 1..(line + 1) = (1..line) \cup {line + 1}
  BY <1>3
<1>4. \A p : Ignoring(p, line + 1) <=> Ignoring(p, line) \/ host.config[line + 1] = Line("ignore", p)
  BY <1>2 DEF Ignoring
<1>5. \A p : Named(p, line + 1) <=> \/ Named(p, line)
                                    \/ /\ host.config[line + 1] = Line("name", p)
                                       /\ ~Ignoring(p, line + 1)
  BY <1>2 DEF Named
<1>6. IgnoresIn(line + 1) = IF host.config[line + 1].what = "ignore"
                              THEN IgnoresIn(line) \cup {line + 1} ELSE IgnoresIn(line)
  BY <1>2 DEF IgnoresIn
<1> QED
  BY <1>3, <1>4, <1>5, <1>6

\* There are no more ignored names than lines that ignore one.
LEMMA IgnoreRoom ==
  ASSUME GType, NEW n \in 0..Len(host.config)
  PROVE  /\ IsFiniteSet(IgnoresIn(n)) /\ Cardinality(IgnoresIn(n)) \in Nat
         /\ IgnoreLines \in Nat /\ Cardinality(IgnoresIn(n)) <= IgnoreLines
<1>1. Len(host.config) \in Nat /\ DOMAIN host.config = 1..Len(host.config)
  BY FirecfgAssumption DEF GType
<1>2. IgnoreLines = Cardinality(IgnoresIn(Len(host.config)))
  BY <1>1 DEF IgnoreLines, IgnoresIn
<1>3. IsFiniteSet(1..Len(host.config))
  <2>1. 1 \in Int /\ Len(host.config) \in Int
    BY <1>1
  <2> QED
    BY <2>1, FS_Interval
<1>4. IgnoresIn(Len(host.config)) \subseteq 1..Len(host.config)
  BY DEF IgnoresIn
<1>5. IsFiniteSet(IgnoresIn(Len(host.config)))
  BY <1>3, <1>4, FS_Subset
<1>6. IgnoresIn(n) \subseteq IgnoresIn(Len(host.config))
  BY <1>1 DEF IgnoresIn
<1> QED
  BY <1>2, <1>5, <1>6, FS_Subset, FS_CardinalityType

\* The list after one more name.
LEMMA Appended ==
  ASSUME NEW S, NEW s \in Seq(S), NEW e \in S
  PROVE  Append(s, e) \in Seq(S) /\ ToSet(Append(s, e)) = ToSet(s) \cup {e}
<1>1. /\ Append(s, e) \in Seq(S) /\ Len(Append(s, e)) = Len(s) + 1
      /\ DOMAIN Append(s, e) = (1..Len(s)) \cup {Len(s) + 1} /\ DOMAIN s = 1..Len(s)
      /\ \A i \in 1..Len(s) : Append(s, e)[i] = s[i]
      /\ Append(s, e)[Len(s) + 1] = e
  OBVIOUS
<1> QED
  BY <1>1 DEF ToSet

\* Reading a line keeps the list of ignored names.
LEMMA IgnoresStep ==
  ASSUME GType, IgnoresKnown, parse_config_file
  PROVE  IgnoresKnown'
<1> DEFINE l == host.config[line + 1]
<1>1. line' = line + 1 /\ line < Len(host.config) /\ host' = host
  BY DEF parse_config_file, GType, run
<1>2. /\ line + 1 \in 0..Len(host.config) /\ line \in 0..Len(host.config) /\ l.p \in Progs
      /\ \A p : Ignoring(p, line)' <=> Ignoring(p, line) \/ l = Line("ignore", p)
      /\ IgnoresIn(line)' = IF l.what = "ignore" THEN IgnoresIn(line) \cup {line + 1} ELSE IgnoresIn(line)
  <2>1. \A p : Ignoring(p, line)' <=> Ignoring(p, line + 1)
    BY <1>1 DEF Ignoring
  <2>2. IgnoresIn(line)' = IgnoresIn(line + 1)
    BY <1>1 DEF IgnoresIn
  <2> QED
    BY <1>1, <2>1, <2>2, NextLine DEF GType
<1>3. IgnoreLines' = IgnoreLines
  BY <1>1 DEF IgnoreLines
<1>4. CASE l.what # "ignore"
  <2>1. ignorelist' = ignorelist
    BY <1>4 DEF parse_config_file
  <2>3. \A p : Line("ignore", p).what = "ignore"
    BY DEF Line
  <2>2. \A p : Ignoring(p, line)' <=> Ignoring(p, line)
    BY <1>2, <1>4, <2>3
  <2> QED
    BY <1>2, <1>3, <1>4, <2>1, <2>2 DEF IgnoresKnown
<1>5. CASE l.what = "ignore"
  <2>1. /\ append_ignorelist(l.p) /\ ignorelist \in Seq(Progs)
        /\ Len(ignorelist) \in Nat
    BY <1>5 DEF parse_config_file, GType
  <2>2. l = Line("ignore", l.p) /\ \A p : l = Line("ignore", p) => p = l.p
    <3>1. l \in [what : {"name", "ignore", "invalid"}, p : Progs]
      BY <1>1, NextLine
    <3> QED
      BY <1>5, <3>1 DEF Line
  <2>3. /\ Cardinality(IgnoresIn(line)') = Cardinality(IgnoresIn(line)) + 1
        /\ Cardinality(IgnoresIn(line)) \in Nat
        /\ Cardinality(IgnoresIn(line)') <= IgnoreLines /\ IgnoreLines \in Nat
    <3>1. IsFiniteSet(IgnoresIn(line)) /\ Cardinality(IgnoresIn(line)) \in Nat /\ IgnoreLines \in Nat
      BY <1>2, IgnoreRoom
    <3>2. line + 1 \notin IgnoresIn(line)
      BY <1>2 DEF IgnoresIn, GType
    <3>3. Cardinality(IgnoresIn(line + 1)) <= IgnoreLines
      BY <1>2, IgnoreRoom
    <3>4. IgnoresIn(line)' = IgnoresIn(line + 1)
      BY <1>1 DEF IgnoresIn
    <3> QED
      BY Zenon, <1>2, <1>5, <3>1, <3>2, <3>3, <3>4, FS_AddElement
  <2>4. CASE Len(ignorelist) < ignorelist_maxlen
    <3>1. /\ ToSet(ignorelist') = ToSet(ignorelist) \cup {l.p}
          /\ Len(ignorelist') = Len(ignorelist) + 1
      <4>1. ignorelist' = Append(ignorelist, l.p)
        BY <2>1, <2>4 DEF append_ignorelist
      <4>2. ToSet(Append(ignorelist, l.p)) = ToSet(ignorelist) \cup {l.p}
        BY <1>2, <2>1, Appended
      <4>3. Len(Append(ignorelist, l.p)) = Len(ignorelist) + 1
        BY <1>2, <2>1
      <4> QED
        BY <4>1, <4>2, <4>3
    <3>2. Len(ignorelist') <= Cardinality(IgnoresIn(line)')
      BY <2>1, <2>3, <3>1 DEF IgnoresKnown
    <3> QED
      BY <1>2, <1>3, <2>2, <3>1, <3>2 DEF IgnoresKnown
  <2>5. CASE ~(Len(ignorelist) < ignorelist_maxlen)
    <3>1. ignorelist' = ignorelist
      BY <2>1, <2>5 DEF append_ignorelist
    <3>2. /\ Len(ignorelist') <= Cardinality(IgnoresIn(line)')
          /\ ~(IgnoreLines <= ignorelist_maxlen)
      BY <2>1, <2>3, <2>5, <3>1, FirecfgAssumption DEF IgnoresKnown
    <3> QED
      BY <1>2, <1>3, <3>1, <3>2 DEF IgnoresKnown
  <2> QED
    BY <2>4, <2>5
<1> QED
  BY <1>4, <1>5

\* Every step keeps the types, and the directories still to be read.
LEMMA GTypeStep ==
  ASSUME GType, GNext
  PROVE  GType' /\ host' = host
<1> USE DEF GType, GoTo, run, Stopped
<1>1. host.config \in Seq([what : {"name", "ignore", "invalid"}, p : Progs]) /\ host.profiles \subseteq Progs
  BY Zenon, FirecfgAssumption
<1>2. CASE firecfg
  <2>1. cmd' \in {"set", "bindir", "clean", "fix", "add-users"}
    BY <1>2 DEF firecfg
  <2>2. /\ fcfg' = FirstStep(cmd', uid') /\ todo' = IF cmd' = "add-users" THEN {"bob", "nobody", "unknown"} ELSE Progs
        /\ line' = 0 /\ ignorelist' = <<>> /\ done_config' = FALSE /\ unlinked' = TRUE
        /\ UNCHANGED <<bin, apps, host>>
    BY <1>2 DEF firecfg
  <2>3. /\ fcfg' \in {"exit", "clean", "config", "add"}
        /\ fcfg' = "clean" => cmd' # "add-users"
        /\ fcfg' = "add" => cmd' = "add-users"
    BY <2>1, <2>2 DEF FirstStep
  <2>4. 0 \in 0..Len(host.config) /\ <<>> \in Seq(Progs)
    BY <1>1
  <2> QED
    BY Zenon, <2>2, <2>3, <2>4
<1>3. CASE CleanEntry
  <2>1. bin' \in [Progs -> {"none", "own", "foreign", "dangling"}] /\ todo' \subseteq Progs
    BY <1>3 DEF CleanEntry
  <2>2. unlinked' \in BOOLEAN
    BY Zenon, <1>3 DEF CleanEntry
  <2> QED
    BY <1>3, <2>1, <2>2 DEF CleanEntry
<1>10. CASE MkdirFails \/ Cleaned
  BY <1>10 DEF MkdirFails, Cleaned
<1>4. CASE parse_config_file
  <2>1. /\ host.config[line + 1] \in [what : {"name", "ignore", "invalid"}, p : Progs]
        /\ line + 1 \in 0..Len(host.config)
    BY <1>4, NextLine DEF parse_config_file
  <2> DEFINE l == host.config[line + 1]
  <2>2. l.p \in Progs
    BY <2>1
  <2>3. ignorelist' \in Seq(Progs)
    <3>1. ignorelist' = ignorelist \/ ignorelist' = Append(ignorelist, l.p)
      BY <1>4 DEF parse_config_file, append_ignorelist
    <3> HIDE DEF l
    <3> QED
      BY <2>2, <3>1
  <2>4. bin' \in [Progs -> {"none", "own", "foreign", "dangling"}]
    BY <1>4 DEF parse_config_file, set_file
  <2> HIDE DEF l
  <2> QED
    BY <1>4, <2>1, <2>3, <2>4 DEF parse_config_file
<1>5. CASE parse_config_all
  BY <1>1, <1>5 DEF parse_config_all
<1>6. CASE AddLogin \/ AddUsers
  BY <1>6 DEF AddLogin, AddUsers
<1>7. CASE set_links_homedir \/ DropPermissions
  BY <1>7 DEF set_links_homedir, set_file, DropPermissions
<1>8. CASE DesktopEntry
  <2>1. /\ apps' \in [Progs -> {"none", "user", "writing", "partial", "fixed"}]
        /\ todo' \subseteq Progs /\ fcfg' \in {"desktop", "write"}
    BY <1>8 DEF DesktopEntry
  <2> QED
    BY <1>8, <2>1 DEF DesktopEntry
<1>11. CASE WriteDesktop \/ DesktopDone
  BY <1>11 DEF WriteDesktop, DesktopDone
<1>9. CASE KilledFirecfg \/ Install
  BY <1>9 DEF KilledFirecfg, Install
<1> QED
  BY <1>2, <1>3, <1>4, <1>5, <1>6, <1>7, <1>8, <1>9, <1>10, <1>11 DEF GNext

\* Between two lines of the configuration nothing becomes due or ignored.
LEMMA SameLine ==
  ASSUME UNCHANGED <<host, line>>
  PROVE  /\ \A p : /\ Ignoring(p, line)' <=> Ignoring(p, line)
                   /\ Named(p, line)' <=> Named(p, line)
                   /\ Wanted(p)' <=> Wanted(p)
                   /\ Installed(p)' <=> Installed(p)
         /\ IgnoreLines' = IgnoreLines /\ IgnoresIn(line)' = IgnoresIn(line)
BY DEF Ignoring, Named, Wanted, Installed, IgnoreLines, IgnoresIn

\* Every step keeps the list of ignored names.
LEMMA IgnoresKept ==
  ASSUME GType, IgnoresKnown, GNext
  PROVE  IgnoresKnown'
<1>1. CASE parse_config_file
  BY <1>1, IgnoresStep
<1>2. CASE firecfg
  <2>1. line' = 0 /\ ignorelist' = <<>> /\ host' = host
    BY <1>2 DEF firecfg
  <2>2. GType'
    BY GTypeStep
  <2>3. ToSet(ignorelist') = {} /\ Len(ignorelist') = 0
    BY <2>1 DEF ToSet
  <2>4. \A p : ~Ignoring(p, line)'
    BY <2>1 DEF Ignoring
  <2>5. IgnoresIn(line)' = {} /\ Cardinality({}) = 0
    BY <2>1, FS_EmptySet DEF IgnoresIn
  <2> QED
    BY <2>3, <2>4, <2>5 DEF IgnoresKnown
<1>3. CASE UNCHANGED <<host, line, ignorelist>>
  BY <1>3, SameLine DEF IgnoresKnown
<1> QED
  BY <1>1, <1>2, <1>3 DEF GNext, run, MkdirFails, CleanEntry, Cleaned, parse_config_all,
     AddLogin, AddUsers, set_links_homedir, DropPermissions, DesktopEntry, WriteDesktop,
     DesktopDone, KilledFirecfg, Install

\* A link that set_file makes is due, and what was due is not disturbed.
LEMMA LinkSet ==
  ASSUME GType, NEW q \in Progs, set_file(q), UNCHANGED host,
         do_symlink /\ unlinked /\ IgnoreLines <= ignorelist_maxlen =>
           \A p \in Progs : IF Due(p) /\ Installed(p) THEN bin[p] # "none" ELSE bin[p] # "own",
         do_symlink /\ unlinked /\ IgnoreLines <= ignorelist_maxlen =>
           \A p \in Progs : Due(p)' <=> Due(p) \/ p = q
  PROVE  do_symlink /\ unlinked /\ IgnoreLines <= ignorelist_maxlen =>
           \A p \in Progs : IF Due(p)' /\ Installed(p) THEN bin'[p] # "none" ELSE bin'[p] # "own"
<1>1. CASE Installed(q) /\ bin[q] = "none"
  <2>1. bin'[q] = "own" /\ \A p \in Progs \ {q} : bin'[p] = bin[p]
    BY <1>1 DEF set_file, which, find_snap, Installed, GType
  <2> QED
    BY <1>1, <2>1
<1>2. CASE ~(Installed(q) /\ bin[q] = "none")
  <2>1. bin' = bin
    BY <1>2 DEF set_file, which, find_snap, Installed
  <2> QED
    BY <1>2, <2>1
<1> QED
  BY <1>1, <1>2

\* Every step keeps the links made as they are due.
LEMMA LinksStep ==
  ASSUME GIInv, GNext
  PROVE  LinksMade'
<1>1. GType /\ IgnoresKnown /\ LinksMade /\ GType' /\ host' = host
  BY GTypeStep DEF GIInv
<1> USE DEF GoTo, run, Stopped, do_symlink
<1>2. CASE fcfg' \in {"ok", "exit", "add"}
  BY <1>2 DEF LinksMade
<1>3. CASE firecfg
  <2>1. do_symlink' => fcfg' \in {"exit", "clean"}
    BY <1>3 DEF firecfg, FirstStep
  <2>2. do_symlink' => todo' = Progs
    BY <1>3 DEF firecfg
  <2> QED
    BY <2>1, <2>2 DEF LinksMade
<1>4. CASE CleanEntry
  <2>1. PICK p \in todo : /\ todo' = todo \ {p}
                          /\ \/ bin[p] # "own" /\ UNCHANGED <<bin, unlinked>>
                             \/ bin[p] = "own" /\ bin' = [bin EXCEPT ![p] = "none"] /\ UNCHANGED unlinked
                             \/ bin[p] = "own" /\ unlinked' = FALSE /\ UNCHANGED bin
    BY <1>4 DEF CleanEntry
  <2>2. fcfg = "clean" /\ UNCHANGED <<fcfg, cmd>> /\ IgnoreLines' = IgnoreLines
    BY <1>4, SameLine DEF CleanEntry
  <2>3. unlinked' => /\ unlinked /\ bin'[p] # "own"
                     /\ \A q \in Progs \ {p} : bin'[q] = bin[q]
    BY Zenon, <1>1, <2>1, <2>2 DEF GType
  <2> QED
    BY <1>1, <2>1, <2>2, <2>3 DEF LinksMade, GType
<1>5. CASE Cleaned
  <2>1. /\ fcfg = "clean" /\ todo = {} /\ line = 0 /\ ~done_config
        /\ UNCHANGED <<bin, line, host, cmd, unlinked, done_config>>
    BY <1>1, <1>5 DEF Cleaned, GType
  <2>2. fcfg' \in {"ok", "config"}
    BY <1>5 DEF Cleaned
  <2>3. \A p : ~Due(p)'
    BY <2>1, <2>2 DEF Due, Named
  <2> QED
    BY <1>1, <2>1, <2>2, <2>3, SameLine DEF LinksMade
<1>6. CASE parse_config_all \/ AddLogin \/ DesktopEntry \/ WriteDesktop
  <2>1. /\ UNCHANGED <<bin, host, line, cmd, unlinked>>
        /\ fcfg \in {"config", "user", "home", "desktop", "write"}
        /\ fcfg' \in {"config", "user", "home", "desktop", "write"}
    BY <1>6 DEF parse_config_all, AddLogin, DesktopEntry, WriteDesktop
  <2>2. do_symlink /\ unlinked /\ IgnoreLines <= ignorelist_maxlen => (fcfg' \in {"desktop", "write"} => done_config')
    BY Zenon, <1>1, <1>6 DEF LinksMade, parse_config_all, AddLogin, DesktopEntry, WriteDesktop
  <2>3. do_symlink => \A p : Due(p)' <=> Due(p)
    <3>1. CASE parse_config_all
      BY <3>1, <2>1, SameLine DEF Due, parse_config_all
    <3>2. CASE AddLogin
      BY <3>2, <2>1, <1>1, SameLine DEF Due, AddLogin
    <3>3. CASE DesktopEntry \/ WriteDesktop
      BY <3>3, <2>1, SameLine DEF Due, DesktopEntry, WriteDesktop
    <3> QED
      BY <1>6, <3>1, <3>2, <3>3
  <2> QED
    BY <1>1, <2>1, <2>2, <2>3, SameLine DEF LinksMade
<1>7. CASE DropPermissions
  <2>1. /\ fcfg = "home" /\ todo = {} /\ UNCHANGED <<bin, host, line, cmd, unlinked, done_config>>
        /\ fcfg' \in {"ok", "config"} /\ line = Len(host.config) /\ done_config
    BY <1>1, <1>7 DEF DropPermissions, GType
  <2>2. DOMAIN host.config = 1..Len(host.config)
    BY <1>1, FirecfgAssumption DEF GType
  <2>3. fcfg' = "config" => \A p : Due(p)' <=> Due(p)
    BY <2>1, <2>2, SameLine DEF Due, Wanted, Named
  <2> QED
    BY <1>1, <2>1, <2>3, SameLine DEF LinksMade
<1>8. CASE Install
  <2>1. /\ UNCHANGED <<host, fcfg, todo, line, cmd, done_config, unlinked>>
        /\ \A p \in Progs : bin'[p] = bin[p] \/ bin'[p] = "foreign"
    BY <1>1, <1>8 DEF Install, GType
  <2>2. \A p : Due(p)' <=> Due(p)
    BY <2>1, SameLine DEF Due
  <2> QED
    BY <1>1, <2>1, <2>2, SameLine DEF LinksMade
<1>9. CASE set_links_homedir
  <2>1. /\ fcfg = "home" /\ fcfg' = "home" /\ UNCHANGED <<host, line, cmd, done_config, unlinked>>
        /\ line = Len(host.config) /\ todo \subseteq host.profiles
    BY <1>1, <1>9 DEF set_links_homedir, GType
  <2>2. PICK q \in todo : /\ todo' = todo \ {q}
                          /\ IF in_ignorelist(q) THEN UNCHANGED bin ELSE set_file(q)
    BY <1>9 DEF set_links_homedir
  <2>3. q \in Progs
    BY <1>1, <2>1, FirecfgAssumption DEF GType
  <2>4. CASE in_ignorelist(q)
    <3>1. Ignoring(q, line)
      BY <1>1, <2>4 DEF IgnoresKnown, in_ignorelist
    <3>2. \A p : Due(p)' <=> Due(p)
      BY <2>1, <2>2, <3>1, SameLine DEF Due
    <3> QED
      BY <1>1, <2>1, <2>2, <2>4, <3>2, SameLine DEF LinksMade
  <2>5. CASE ~in_ignorelist(q)
    <3>1. IgnoreLines <= ignorelist_maxlen => ~Ignoring(q, line)
      BY <1>1, <2>3, <2>5 DEF IgnoresKnown, in_ignorelist
    <3>2. IgnoreLines <= ignorelist_maxlen => \A p : Due(p)' <=> Due(p) \/ p = q
      BY <2>1, <2>2, <3>1, SameLine DEF Due
    <3>3. do_symlink /\ unlinked /\ IgnoreLines <= ignorelist_maxlen =>
           \A p \in Progs : IF Due(p)' /\ Installed(p) THEN bin'[p] # "none" ELSE bin'[p] # "own"
      BY <1>1, <2>1, <2>2, <2>3, <2>5, <3>2, LinkSet DEF LinksMade
    <3> QED
      BY <2>1, <3>3, SameLine DEF LinksMade
  <2> QED
    BY <2>4, <2>5
<1>10. CASE parse_config_file
  <2> DEFINE l == host.config[line + 1]
  <2>1. /\ fcfg = "config" /\ ~done_config /\ line < Len(host.config) /\ line' = line + 1
        /\ UNCHANGED <<host, cmd, done_config, unlinked>>
    BY <1>10 DEF parse_config_file
  <2>2. /\ l \in [what : {"name", "ignore", "invalid"}, p : Progs] /\ l.p \in Progs
        /\ \A p : Ignoring(p, line + 1) <=> Ignoring(p, line) \/ l = Line("ignore", p)
        /\ \A p : Named(p, line + 1) <=> Named(p, line) \/ (l = Line("name", p) /\ ~Ignoring(p, line + 1))
    BY <1>1, <2>1, NextLine
  <2>3. /\ \A p : Due(p) <=> Named(p, line)
        /\ fcfg' = "config" => \A p : Due(p)' <=> Named(p, line + 1)
    BY <2>1 DEF Due, Named, Ignoring
  <2>4. \A p : (Installed(p)' <=> Installed(p)) /\ IgnoreLines' = IgnoreLines
    BY <2>1 DEF Installed, IgnoreLines
  <2>5. \A p, w : Line(w, p).what = w /\ Line(w, p).p = p
    BY DEF Line
  <2>6. CASE l.what = "invalid"
    BY <1>2, <1>10, <2>6 DEF parse_config_file
  <2>7. CASE l.what = "ignore" \/ (l.what = "name" /\ in_ignorelist(l.p))
    <3>1. fcfg' = "config" /\ (do_symlink => bin' = bin)
      BY <1>10, <2>1, <2>7 DEF parse_config_file
    <3>2. l.what = "name" => Ignoring(l.p, line + 1)
      BY <1>1, <2>2, <2>7 DEF IgnoresKnown, in_ignorelist
    <3>3. \A p : Named(p, line + 1) <=> Named(p, line)
      <4> HIDE DEF l
      <4> QED
        BY <2>2, <2>5, <2>7, <3>2
    <3> QED
      BY <1>1, <2>1, <2>3, <2>4, <3>1, <3>3 DEF LinksMade
  <2>8. CASE l.what = "name" /\ ~in_ignorelist(l.p)
    <3>1. fcfg' = "config" /\ (do_symlink => set_file(l.p))
      BY <1>10, <2>1, <2>8 DEF parse_config_file
    <3>2. IgnoreLines <= ignorelist_maxlen => ~Ignoring(l.p, line + 1)
      <4>1. l # Line("ignore", l.p)
        BY <2>5, <2>8
      <4>2. IgnoreLines <= ignorelist_maxlen => ~Ignoring(l.p, line)
        BY <1>1, <2>2, <2>8 DEF IgnoresKnown, in_ignorelist
      <4> HIDE DEF l
      <4> QED
        BY <2>2, <4>1, <4>2
    <3>3. l = Line("name", l.p)
      BY <2>2, <2>8 DEF Line
    <3>4. IgnoreLines <= ignorelist_maxlen => \A p \in Progs : Due(p)' <=> Due(p) \/ p = l.p
      <4>1. \A p : l = Line("name", p) <=> p = l.p
        BY <2>5, <3>3
      <4> HIDE DEF l
      <4> QED
        BY <2>2, <2>3, <3>1, <3>2, <4>1
    <3>5. do_symlink /\ unlinked /\ IgnoreLines <= ignorelist_maxlen =>
           \A p \in Progs : IF Due(p)' /\ Installed(p) THEN bin'[p] # "none" ELSE bin'[p] # "own"
      <4>1. do_symlink /\ unlinked /\ IgnoreLines <= ignorelist_maxlen =>
           \A p \in Progs : IF Due(p) /\ Installed(p) THEN bin[p] # "none" ELSE bin[p] # "own"
        BY <1>1, <2>1 DEF LinksMade
      <4> HIDE DEF l
      <4> QED
        BY <1>1, <2>1, <2>2, <3>1, <3>4, <4>1, LinkSet
    <3> QED
      BY <2>1, <2>4, <3>1, <3>5 DEF LinksMade
  <2> QED
    BY <2>2, <2>6, <2>7, <2>8
<1>11. CASE MkdirFails \/ DesktopDone \/ KilledFirecfg
  BY <1>2, <1>11 DEF MkdirFails, DesktopDone, KilledFirecfg
<1>12. CASE AddUsers
  BY <1>1, <1>2, <1>12 DEF AddUsers, GType
<1> QED
  BY <1>3, <1>4, <1>5, <1>6, <1>7, <1>8, <1>9, <1>10, <1>11, <1>12 DEF GNext

\* The initial states satisfy the invariant: nothing is read and nothing due.
LEMMA GInitIInv == GInit => GIInv
<1> SUFFICES ASSUME GInit PROVE GIInv
  OBVIOUS
<1>1. host.config \in Seq([what : {"name", "ignore", "invalid"}, p : Progs])
  BY Zenon, FirecfgAssumption DEF GInit
<1>2. Len(host.config) \in Nat
  BY <1>1
<1>3. GType
  <2>1. /\ bin \in [Progs -> {"none", "own", "foreign", "dangling"}]
        /\ apps \in [Progs -> {"none", "user", "writing", "partial", "fixed"}]
    BY DEF GInit
  <2>2. line \in 0..Len(host.config)
    BY <1>2 DEF GInit
  <2>3. ignorelist \in Seq(Progs)
    BY DEF GInit
  <2>4. done_config \in BOOLEAN /\ unlinked \in BOOLEAN
    BY Zenon DEF GInit
  <2> QED
    BY <2>1, <2>2, <2>3, <2>4 DEF GInit, GType
<1>4. IgnoresIn(line) = {} /\ ToSet(ignorelist) = {} /\ Len(ignorelist) = 0
  BY DEF GInit, IgnoresIn, ToSet
<1>5. \A p : ~Ignoring(p, line)
  BY DEF GInit, Ignoring
<1>6. IgnoresKnown
  BY <1>4, <1>5, FS_EmptySet DEF IgnoresKnown
<1>7. LinksMade
  BY DEF GInit, LinksMade, do_symlink
<1> QED
  BY <1>3, <1>6, <1>7 DEF GIInv

\* Every step, stuttering included, keeps it.
LEMMA GStep == GIInv /\ [GNext]_gvars => GIInv'
<1> SUFFICES ASSUME GIInv, [GNext]_gvars PROVE GIInv'
  OBVIOUS
<1>1. CASE GNext
  BY <1>1, GTypeStep, IgnoresKept, LinksStep DEF GIInv
<1>2. CASE UNCHANGED gvars
  <2>1. UNCHANGED <<bin, host, fcfg, cmd, todo, line, ignorelist, done_config, unlinked>>
    BY <1>2 DEF gvars
  <2>2. GType'
    BY <1>2 DEF GIInv, GType, gvars
  <2>3. IgnoresIn(line)' = IgnoresIn(line) /\ IgnoreLines' = IgnoreLines /\ ToSet(ignorelist)' = ToSet(ignorelist)
    BY <2>1 DEF IgnoresIn, IgnoreLines, ToSet
  <2>4. IgnoresKnown'
    BY <2>1, <2>3, SameLine DEF GIInv, IgnoresKnown
  <2>5. \A p : (Due(p)' <=> Due(p)) /\ (Installed(p)' <=> Installed(p))
    BY <2>1, SameLine DEF Due, Installed
  <2>6. LinksMade'
    BY <2>1, <2>3, <2>5 DEF GIInv, LinksMade, do_symlink
  <2> QED
    BY <2>2, <2>4, <2>6 DEF GIInv
<1> QED
  BY <1>1, <1>2

\* What is not firecfg's own stays as it is.
LEMMA OthersKept ==
  ASSUME GIInv, GNext
  PROVE  /\ \A p \in Progs : /\ bin[p] \in {"foreign", "dangling"} => bin'[p] = bin[p]
                             /\ apps[p] = "user" => apps'[p] = "user"
         /\ users # NoDatabase => users \subseteq users'
<1> USE DEF GoTo, run
<1>1. GType
  BY DEF GIInv
<1>2. CASE firecfg \/ MkdirFails \/ Cleaned \/ parse_config_all \/ DropPermissions \/ DesktopDone
  BY <1>2 DEF firecfg, MkdirFails, Cleaned, parse_config_all, DropPermissions, DesktopDone
<1>3. CASE CleanEntry \/ Install
  BY <1>1, <1>3 DEF CleanEntry, Install, GType
<1>4. CASE parse_config_file
  <2>1. UNCHANGED <<apps, users>>
    BY <1>4 DEF parse_config_file
  <2>2. bin' = bin \/ \E q : set_file(q)
    BY <1>4 DEF parse_config_file
  <2> QED
    BY <1>1, <2>1, <2>2 DEF set_file, GType
<1>5. CASE set_links_homedir
  <2>1. UNCHANGED <<apps, users>>
    BY <1>5 DEF set_links_homedir
  <2>2. bin' = bin \/ \E q : set_file(q)
    BY <1>5 DEF set_links_homedir
  <2> QED
    BY <1>1, <2>1, <2>2 DEF set_file, GType
<1>6. CASE AddLogin \/ AddUsers
  BY <1>6 DEF AddLogin, AddUsers, firejail_user_add
<1>7. CASE DesktopEntry
  BY <1>1, <1>7 DEF DesktopEntry, Converts, GType
<1>8. CASE WriteDesktop \/ KilledFirecfg
  BY <1>1, <1>8 DEF WriteDesktop, KilledFirecfg, GType
<1> QED
  BY <1>2, <1>3, <1>4, <1>5, <1>6, <1>7, <1>8 DEF GNext

\* When a run completes, what is due is what the configuration asks for.
LEMMA DueAtEnd ==
  ASSUME GIInv, GNext, ~Stopped, fcfg' = "ok", do_symlink, unlinked,
         IgnoreLines <= ignorelist_maxlen, NEW p \in Progs
  PROVE  IF Wanted(p) /\ p \in host.installed \ host.snap THEN bin'[p] # "none"
         ELSE bin'[p] # "own"
<1> USE DEF GoTo, run, Stopped, do_symlink
<1>1. GType /\ LinksMade
  BY DEF GIInv
<1>2. DOMAIN host.config = 1..Len(host.config) /\ Len(host.config) \in Nat
  BY <1>1, FirecfgAssumption DEF GType
<1>3. CASE DropPermissions
  <2>1. bin' = bin /\ fcfg = "home" /\ todo = {} /\ line = Len(host.config)
    BY <1>1, <1>3 DEF DropPermissions, GType
  <2>2. Due(p) <=> Wanted(p)
    BY <1>2, <2>1 DEF Due, Named, Wanted
  <2> QED
    BY <1>1, <2>1, <2>2 DEF LinksMade, Installed
<1>4. CASE DesktopDone
  <2>1. bin' = bin /\ fcfg = "desktop" /\ done_config
    BY <1>1, <1>4 DEF DesktopDone, LinksMade
  <2>2. Named(p, line) => Wanted(p)
    BY <1>1, <1>2 DEF Named, Wanted, GType
  <2>3. Due(p) <=> Wanted(p)
    BY <2>1, <2>2 DEF Due
  <2> QED
    BY <1>1, <2>1, <2>3 DEF LinksMade, Installed
<1>5. CASE Cleaned \/ AddUsers
  BY Zenon, <1>1, <1>5 DEF Cleaned, AddUsers, GType
<1>6. CASE firecfg \/ MkdirFails \/ CleanEntry \/ parse_config_all \/ AddLogin \/ DesktopEntry
  BY Zenon, <1>6 DEF firecfg, MkdirFails, CleanEntry, parse_config_all, AddLogin, DesktopEntry
<1>7. CASE parse_config_file \/ set_links_homedir \/ WriteDesktop \/ KilledFirecfg \/ Install
  BY Zenon, <1>7 DEF parse_config_file, set_links_homedir, WriteDesktop, KilledFirecfg, Install
<1> QED
  BY <1>3, <1>4, <1>5, <1>6, <1>7 DEF GNext

\* For every configuration, machine and sequence of runs, killed or not: a run of
\* firecfg that completes leaves links for exactly the installed programs its
\* configuration asks for (parse_config_file, set_links_homedir, clean), and no
\* step touches what firecfg does not own.
THEOREM LinksAreAsConfigured == GInit /\ [][GNext]_gvars => LinksAsConfigured
<1>1. GIInv /\ [GNext]_gvars =>
        [/\ \A p \in Progs : /\ bin[p] \in {"foreign", "dangling"} => bin'[p] = bin[p]
                             /\ apps[p] = "user" => apps'[p] = "user"
         /\ users # NoDatabase => users \subseteq users'
         /\ ~Stopped /\ fcfg' = "ok" /\ do_symlink /\ unlinked /\ IgnoreLines <= ignorelist_maxlen =>
              \A p \in Progs :
                IF Wanted(p) /\ p \in host.installed \ host.snap THEN bin'[p] # "none"
                ELSE bin'[p] # "own"]_gvars
  BY OthersKept, DueAtEnd
<1> QED
  BY <1>1, GInitIInv, GStep, PTL DEF LinksAsConfigured
=============================================================================
