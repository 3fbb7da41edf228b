------------------------------- MODULE Firecfg -------------------------------
(***************************************************************************)
(* firecfg: makes the programs of a list start in a sandbox, with links to *)
(* firejail in /usr/local/bin (or --bindir), adds the login user to the    *)
(* access database, and copies desktop files that name a program by its    *)
(* full path.  Directories are read one entry at a time; firecfg may be    *)
(* killed between any two steps and run again, and others put files into   *)
(* the directory meanwhile.                                                *)
(***************************************************************************)
EXTENDS Integers, Sequences, FiniteSets, SequencesExt

CONSTANTS Progs,               \* names of programs
          Machines,            \* records: installed, snap, profiles, config, desktop
          ignorelist_maxlen,
          MaxFirecfg           \* starts of firecfg in one behaviour

\* A line names a program or, with !, one to ignore; or has .. or / in it.
Line(what, p) == [what |-> what, p |-> p]
ASSUME FirecfgAssumption ==
  /\ ignorelist_maxlen \in Nat
  /\ \A m \in Machines : /\ m.config \in Seq([what : {"name", "ignore", "invalid"}, p : Progs])
                         /\ m.profiles \subseteq Progs

Users == {"root", "nobody", "alice", "bob"}
NoDatabase == {"no database"}

VARIABLES bin,          \* [Progs -> "none", "own", "foreign" or "dangling"]
          apps,         \* [Progs -> "none", "user", "writing", "partial" or "fixed"]
          users,        \* firejail.users, or NoDatabase
          host,         \* one of Machines; config: the lines of all configuration files
          fcfg,         \* where firecfg is; "ok" and "exit" when it does not run
          cmd,          \* its command
          login,        \* who ran sudo
          uid,          \* getuid(): "root" or "user"
          todo,         \* directory entries not read yet
          line,         \* lines of the configuration read
          ignorelist,
          done_config,
          unlinked,     \* every unlink() succeeded
          starts_cfg

gvars == <<bin, apps, users, host, fcfg, cmd, login, uid, todo, line, ignorelist,
           done_config, unlinked, starts_cfg>>
run == <<cmd, login, host, starts_cfg>>    \* fixed while firecfg runs

Stopped == fcfg \in {"ok", "exit"}
GoTo(pc, entries) == fcfg' = pc /\ todo' = entries

(***************************************************************************)
(* main: the commands.  Without --bindir the links need root; the          *)
(* directory is created when it is missing.                                *)
(***************************************************************************)
FirstStep(c, u) ==
  CASE c \in {"set", "bindir", "clean"} -> IF c = "set" /\ u # "root" THEN "exit" ELSE "clean"
    [] c = "fix" -> IF u = "root" THEN "exit" ELSE "config"
    [] c = "add-users" -> IF u = "root" THEN "add" ELSE "exit"

firecfg ==
  /\ Stopped /\ starts_cfg < MaxFirecfg
  /\ starts_cfg' = starts_cfg + 1
  /\ cmd' \in {"set", "bindir", "clean", "fix", "add-users"}
  /\ uid' \in {"root", "user"}
  /\ login' \in IF uid' = "root" THEN {"root", "alice"} ELSE {"alice"}
  /\ GoTo(FirstStep(cmd', uid'), IF cmd' = "add-users" THEN {"bob", "nobody", "unknown"} ELSE Progs)
  /\ line' = 0 /\ ignorelist' = <<>> /\ done_config' = FALSE /\ unlinked' = TRUE
  /\ UNCHANGED <<bin, apps, users, host>>

MkdirFails ==
  /\ fcfg = "clean" /\ cmd = "set" /\ todo = Progs
  /\ GoTo("exit", {})
  /\ UNCHANGED <<run, bin, apps, users, uid, line, ignorelist, done_config, unlinked>>

(***************************************************************************)
(* clean: removes the links whose realpath() is firejail.                  *)
(***************************************************************************)
CleanEntry ==
  /\ fcfg = "clean"
  /\ \E p \in todo :
       /\ todo' = todo \ {p}
       /\ \/ bin[p] # "own" /\ UNCHANGED <<bin, unlinked>>
          \/ bin[p] = "own" /\ bin' = [bin EXCEPT ![p] = "none"] /\ UNCHANGED unlinked
          \/ bin[p] = "own" /\ unlinked' = FALSE /\ UNCHANGED bin
  /\ UNCHANGED <<run, fcfg, apps, users, uid, line, ignorelist, done_config>>

Cleaned ==
  /\ fcfg = "clean" /\ todo = {}
  /\ GoTo(IF cmd = "clean" THEN "ok" ELSE "config", {})
  /\ UNCHANGED <<run, bin, apps, users, uid, line, ignorelist, done_config, unlinked>>

(***************************************************************************)
(* set_file: a link for a program that is installed and not a snap, where  *)
(* nothing of that name exists.  stat() fails on a dangling link, and      *)
(* symlink() then fails too.  (PATH may hold the directory of the links:   *)
(* what which() finds there exists already.)                               *)
(***************************************************************************)
which(p) == p \in host.installed
find_snap(p) == p \in host.snap

set_file(p) ==
  bin' = IF which(p) /\ ~find_snap(p) /\ bin[p] = "none" THEN [bin EXCEPT ![p] = "own"]
         ELSE bin

append_ignorelist(p) ==
  ignorelist' = IF Len(ignorelist) < ignorelist_maxlen THEN Append(ignorelist, p)
                ELSE ignorelist

\* mutant: only the last name is compared
in_ignorelist_last(p) == ignorelist # <<>> /\ p = Last(ignorelist)

in_ignorelist(p) == p \in ToSet(ignorelist)

\* do_symlink of parse_config_all
do_symlink == cmd \in {"set", "bindir"}

(***************************************************************************)
(* parse_config_file over all files, those of firecfg.d first.             *)
(***************************************************************************)
parse_config_file ==
  /\ fcfg = "config" /\ ~done_config /\ line < Len(host.config)
  /\ line' = line + 1
  /\ LET l == host.config[line + 1]
     IN  \/ /\ l.what = "invalid"
            /\ GoTo("exit", {}) /\ UNCHANGED <<bin, ignorelist>>
         \/ /\ l.what = "ignore"
            /\ append_ignorelist(l.p) /\ UNCHANGED <<bin, fcfg, todo>>
         \/ /\ l.what = "name"
            /\ IF in_ignorelist(l.p) \/ ~do_symlink THEN UNCHANGED bin ELSE set_file(l.p)
            /\ UNCHANGED <<ignorelist, fcfg, todo>>
  /\ UNCHANGED <<run, apps, users, uid, done_config, unlinked>>

\* parse_config_all returns at once the second time.
parse_config_all ==
  /\ fcfg = "config" /\ (done_config \/ line = Len(host.config))
  /\ done_config' = TRUE
  /\ IF do_symlink /\ ~done_config
     THEN GoTo(IF uid = "root" THEN "user" ELSE "home", host.profiles)
     ELSE GoTo("desktop", Progs)
  /\ UNCHANGED <<run, bin, apps, users, uid, line, ignorelist, unlinked>>

(***************************************************************************)
(* The access database.                                                    *)
(***************************************************************************)
firejail_user_check(name, db) ==
  \/ name = "root"
  \/ name # "nobody" /\ (db = NoDatabase \/ name \in db)

\* fopen() may fail.
firejail_user_add(name) ==
  \/ /\ users # NoDatabase /\ firejail_user_check(name, users)
     /\ UNCHANGED users
  \/ /\ users = NoDatabase \/ ~firejail_user_check(name, users)
     /\ users' \in {users, {name} \cup (IF users = NoDatabase THEN {} ELSE users)}

AddLogin ==
  /\ fcfg = "user"
  /\ firejail_user_add(login)
  /\ fcfg' = "home"
  /\ UNCHANGED <<run, bin, apps, uid, todo, line, ignorelist, done_config, unlinked>>

\* --add-users: a name that is not a user ends firecfg.
AddUsers ==
  /\ fcfg = "add"
  /\ \/ \E u \in todo \cap Users : /\ firejail_user_add(u) /\ todo' = todo \ {u}
                                   /\ UNCHANGED fcfg
     \/ "unknown" \in todo /\ GoTo("exit", {}) /\ UNCHANGED users
     \/ GoTo("ok", {}) /\ UNCHANGED users
  /\ UNCHANGED <<run, bin, apps, uid, line, ignorelist, done_config, unlinked>>

(***************************************************************************)
(* set_links_homedir: the profiles of ~/.config/firejail.                  *)
(***************************************************************************)
set_links_homedir ==
  /\ fcfg = "home"
  /\ \E p \in todo :
       /\ todo' = todo \ {p}
       /\ IF in_ignorelist(p) THEN UNCHANGED bin ELSE set_file(p)
  /\ UNCHANGED <<run, fcfg, apps, users, uid, line, ignorelist, done_config, unlinked>>

\* Privileges are dropped; root's own desktop files are left alone.
DropPermissions ==
  /\ fcfg = "home" /\ todo = {}
  /\ uid' = IF login = "root" THEN "root" ELSE "user"
  /\ GoTo(IF uid' = "root" THEN "ok" ELSE "config", {})
  /\ UNCHANGED <<run, bin, apps, users, line, ignorelist, done_config, unlinked>>

(***************************************************************************)
(* fix_desktop_files: a file of a program with a profile, with a full path *)
(* or D-Bus activation ("fixable"), that the user does not have.           *)
(***************************************************************************)
have_profile(p) == host.desktop[p] # "noprofile"

Converts(p) ==
  ~in_ignorelist(p) /\ have_profile(p) /\ host.desktop[p] = "fixable" /\ apps[p] = "none"

DesktopEntry ==
  /\ fcfg = "desktop"
  /\ \E p \in todo :
       /\ todo' = todo \ {p}
       /\ \/ UNCHANGED <<fcfg, apps>>     \* skipped, or a file cannot be opened
          \/ Converts(p) /\ apps' = [apps EXCEPT ![p] = "writing"] /\ fcfg' = "write"
  /\ UNCHANGED <<run, bin, users, uid, line, ignorelist, done_config, unlinked>>

WriteDesktop ==
  /\ fcfg = "write"
  /\ apps' = [p \in Progs |-> IF apps[p] = "writing" THEN "fixed" ELSE apps[p]]
  /\ fcfg' = "desktop"
  /\ UNCHANGED <<run, bin, users, uid, todo, line, ignorelist, done_config, unlinked>>

DesktopDone ==
  /\ fcfg = "desktop" /\ todo \in {{}, Progs}     \* Progs: no access to a directory
  /\ GoTo("ok", {})
  /\ UNCHANGED <<run, bin, apps, users, uid, line, ignorelist, done_config, unlinked>>

\* External: a signal, and other programs that install files.
KilledFirecfg ==
  /\ ~Stopped /\ GoTo("exit", {})
  /\ apps' = [p \in Progs |-> IF apps[p] = "writing" THEN "partial" ELSE apps[p]]
  /\ UNCHANGED <<run, bin, users, uid, line, ignorelist, done_config, unlinked>>

Install ==
  /\ ~Stopped
  /\ \E p \in Progs : bin[p] = "none" /\ bin' = [bin EXCEPT ![p] = "foreign"]
  /\ UNCHANGED <<run, fcfg, apps, users, uid, todo, line, ignorelist, done_config, unlinked>>

GInit ==
  /\ bin \in [Progs -> {"none", "dangling"}]
  /\ apps \in [Progs -> {"none", "user"}]
  /\ users \in {NoDatabase, {"bob"}}
  /\ host \in Machines
  /\ fcfg = "ok" /\ cmd = "none" /\ login = "alice" /\ uid = "user"
  /\ todo = {} /\ line = 0 /\ ignorelist = <<>> /\ done_config = FALSE
  /\ unlinked = TRUE /\ starts_cfg = 0

GNext ==
  \/ firecfg \/ MkdirFails \/ CleanEntry \/ Cleaned \/ parse_config_file \/ parse_config_all
  \/ AddLogin \/ AddUsers \/ set_links_homedir \/ DropPermissions
  \/ DesktopEntry \/ WriteDesktop \/ DesktopDone \/ KilledFirecfg \/ Install

-----------------------------------------------------------------------------
Ignoring(p, n) == \E i \in 1..n : host.config[i] = Line("ignore", p)

\* The programs the configuration asks for.
Wanted(p) ==
  \/ \E i \in DOMAIN host.config : host.config[i] = Line("name", p) /\ ~Ignoring(p, i)
  \/ p \in host.profiles /\ ~Ignoring(p, Len(host.config))

IgnoreLines == Cardinality({i \in DOMAIN host.config : host.config[i].what = "ignore"})

\* However often firecfg was killed before, a run that completes leaves links to
\* firejail for exactly the programs the configuration asks for, and that are
\* installed, unless something else has the name; it never touches what is not
\* its own, in the directory of the links, among the desktop files of the user
\* or in the access database (clean, set_file, fix_desktop_files,
\* firejail_user_add).
LinksAsConfigured ==
  [][/\ \A p \in Progs : /\ bin[p] \in {"foreign", "dangling"} => bin'[p] = bin[p]
                         /\ apps[p] = "user" => apps'[p] = "user"
     /\ users # NoDatabase => users \subseteq users'
     /\ ~Stopped /\ fcfg' = "ok" /\ do_symlink /\ unlinked /\ IgnoreLines <= ignorelist_maxlen =>
          \A p \in Progs :
            IF Wanted(p) /\ p \in host.installed \ host.snap THEN bin'[p] # "none"
            ELSE bin'[p] # "own"]_gvars
==============================================================================
