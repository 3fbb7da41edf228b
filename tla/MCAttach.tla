------------------------------ MODULE MCAttach ------------------------------
(* Small instances of Attach. *)
EXTENDS Attach

Regular == {"noroot", "caps", "nonewprivs", "nogroups", "kseccomp", "nonet",
            "seccomp"}

\* A regular user's sandbox with everything --join has to rebuild, and a
\* sandbox of root.
MCOptions == {Regular, {"rootuser", "nonet", "seccomp", "kseccomp"}}
MCOne == {{"nonet", "seccomp", "kseccomp"}}
MCCommands == {"join", "rootjoin", "joinnet", "joinfs", "shut"}
MCShut == {"shut"}
=============================================================================
