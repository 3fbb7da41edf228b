----------------------------- MODULE MCSandbox -----------------------------
(* Small instances of Sandbox: which options the user may combine. *)
EXTENDS SandboxLifecycle

\* A regular user with everything on.
Everything == {"bridge", "noroot", "caps", "nonewprivs", "nogroups", "dbus",
               "named", "kseccomp"} \cup Filters

\* The same in a chroot (noroot is then dropped), an appimage that relies on
\* enforce_filters(), a sandbox of root with a moved interface, and a bare
\* one on a kernel without seccomp.
MCOptions ==
  {Everything, Everything \cup {"chroot"}, {"appimage", "noroot", "nonet", "kseccomp"},
   {"rootuser", "iface", "seccomp", "protocol", "kseccomp"}, {"noroot", "mdwx"}}

MCEverything == {Everything}
============================================================================
