---------------------------- MODULE MCHostFiles -----------------------------
(* A file in the root, two names that a client uses for files and for the  *)
(* directories of other files, and a path that leaves the root by way of a *)
(* directory in it.                                                        *)
EXTENDS HostFiles

CONSTANTS a, b, c, out

MCPath == {Root, a, b, c, out}
MCAncestors ==
    [path \in MCPath |->
        CASE path = Root -> {}
          [] path = a -> {Root}
          [] path \in {b, out} -> {Root, a}
          [] path = c -> {Root, a, b}]
MCOffset == 0..1
MCData == {<<1, 1>>}

=============================================================================
