---------------------------- MODULE MCStateStore ----------------------------
(***************************************************************************)
(* A small instance of StateStore for TLC.                                 *)
(***************************************************************************)
EXTENDS StateStore

\* Files are all alike, so a save may as well take a fixed one of those that
\* are not in use.
FixedChoice ==
    \A c \in Clients :
        tmp'[c] # tmp[c] /\ tmp'[c] # NoInode /\ Unused(tmp'[c])
            => tmp'[c] = CHOOSE i \in Inodes : Unused(i)
=============================================================================
