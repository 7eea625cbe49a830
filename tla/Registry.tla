------------------------------ MODULE Registry ------------------------------
(***************************************************************************)
(* What the server promises of its registry: a set of vaults, each with an *)
(* id that no vault had before it and an image file that is there and no   *)
(* other vault's.  A vault enters and leaves it as a whole, one at a time, *)
(* and does not leave while it is in use.                                  *)
(***************************************************************************)
EXTENDS Naturals

CONSTANTS
    Names,
    Paths,
    Existing   \* image files that are there at first

VARIABLES
    vaults,
    nextId,
    files,     \* paths with an image file
    inUse      \* names and images whose filesystem is mounted

Init ==
    /\ vaults = {} /\ nextId = 1
    /\ files = Existing
    /\ inUse = {}

\* A vault is created or imported: its name and its image are nobody else's.
Register(n, p) ==
    /\ p \in files
    /\ \A v \in vaults : v.name # n /\ v.path # p
    /\ vaults' = vaults \cup {[id |-> nextId, name |-> n, path |-> p]}
    /\ nextId' = nextId + 1
    /\ UNCHANGED <<files, inUse>>

Unregister(v) ==
    /\ <<v.name, v.path>> \notin inUse
    /\ vaults' = vaults \ {v}
    /\ UNCHANGED <<nextId, files, inUse>>

MakeFile(p) ==
    /\ files' = files \cup {p}
    /\ UNCHANGED <<vaults, nextId, inUse>>

\* Only a file that is no vault's; what was mounted from it is then nobody's.
RemoveFile(p) ==
    /\ \A v \in vaults : v.path # p
    /\ files' = files \ {p}
    /\ inUse' \in {inUse, {u \in inUse : u[2] # p}}
    /\ UNCHANGED <<vaults, nextId>>

Mount(n, p)   == inUse' = inUse \cup {<<n, p>>} /\ UNCHANGED <<vaults, nextId, files>>
Unmount(n, p) == inUse' = inUse \ {<<n, p>>} /\ UNCHANGED <<vaults, nextId, files>>

Next ==
    \/ \E n \in Names, p \in Paths : Register(n, p)
    \/ \E v \in vaults : Unregister(v)
    \/ \E p \in Paths : MakeFile(p) \/ RemoveFile(p)
    \/ \E n \in Names, p \in Paths : Mount(n, p) \/ Unmount(n, p)

Spec == Init /\ [][Next]_<<vaults, nextId, files, inUse>>

=============================================================================
