----------------------------- MODULE StateStore -----------------------------
(***************************************************************************)
(* The runtime state store (src/runtime/state_store.cpp): LoadState and    *)
(* SaveState, system call by system call, by any number of kubeforward     *)
(* processes on one state file.  A client is a process with its pid; when  *)
(* it has been killed another process may get that pid, and finds what the *)
(* killed one has left under the temporary name.                           *)
(*                                                                         *)
(* A state is written and read in Chunks pieces.  A file holds the first   *)
(* len pieces of a state; what its names are is a matter of the directory. *)
(***************************************************************************)
EXTENDS Naturals, Sequences

CONSTANTS
    Clients,    \* processes that load and save the state
    States,     \* runtime states
    NoSessions, \* the state before anything has been saved
    Error,      \* what a load or a save that fails returns
    Torn,       \* what a text is read as that no save has written
    Inodes,     \* files, whatever their names
    NoInode,    \* what a name refers to that does not exist
    Chunks      \* pieces that a state is written in

ASSUME StoreAssumption ==
    /\ NoSessions \in States
    /\ Error \notin States
    /\ Torn \notin States
    /\ NoInode \notin Inodes
    /\ Chunks \in Nat \ {0}

VARIABLES
    parent,     \* does the state file's directory exist?
    path,       \* the file with the state file's name
    tmp,        \* the file with each client's temporary name
    data,       \* the contents of files
    shared,     \* the clients that hold the lock file's lock, shared
    exclusive,  \* ... or exclusive
    at,         \* what each client does next
    arg,        \* the state it saves
    fd,         \* the file it has opened to read
    got,        \* the pieces it has read, by the state each is a piece of
    ret         \* what its call returns

files == <<parent, path, tmp, data>>
locks == <<shared, exclusive>>
locals == <<arg, fd, got, ret>>
storeVars == <<parent, path, tmp, data, shared, exclusive, at, arg, fd, got, ret>>

Content == [of : States, len : 0..Chunks]

Loads == {"loadParent", "loadLock", "open", "read"}
Saves == {"saveParent", "saveLock", "openTmp", "write", "renamed"}

Init ==
    /\ parent = FALSE
    /\ path = NoInode
    /\ tmp = [c \in Clients |-> NoInode]
    /\ data = [i \in Inodes |-> [of |-> NoSessions, len |-> 0]]
    /\ shared = {}
    /\ exclusive = {}
    /\ at = [c \in Clients |-> "idle"]
    /\ arg = [c \in Clients |-> NoSessions]
    /\ fd = [c \in Clients |-> NoInode]
    /\ got = [c \in Clients |-> <<>>]
    /\ ret = [c \in Clients |-> Error]

Go(c, stage) == at' = [at EXCEPT ![c] = stage]

\* Mutant: the lock file stays open.
KeepLocked(c) == UNCHANGED locks

\* Closing the lock file's descriptor, as the end of a process does, unlocks it.
Unlock(c) ==
    /\ shared' = shared \ {c}
    /\ exclusive' = exclusive \ {c}

Finish(c, r) ==
    /\ Go(c, "done")
    /\ ret' = [ret EXCEPT ![c] = r]
    /\ Unlock(c)

Forget(c) ==
    /\ Go(c, "idle")
    /\ arg' = [arg EXCEPT ![c] = NoSessions]
    /\ fd' = [fd EXCEPT ![c] = NoInode]
    /\ got' = [got EXCEPT ![c] = <<>>]
    /\ ret' = [ret EXCEPT ![c] = Error]

\* The caller takes the result.
Return(c) ==
    /\ at[c] = "done"
    /\ Forget(c)
    /\ UNCHANGED <<files, locks>>

\* The process is killed in the middle of a call.
Crash(c) ==
    /\ at[c] \in Loads \cup Saves
    /\ Forget(c)
    /\ Unlock(c)
    /\ UNCHANGED files

\* OpenAndLockStateFile fails.
LockFails(c) ==
    /\ at[c] \in {"loadLock", "saveLock"}
    /\ Finish(c, Error)
    /\ UNCHANGED <<files, arg, fd, got>>

-----------------------------------------------------------------------------
(* LoadState.                                                              *)

CallLoad(c) ==
    /\ at[c] = "idle"
    /\ Go(c, "loadParent")
    /\ UNCHANGED <<files, locks, locals>>

\* Without the directory there is no state yet, and nothing to lock.  That it
\* cannot be asked for the directory counts as the same.
LoadParent(c) ==
    /\ at[c] = "loadParent"
    /\ \/ parent /\ Go(c, "loadLock") /\ UNCHANGED <<locks, ret>>
       \/ Finish(c, NoSessions)
    /\ UNCHANGED <<files, arg, fd, got>>

LoadLock(c) ==
    /\ at[c] = "loadLock"
    /\ exclusive = {}
    /\ shared' = shared \cup {c}
    /\ Go(c, "open")
    /\ UNCHANGED <<files, exclusive, locals>>

\* Mutant: it is not asked whether the file could be opened.
OpenUnchecked(c) ==
    /\ at[c] = "open"
    /\ Go(c, "read")
    /\ fd' = [fd EXCEPT ![c] = path]
    /\ UNCHANGED <<files, locks, arg, got, ret>>

Open(c) ==
    /\ at[c] = "open"
    /\ path # NoInode
    /\ Go(c, "read")
    /\ fd' = [fd EXCEPT ![c] = path]
    /\ UNCHANGED <<files, locks, arg, got, ret>>

\* A state file that does not exist stands for a state without sessions, and
\* so does one that exists and cannot be opened.
OpenFails(c) ==
    /\ at[c] = "open"
    /\ Finish(c, NoSessions)
    /\ UNCHANGED <<files, arg, fd, got>>

\* The next piece of the open file, as it is now.
Read(c) ==
    /\ at[c] = "read"
    /\ Len(got[c]) < data[fd[c]].len
    /\ got' = [got EXCEPT ![c] = Append(@, data[fd[c]].of)]
    /\ UNCHANGED <<files, locks, at, arg, fd, ret>>

\* What YAML::Load and ParseStateNode make of the text: a part of a state may
\* be refused or may pass for a state with fewer sessions.
Parse(text) ==
    IF Len(text) = Chunks /\ \A i \in 1..Chunks : text[i] = text[1] THEN text[1] ELSE Torn

LoadReturns(c) ==
    /\ at[c] = "read"
    /\ Len(got[c]) >= data[fd[c]].len
    /\ Finish(c, Parse(got[c]))
    /\ fd' = [fd EXCEPT ![c] = NoInode]
    /\ got' = [got EXCEPT ![c] = <<>>]
    /\ UNCHANGED <<files, arg>>

LoadStep(c) == LoadParent(c) \/ Open(c) \/ OpenFails(c) \/ Read(c) \/ LoadReturns(c)

-----------------------------------------------------------------------------
(* SaveState.                                                              *)

CallSave(c) ==
    /\ at[c] = "idle"
    /\ \E v \in States : arg' = [arg EXCEPT ![c] = v]
    /\ Go(c, "saveParent")
    /\ UNCHANGED <<files, locks, fd, got, ret>>

MakeParent(c) ==
    /\ at[c] = "saveParent"
    /\ \/ parent' = TRUE /\ Go(c, "saveLock") /\ UNCHANGED <<locks, ret>>
       \/ Finish(c, Error) /\ UNCHANGED parent
    /\ UNCHANGED <<path, tmp, data, arg, fd, got>>

SaveLock(c) ==
    /\ at[c] = "saveLock"
    /\ shared \cup exclusive = {}
    /\ exclusive' = {c}
    /\ Go(c, "openTmp")
    /\ UNCHANGED <<files, shared, locals>>

Unused(i) ==
    /\ path # i
    /\ \A c \in Clients : i \notin {tmp[c], fd[c]}

\* Mutant: the state file itself is opened and truncated.
OpenInPlace(c) ==
    /\ at[c] = "openTmp"
    /\ \E i \in Inodes :
        /\ IF path = NoInode THEN Unused(i) ELSE path = i
        /\ path' = i
        /\ tmp' = [tmp EXCEPT ![c] = i]
        /\ data' = [data EXCEPT ![i] = [of |-> arg[c], len |-> 0]]
    /\ Go(c, "write")
    /\ UNCHANGED <<parent, locks, locals>>

\* The temporary file is created, or truncated when a killed process with the
\* same pid has left it.
OpenTmp(c) ==
    /\ at[c] = "openTmp"
    /\ \E i \in Inodes :
        /\ IF tmp[c] = NoInode THEN Unused(i) ELSE tmp[c] = i
        /\ tmp' = [tmp EXCEPT ![c] = i]
        /\ data' = [data EXCEPT ![i] = [of |-> arg[c], len |-> 0]]
    /\ Go(c, "write")
    /\ UNCHANGED <<parent, path, locks, locals>>

OpenTmpFails(c) ==
    /\ at[c] = "openTmp"
    /\ Finish(c, Error)
    /\ UNCHANGED <<files, arg, fd, got>>

Write(c) ==
    /\ at[c] = "write"
    /\ data[tmp[c]].len < Chunks
    /\ data' = [data EXCEPT ![tmp[c]].len = @ + 1]
    /\ UNCHANGED <<parent, path, tmp, locks, at, locals>>

\* A write or the rename fails.  The temporary file is removed, if it can be.
WriteFails(c) ==
    /\ at[c] = "write"
    /\ tmp' \in {tmp, [tmp EXCEPT ![c] = NoInode]}
    /\ Finish(c, Error)
    /\ UNCHANGED <<parent, path, data, arg, fd, got>>

\* Mutant: that a write has failed is not noticed.
RenameAnyway(c) ==
    /\ at[c] = "write"
    /\ path' = tmp[c]
    /\ tmp' = [tmp EXCEPT ![c] = NoInode]
    /\ Go(c, "renamed")
    /\ UNCHANGED <<parent, data, locks, locals>>

\* Everything has been written and flushed.
Rename(c) ==
    /\ at[c] = "write"
    /\ data[tmp[c]].len = Chunks
    /\ path' = tmp[c]
    /\ tmp' = [tmp EXCEPT ![c] = NoInode]
    /\ Go(c, "renamed")
    /\ UNCHANGED <<parent, data, locks, locals>>

SaveReturns(c) ==
    /\ at[c] = "renamed"
    /\ Finish(c, arg[c])
    /\ UNCHANGED <<files, arg, fd, got>>

SaveStep(c) ==
    \/ MakeParent(c) \/ OpenTmp(c) \/ OpenTmpFails(c) \/ Write(c)
    \/ WriteFails(c) \/ Rename(c) \/ SaveReturns(c)

-----------------------------------------------------------------------------
TakeLock(c) == LoadLock(c) \/ SaveLock(c)

Next ==
    \E c \in Clients :
        \/ CallLoad(c) \/ CallSave(c) \/ Return(c) \/ Crash(c)
        \/ LockFails(c) \/ TakeLock(c) \/ LoadStep(c) \/ SaveStep(c)

Spec == Init /\ [][Next]_storeVars

\* A process runs on, and one that waits for the lock gets it if it becomes
\* free again and again.
FairSpec ==
    /\ Spec
    /\ \A c \in Clients : WF_storeVars(LoadStep(c) \/ SaveStep(c)) /\ SF_storeVars(TakeLock(c))

-----------------------------------------------------------------------------
\* Every variable has its type; a client that writes has its temporary file,
\* and one that reads has a file open.
StoreTypeOK ==
    /\ parent \in BOOLEAN
    /\ path \in Inodes \cup {NoInode}
    /\ tmp \in [Clients -> Inodes \cup {NoInode}]
    /\ data \in [Inodes -> Content]
    /\ shared \subseteq Clients /\ exclusive \subseteq Clients
    /\ at \in [Clients -> {"idle", "done"} \cup Loads \cup Saves]
    /\ arg \in [Clients -> States]
    /\ fd \in [Clients -> Inodes \cup {NoInode}]
    /\ got \in [Clients -> Seq(States)]
    /\ ret \in [Clients -> States \cup {Error, Torn}]
    /\ \A c \in Clients :
        /\ at[c] = "write" => tmp[c] # NoInode
        /\ at[c] = "read" => fd[c] # NoInode

\* The state file is never there in part, whenever a save fails or its process
\* is killed.
NeverPartial == path # NoInode => data[path].len = Chunks

(***************************************************************************)
(* A load takes effect when it opens the state file, or cannot; a save     *)
(* when it renames its file.                                               *)
(***************************************************************************)
Recorded == IF path = NoInode THEN NoSessions ELSE data[path].of

CallAt(stage, found, saved, result) ==
    CASE stage = "idle" -> [op |-> "none"]
      [] stage \in {"loadParent", "loadLock", "open"} -> [op |-> "load"]
      [] stage = "read" -> [op |-> "return", val |-> found]
      [] stage = "renamed" -> [op |-> "return", val |-> saved]
      [] stage = "done" -> [op |-> "return", val |-> result]
      [] OTHER -> [op |-> "save", arg |-> saved]

CallOf(c) == CallAt(at[c], data[fd[c]].of, arg[c], ret[c])

Abstract ==
    INSTANCE AtomicState WITH
        state <- Recorded, call <- [c \in Clients |-> CallOf(c)]

\* Loads and saves are atomic: a load returns the state that was recorded at
\* one instant of the call, or no sessions at all when it cannot look, and
\* never a part or a mixture of states; a save takes effect at once or not at
\* all (LoadState, SaveState).
ImplementsAtomicState == Abstract!Spec

\* Every load and save comes back: no way out of one leaves the lock locked.
CallsReturn == \A c \in Clients : at[c] # "idle" ~> at[c] \in {"idle", "done"}
=============================================================================
