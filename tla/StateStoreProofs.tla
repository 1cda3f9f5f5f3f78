-------------------------- MODULE StateStoreProofs --------------------------
(***************************************************************************)
(* Theorems about StateStore, for every number of processes, states, files *)
(* and pieces: the state file is whole at all times, and loads and saves   *)
(* are atomic.  The argument nowhere mentions the lock: the rename and the *)
(* temporary name of each process's own carry it alone.                    *)
(***************************************************************************)
EXTENDS StateStore, SequenceTheorems, TLAPS

-----------------------------------------------------------------------------
(* The inductive invariant.                                                 *)

\* No file has two names, and none that is still being written is open.
NamesApart ==
    /\ \A c \in Clients : tmp[c] # NoInode => tmp[c] # path
    /\ \A c, d \in Clients : c # d /\ tmp[c] # NoInode => tmp[c] # tmp[d]
    /\ \A c, d \in Clients : tmp[c] # NoInode => tmp[c] # fd[d]

\* A reader holds a whole file, and has read nothing but pieces of it.
ReaderInv(c) ==
    at[c] = "read" =>
        /\ fd[c] \in Inodes
        /\ data[fd[c]].len = Chunks
        /\ \A i \in 1..Len(got[c]) : got[c][i] = data[fd[c]].of
        /\ Len(got[c]) <= Chunks

\* A writer's temporary file holds pieces of the state it saves.
WriterInv(c) ==
    /\ at[c] \in {"saveLock", "openTmp", "write", "renamed"} => parent
    /\ at[c] = "write" => tmp[c] \in Inodes /\ data[tmp[c]].of = arg[c]

\* A process has a file open and pieces read only while it reads.
Tidy(c) == at[c] # "read" => fd[c] = NoInode /\ got[c] = <<>>

StoreInv ==
    /\ StoreTypeOK
    /\ NeverPartial
    /\ ~parent => path = NoInode
    /\ NamesApart
    /\ \A c \in Clients : ReaderInv(c) /\ WriterInv(c) /\ Tidy(c)

LEMMA StoreInit == Init => StoreInv
<1> SUFFICES ASSUME Init PROVE StoreInv
    OBVIOUS
<1>1. StoreTypeOK
  <2>1. data \in [Inodes -> Content]
      BY StoreAssumption DEF Init, Content
  <2>2. got \in [Clients -> Seq(States)]
      BY DEF Init
  <2>3. /\ parent \in BOOLEAN /\ path \in Inodes \cup {NoInode}
        /\ tmp \in [Clients -> Inodes \cup {NoInode}]
        /\ shared \subseteq Clients /\ exclusive \subseteq Clients
      BY DEF Init
  <2>4. /\ arg \in [Clients -> States] /\ fd \in [Clients -> Inodes \cup {NoInode}]
        /\ at = [c \in Clients |-> "idle"]
        /\ ret \in [Clients -> States \cup {Error, Torn}]
      BY StoreAssumption DEF Init
  <2> QED BY <2>1, <2>2, <2>3, <2>4 DEF StoreTypeOK
<1>2. NeverPartial /\ NamesApart
    BY DEF Init, NeverPartial, NamesApart
<1>3. \A c \in Clients : ReaderInv(c) /\ WriterInv(c) /\ Tidy(c)
    BY DEF Init, ReaderInv, WriterInv, Tidy
<1> QED BY <1>1, <1>2, <1>3 DEF StoreInv, Init

\* A step of a process that leaves every file as it is, and every other process.
LEMMA QuietStep ==
    ASSUME StoreInv, NEW c \in Clients,
           UNCHANGED <<path, data>>, parent' \in {parent, TRUE}, StoreTypeOK',
           tmp' \in {tmp, [tmp EXCEPT ![c] = NoInode]},
           \A d \in Clients \ {c} :
                at'[d] = at[d] /\ arg'[d] = arg[d] /\ fd'[d] = fd[d] /\ got'[d] = got[d],
           fd'[c] \in {fd[c], path, NoInode},
           ReaderInv(c)', WriterInv(c)', Tidy(c)'
    PROVE  StoreInv'
<1> USE DEF StoreInv
<1>1. NeverPartial'
    BY DEF NeverPartial
<1>2. ~parent' => path' = NoInode
    BY DEF StoreTypeOK
<1>3. \A d \in Clients : tmp'[d] \in {tmp[d], NoInode} /\ (d # c => tmp'[d] = tmp[d])
    BY DEF StoreTypeOK
<1>4. NamesApart'
  <2>1. \A d \in Clients : tmp'[d] # NoInode => tmp'[d] # path'
      BY <1>3 DEF NamesApart
  <2>2. \A d, e \in Clients : d # e /\ tmp'[d] # NoInode => tmp'[d] # tmp'[e]
      BY <1>3 DEF NamesApart
  <2>3. \A d, e \in Clients : tmp'[d] # NoInode => tmp'[d] # fd'[e]
      BY <1>3 DEF NamesApart
  <2> QED BY <2>1, <2>2, <2>3 DEF NamesApart
<1>5. ASSUME NEW d \in Clients, d # c PROVE ReaderInv(d)' /\ WriterInv(d)' /\ Tidy(d)'
  <2>1. ReaderInv(d) /\ WriterInv(d) /\ Tidy(d)
      OBVIOUS
  <2>2. at'[d] = at[d] /\ arg'[d] = arg[d] /\ fd'[d] = fd[d] /\ got'[d] = got[d] /\ tmp'[d] = tmp[d]
      BY <1>3, <1>5
  <2> QED BY <2>1, <2>2 DEF ReaderInv, WriterInv, Tidy
<1> QED BY <1>1, <1>2, <1>4, <1>5

\* What ends a call, or a process, is quiet.
LEMMA EndStep ==
    ASSUME StoreInv, NEW c \in Clients,
           \/ Return(c) \/ Crash(c) \/ LockFails(c) \/ LoadReturns(c)
           \/ OpenTmpFails(c) \/ WriteFails(c) \/ SaveReturns(c)
    PROVE  StoreInv'
<1> USE DEF StoreInv
<1>1. /\ UNCHANGED <<parent, path, data>>
      /\ tmp' \in {tmp, [tmp EXCEPT ![c] = NoInode]}
      /\ shared' \subseteq shared /\ exclusive' \subseteq exclusive
      /\ at' \in {[at EXCEPT ![c] = "idle"], [at EXCEPT ![c] = "done"]}
    BY DEF Return, Crash, LockFails, LoadReturns, OpenTmpFails, WriteFails, SaveReturns,
           Finish, Forget, Go, Unlock, files, locks
<1>2. /\ arg' \in {arg, [arg EXCEPT ![c] = NoSessions]}
      /\ fd' \in {fd, [fd EXCEPT ![c] = NoInode]} /\ (at[c] = "read" => fd'[c] = NoInode)
      /\ got' \in {got, [got EXCEPT ![c] = <<>>]} /\ (at[c] = "read" => got'[c] = <<>>)
    BY DEF Return, Crash, LockFails, LoadReturns, OpenTmpFails, WriteFails, SaveReturns,
           Finish, Forget, files, locks, StoreTypeOK
<1>3. \E r \in States \cup {Error, Torn} : ret' = [ret EXCEPT ![c] = r]
  <2>1. CASE LoadReturns(c)
    <3>1. Parse(got[c]) \in States \cup {Torn}
      <4>1. got[c] \in Seq(States)
          BY DEF StoreTypeOK
      <4>2. CASE Len(got[c]) = Chunks
          BY <4>1, <4>2, StoreAssumption, ElementOfSeq DEF Parse
      <4> QED BY <4>2 DEF Parse
    <3> QED BY <2>1, <3>1 DEF LoadReturns, Finish
  <2>2. CASE SaveReturns(c)
      BY <2>2 DEF SaveReturns, Finish, StoreTypeOK
  <2>3. CASE ~LoadReturns(c) /\ ~SaveReturns(c)
      BY <2>3 DEF Return, Crash, LockFails, OpenTmpFails, WriteFails, Finish, Forget
  <2> QED BY <2>1, <2>2, <2>3
<1>4. Tidy(c)' /\ ReaderInv(c)' /\ WriterInv(c)'
    BY <1>1, <1>2 DEF Tidy, ReaderInv, WriterInv, StoreTypeOK
<1>5. StoreTypeOK'
  <2>1. /\ tmp' \in [Clients -> Inodes \cup {NoInode}]
        /\ at' \in [Clients -> {"idle", "done"} \cup Loads \cup Saves]
      BY <1>1 DEF StoreTypeOK
  <2>2. /\ arg' \in [Clients -> States] /\ fd' \in [Clients -> Inodes \cup {NoInode}]
        /\ got' \in [Clients -> Seq(States)]
    <3>1. arg' \in [Clients -> States]
        BY <1>2, StoreAssumption DEF StoreTypeOK
    <3>2. fd' \in [Clients -> Inodes \cup {NoInode}]
        BY <1>2 DEF StoreTypeOK
    <3>3. got' \in [Clients -> Seq(States)]
      <4>1. <<>> \in Seq(States)
          OBVIOUS
      <4> QED BY <1>2, <4>1 DEF StoreTypeOK
    <3> QED BY <3>1, <3>2, <3>3
  <2>3. ret' \in [Clients -> States \cup {Error, Torn}]
      BY <1>3 DEF StoreTypeOK
  <2>4. \A d \in Clients : /\ at'[d] = "write" => tmp'[d] # NoInode
                           /\ at'[d] = "read" => fd'[d] # NoInode
      BY <1>1, <1>2 DEF StoreTypeOK
  <2> QED BY <1>1, <2>1, <2>2, <2>3, <2>4 DEF StoreTypeOK
<1>6. /\ fd'[c] \in {fd[c], path, NoInode}
      /\ \A d \in Clients \ {c} :
            at'[d] = at[d] /\ arg'[d] = arg[d] /\ fd'[d] = fd[d] /\ got'[d] = got[d]
    BY <1>1, <1>2 DEF StoreTypeOK
<1> QED BY <1>1, <1>4, <1>5, <1>6, QuietStep

LEMMA BeginStep ==
    ASSUME StoreInv, NEW c \in Clients,
           \/ CallLoad(c) \/ CallSave(c) \/ LoadParent(c) \/ LoadLock(c) \/ SaveLock(c)
           \/ MakeParent(c)
    PROVE  StoreInv'
<1> USE DEF StoreInv
<1>1. /\ UNCHANGED <<path, tmp, data, fd, got>> /\ parent' \in {parent, TRUE}
      /\ shared' \subseteq Clients /\ exclusive' \subseteq Clients
    BY DEF CallLoad, CallSave, LoadParent, LoadLock, SaveLock, MakeParent, Finish, Unlock,
           files, locks, locals, StoreTypeOK
<1>2. PICK stage \in {"loadParent", "loadLock", "open", "saveParent", "saveLock", "openTmp", "done"} :
        /\ at' = [at EXCEPT ![c] = stage]
        /\ stage \in {"saveLock", "openTmp"} => parent'
    BY DEF CallLoad, CallSave, LoadParent, LoadLock, SaveLock, MakeParent, Finish, Go, WriterInv,
           files
<1>3. /\ \E v \in States : arg' \in {arg, [arg EXCEPT ![c] = v]}
      /\ \E r \in States \cup {Error} : ret' \in {ret, [ret EXCEPT ![c] = r]}
    BY StoreAssumption
    DEF CallLoad, CallSave, LoadParent, LoadLock, SaveLock, MakeParent, Finish, locals
<1>4. at[c] # "read"
    BY DEF CallLoad, CallSave, LoadParent, LoadLock, SaveLock, MakeParent
<1>5. Tidy(c)' /\ ReaderInv(c)' /\ WriterInv(c)'
    BY <1>1, <1>2, <1>4 DEF Tidy, ReaderInv, WriterInv, StoreTypeOK
<1>6. StoreTypeOK'
    BY <1>1, <1>2, <1>3 DEF StoreTypeOK, Loads, Saves
<1>7. \A d \in Clients \ {c} :
            at'[d] = at[d] /\ arg'[d] = arg[d] /\ fd'[d] = fd[d] /\ got'[d] = got[d]
    BY <1>1, <1>2, <1>3 DEF StoreTypeOK
<1> QED BY <1>1, <1>5, <1>6, <1>7, QuietStep

\* Opening the file and reading on in it.
LEMMA ReadStep ==
    ASSUME StoreInv, NEW c \in Clients, Open(c) \/ OpenFails(c) \/ Read(c) PROVE StoreInv'
<1> USE DEF StoreInv
<1>1. UNCHANGED <<files, arg>>
    BY DEF Open, OpenFails, Read
<1>2. CASE OpenFails(c)
  <2>1. /\ at' = [at EXCEPT ![c] = "done"] /\ ret' = [ret EXCEPT ![c] = NoSessions]
        /\ UNCHANGED <<fd, got>> /\ at[c] # "read"
        /\ shared' \subseteq shared /\ exclusive' \subseteq exclusive
      BY <1>2 DEF OpenFails, Finish, Go, Unlock
  <2>2. Tidy(c)' /\ ReaderInv(c)' /\ WriterInv(c)' /\ StoreTypeOK'
      BY <1>1, <2>1, StoreAssumption DEF Tidy, ReaderInv, WriterInv, StoreTypeOK, files
  <2> QED BY <1>1, <2>1, <2>2, QuietStep DEF StoreTypeOK, files
<1>3. CASE Open(c)
  <2>1. /\ at' = [at EXCEPT ![c] = "read"] /\ fd' = [fd EXCEPT ![c] = path]
        /\ UNCHANGED <<got, ret, shared, exclusive>> /\ at[c] # "read"
      BY <1>3 DEF Open, Go, locks
  <2>2. path \in Inodes /\ data[path].len = Chunks
      BY <1>3 DEF Open, StoreTypeOK, NeverPartial
  <2>3. StoreTypeOK'
      BY <1>1, <2>1, <2>2, StoreAssumption DEF StoreTypeOK, files, Loads
  <2>4. got'[c] = <<>> /\ fd'[c] = path /\ at'[c] = "read"
      BY <2>1 DEF Tidy, StoreTypeOK
  <2>5. Tidy(c)' /\ ReaderInv(c)' /\ WriterInv(c)'
      BY <1>1, <2>2, <2>4, StoreAssumption DEF Tidy, ReaderInv, WriterInv, files
  <2> QED BY <1>1, <2>1, <2>3, <2>4, <2>5, QuietStep DEF StoreTypeOK, files
<1>4. CASE Read(c)
  <2> DEFINE v == data[fd[c]].of
  <2>1. /\ at[c] = "read" /\ Len(got[c]) < Chunks
        /\ got' = [got EXCEPT ![c] = Append(got[c], v)]
        /\ UNCHANGED <<at, fd, ret, shared, exclusive>>
      BY <1>4 DEF Read, ReaderInv, locks
  <2>2. /\ v \in States /\ got[c] \in Seq(States) /\ fd[c] \in Inodes
        /\ \A i \in 1..Len(got[c]) : got[c][i] = v
      BY <2>1 DEF ReaderInv, StoreTypeOK, Content
  <2> HIDE DEF v
  <2>3. /\ got'[c] \in Seq(States) /\ Len(got'[c]) = Len(got[c]) + 1 /\ Len(got[c]) \in Nat
        /\ \A i \in 1..Len(got'[c]) : got'[c][i] = v
    <3>1. got'[c] = Append(got[c], v)
        BY <2>1 DEF StoreTypeOK
    <3> QED BY <2>2, <3>1
  <2>4. StoreTypeOK'
      BY <1>1, <2>1, <2>3 DEF StoreTypeOK, files
  <2>5. Tidy(c)' /\ ReaderInv(c)' /\ WriterInv(c)'
    <3>1. v = data[fd[c]].of
        BY DEF v
    <3>2. Len(got'[c]) <= Chunks
        BY <2>1, <2>3, StoreAssumption
    <3> QED BY <1>1, <2>1, <2>3, <3>1, <3>2 DEF Tidy, ReaderInv, WriterInv, files
  <2> QED BY <1>1, <2>1, <2>4, <2>5, QuietStep DEF StoreTypeOK, files
<1> QED BY <1>2, <1>3, <1>4

\* Writing to the temporary file concerns no reader and no other writer.
LEMMA WriteStep ==
    ASSUME StoreInv, NEW c \in Clients, OpenTmp(c) \/ Write(c) PROVE StoreInv'
<1> USE DEF StoreInv
<1>1. PICK i \in Inodes, content \in Content :
        /\ content.of = arg[c]
        /\ data' = [data EXCEPT ![i] = content]
        /\ tmp' = [tmp EXCEPT ![c] = i]
        /\ i = tmp[c] \/ Unused(i)
  <2>1. CASE OpenTmp(c)
    <3>1. [of |-> arg[c], len |-> 0] \in Content
        BY StoreAssumption DEF StoreTypeOK, Content
    <3> QED BY <2>1, <3>1 DEF OpenTmp
  <2>2. CASE Write(c)
    <3> DEFINE i == tmp[c]
               content == [data[i] EXCEPT !.len = @ + 1]
    <3>1. i \in Inodes /\ data[i] \in Content /\ data[i].of = arg[c] /\ data[i].len < Chunks
        BY <2>2 DEF Write, WriterInv, StoreTypeOK
    <3>2. content \in Content /\ content.of = arg[c]
        BY <3>1, StoreAssumption DEF Content
    <3>3. data' = [data EXCEPT ![i] = content] /\ tmp' = [tmp EXCEPT ![c] = i]
        BY <2>2, <3>1 DEF Write, StoreTypeOK
    <3> HIDE DEF i, content
    <3>4. i = tmp[c]
        BY DEF i
    <3> QED BY <3>1, <3>2, <3>3, <3>4
  <2> QED BY <2>1, <2>2
<1>2. /\ UNCHANGED <<parent, path, shared, exclusive, arg, fd, got, ret>>
      /\ at' = [at EXCEPT ![c] = "write"] /\ at[c] \in {"openTmp", "write"}
    BY DEF OpenTmp, Write, Go, locks, locals, StoreTypeOK
<1>3. /\ i # path /\ \A d \in Clients : i # fd[d]
      /\ \A d \in Clients \ {c} : i # tmp[d]
    BY <1>1, StoreAssumption DEF Unused, NamesApart
<1>4. StoreTypeOK'
  <2>1. data' \in [Inodes -> Content] /\ tmp' \in [Clients -> Inodes \cup {NoInode}]
      BY <1>1 DEF StoreTypeOK
  <2>2. \A d \in Clients : /\ at'[d] = "write" => tmp'[d] # NoInode
                           /\ at'[d] = "read" => fd'[d] # NoInode
      BY <1>1, <1>2, StoreAssumption DEF StoreTypeOK
  <2> QED BY <1>2, <2>1, <2>2 DEF StoreTypeOK, Saves
<1>5. NeverPartial'
    BY <1>1, <1>2, <1>3 DEF NeverPartial, StoreTypeOK
<1>6. NamesApart'
    BY <1>1, <1>2, <1>3 DEF NamesApart, StoreTypeOK
<1>7. ASSUME NEW d \in Clients PROVE ReaderInv(d)' /\ WriterInv(d)' /\ Tidy(d)'
  <2>1. CASE d = c
    <3>1. data'[i] = content /\ tmp'[c] = i /\ at'[c] = "write"
        BY <1>1, <1>2 DEF StoreTypeOK
    <3>2. parent
        BY <1>2 DEF WriterInv
    <3> QED BY <1>1, <1>2, <2>1, <3>1, <3>2 DEF ReaderInv, WriterInv, Tidy
  <2>2. CASE d # c
    <3>1. /\ tmp'[d] = tmp[d] /\ at'[d] = at[d]
          /\ tmp[d] \in Inodes => data'[tmp[d]] = data[tmp[d]]
          /\ fd[d] \in Inodes => data'[fd[d]] = data[fd[d]]
        BY <1>1, <1>2, <1>3, <2>2 DEF StoreTypeOK
    <3> QED BY <1>2, <3>1 DEF ReaderInv, WriterInv, Tidy
  <2> QED BY <2>1, <2>2
<1> QED BY <1>2, <1>4, <1>5, <1>6, <1>7

LEMMA RenameStep ==
    ASSUME StoreInv, NEW c \in Clients, Rename(c) PROVE StoreInv'
<1> USE DEF StoreInv
<1>1. /\ at[c] = "write" /\ data[tmp[c]].len = Chunks
      /\ path' = tmp[c] /\ tmp' = [tmp EXCEPT ![c] = NoInode]
      /\ at' = [at EXCEPT ![c] = "renamed"]
      /\ UNCHANGED <<parent, data, shared, exclusive, arg, fd, got, ret>>
    BY DEF Rename, Go, locks, locals
<1>2. tmp[c] \in Inodes /\ parent
    BY <1>1 DEF WriterInv
<1>3. StoreTypeOK'
    BY <1>1, <1>2 DEF StoreTypeOK, Saves
<1>4. NeverPartial'
    BY <1>1 DEF NeverPartial
<1>5. NamesApart'
    BY <1>1, <1>2, StoreAssumption DEF NamesApart, StoreTypeOK
<1>6. ASSUME NEW d \in Clients PROVE ReaderInv(d)' /\ WriterInv(d)' /\ Tidy(d)'
  <2>1. d # c => tmp'[d] = tmp[d] /\ at'[d] = at[d]
      BY <1>1
  <2>2. at'[c] = "renamed"
      BY <1>1 DEF StoreTypeOK
  <2> QED BY <1>1, <1>2, <2>1, <2>2 DEF ReaderInv, WriterInv, Tidy
<1> QED BY <1>1, <1>2, <1>3, <1>4, <1>5, <1>6

LEMMA StoreNext == StoreInv /\ [Next]_storeVars => StoreInv'
<1> SUFFICES ASSUME StoreInv, [Next]_storeVars PROVE StoreInv'
    OBVIOUS
<1>1. ASSUME NEW c \in Clients,
             \/ CallLoad(c) \/ CallSave(c) \/ Return(c) \/ Crash(c)
             \/ LockFails(c) \/ TakeLock(c) \/ LoadStep(c) \/ SaveStep(c)
      PROVE  StoreInv'
    BY <1>1, EndStep, BeginStep, ReadStep, WriteStep, RenameStep
    DEF TakeLock, LoadStep, SaveStep
<1>2. CASE UNCHANGED storeVars
    BY <1>2
    DEF storeVars, StoreInv, StoreTypeOK, NeverPartial, NamesApart, ReaderInv, WriterInv, Tidy
<1> QED BY <1>1, <1>2 DEF Next

\* Every reachable state is well typed, and a client that reads or writes has
\* the file it reads or writes (LoadState, SaveState).
THEOREM TypeCorrect == Spec => []StoreTypeOK
<1>1. StoreInv => StoreTypeOK
    BY DEF StoreInv
<1> QED BY <1>1, StoreInit, StoreNext, PTL DEF Spec

\* Whatever fails, and whenever a process is killed, the state file is whole.
THEOREM WholeFile == Spec => []NeverPartial
<1>1. StoreInv => NeverPartial
    BY DEF StoreInv
<1> QED BY <1>1, StoreInit, StoreNext, PTL DEF Spec

-----------------------------------------------------------------------------
(* Loads and saves are atomic.                                              *)

\* What the stages of a call are to a caller.
LEMMA CallAtStage ==
    ASSUME NEW found, NEW saved, NEW result
    PROVE  /\ CallAt("idle", found, saved, result) = [op |-> "none"]
           /\ \A stage \in {"loadParent", "loadLock", "open"} :
                CallAt(stage, found, saved, result) = [op |-> "load"]
           /\ CallAt("read", found, saved, result) = [op |-> "return", val |-> found]
           /\ CallAt("renamed", found, saved, result) = [op |-> "return", val |-> saved]
           /\ CallAt("done", found, saved, result) = [op |-> "return", val |-> result]
           /\ \A stage \in {"saveParent", "saveLock", "openTmp", "write"} :
                CallAt(stage, found, saved, result) = [op |-> "save", arg |-> saved]
BY DEF CallAt

\* The files that other processes have open stay as they are.
LEMMA OthersCalls ==
    ASSUME StoreInv, NEW c \in Clients, NEW d \in Clients \ {c},
           \/ CallLoad(c) \/ CallSave(c) \/ Return(c) \/ Crash(c)
           \/ LockFails(c) \/ TakeLock(c) \/ LoadStep(c) \/ SaveStep(c)
    PROVE  CallOf(d)' = CallOf(d)
<1> USE DEF StoreInv
<1>1. at'[d] = at[d] /\ fd'[d] = fd[d] /\ arg'[d] = arg[d] /\ ret'[d] = ret[d]
  <2>1. CASE CallLoad(c) \/ CallSave(c) \/ Return(c) \/ Crash(c) \/ LockFails(c) \/ TakeLock(c)
      BY <2>1
      DEF CallLoad, CallSave, Return, Crash, LockFails, TakeLock, LoadLock, SaveLock,
          Go, Finish, Forget, locals, StoreTypeOK
  <2>2. CASE LoadStep(c)
      BY <2>2 DEF LoadStep, LoadParent, Open, OpenFails, Read, LoadReturns, Go, Finish, StoreTypeOK
  <2>3. CASE SaveStep(c)
      BY <2>3
      DEF SaveStep, MakeParent, OpenTmp, OpenTmpFails, Write, WriteFails, Rename,
          SaveReturns, Go, Finish, locals, StoreTypeOK
  <2> QED BY <2>1, <2>2, <2>3
<1>2. CASE at[d] = "read"
  <2>1. fd[d] \in Inodes /\ \A e \in Clients : tmp[e] # NoInode => tmp[e] # fd[d]
      BY <1>2 DEF ReaderInv, NamesApart
  <2>2. data'[fd[d]] = data[fd[d]]
    <3>1. CASE OpenTmp(c)
      <4>1. PICK i, content :
                i \in Inodes /\ i # fd[d] /\ data' = [data EXCEPT ![i] = content]
          BY <2>1, <3>1, StoreAssumption DEF OpenTmp, Unused
      <4> QED BY <2>1, <4>1 DEF StoreTypeOK
    <3>2. CASE Write(c)
      <4>1. tmp[c] # fd[d]
          BY <2>1, <3>2, StoreAssumption DEF Write, WriterInv
      <4> QED BY <2>1, <3>2, <4>1 DEF Write, StoreTypeOK
    <3>3. CASE ~OpenTmp(c) /\ ~Write(c)
        BY <3>3
        DEF CallLoad, CallSave, Return, Crash, LockFails, TakeLock, LoadLock, SaveLock,
            LoadStep, LoadParent, Open, OpenFails, Read, LoadReturns, SaveStep, MakeParent,
            OpenTmpFails, WriteFails, Rename, SaveReturns, files
    <3> QED BY <3>1, <3>2, <3>3
  <2> QED BY <1>1, <2>2 DEF CallOf
<1>3. CASE at[d] # "read"
    BY <1>1, <1>3 DEF CallOf, CallAt
<1> QED BY <1>2, <1>3

\* Each step is a step of the promise, or none.
LEMMA StepImplements ==
    ASSUME StoreInv, NEW c \in Clients,
           \/ CallLoad(c) \/ CallSave(c) \/ Return(c) \/ Crash(c)
           \/ LockFails(c) \/ TakeLock(c) \/ LoadStep(c) \/ SaveStep(c)
    PROVE  Abstract!Next \/ UNCHANGED Abstract!abstractVars
<1> USE DEF StoreInv
<1> DEFINE call == [d \in Clients |-> CallOf(d)]
<1>1. at \in [Clients -> {"idle", "done"} \cup Loads \cup Saves] /\ arg \in [Clients -> States]
      /\ fd \in [Clients -> Inodes \cup {NoInode}] /\ ret \in [Clients -> States \cup {Error, Torn}]
    BY DEF StoreTypeOK
<1>2. ASSUME NEW to, CallOf(c)' = to PROVE call' = [call EXCEPT ![c] = to]
    BY <1>2, OthersCalls
<1>3. ASSUME CallOf(c)' = CallOf(c) PROVE call' = call
    BY <1>3, OthersCalls
<1>4. call[c] = CallOf(c)
    OBVIOUS
<1> HIDE DEF call
<1>5. ASSUME UNCHANGED <<path, data>>, CallOf(c)' = CallOf(c)
      PROVE  UNCHANGED Abstract!abstractVars
    BY <1>3, <1>5 DEF Abstract!abstractVars, Recorded, call
<1>6. ASSUME UNCHANGED <<path, data>>,
             CallOf(c) = [op |-> "load"] \/ \E v : CallOf(c) = [op |-> "save", arg |-> v],
             CallOf(c)' = [op |-> "return", val |-> Error]
      PROVE  Abstract!Next
  <2>1. Recorded' = Recorded /\ call' = [call EXCEPT ![c] = [op |-> "return", val |-> Error]]
      BY <1>2, <1>6 DEF Recorded
  <2>2. call[c].op \in {"load", "save"}
      BY <1>4, <1>6
  <2>3. Abstract!Fail(c)
      BY <2>1, <2>2 DEF Abstract!Fail, Abstract!Set, Abstract!Returns, call
  <2> QED BY <2>3 DEF Abstract!Next
<1>7. ASSUME UNCHANGED <<path, data>>, CallOf(c) = [op |-> "load"],
             CallOf(c)' = [op |-> "return", val |-> Recorded]
      PROVE  Abstract!Next
  <2>1. Recorded' = Recorded /\ call' = [call EXCEPT ![c] = [op |-> "return", val |-> Recorded]]
      BY <1>2, <1>7 DEF Recorded
  <2>2. Abstract!Load(c)
      BY <1>4, <1>7, <2>1 DEF Abstract!Load, Abstract!Loading, Abstract!Set, Abstract!Returns, call
  <2> QED BY <2>2 DEF Abstract!Next
<1>8. ASSUME UNCHANGED <<path, data>>, CallOf(c) = [op |-> "load"],
              CallOf(c)' = [op |-> "return", val |-> NoSessions]
       PROVE  Abstract!Next
  <2>1. Recorded' = Recorded /\ call' = [call EXCEPT ![c] = [op |-> "return", val |-> NoSessions]]
      BY <1>2, <1>8 DEF Recorded
  <2>2. Abstract!LoadNothing(c)
      BY <1>4, <1>8, <2>1
      DEF Abstract!LoadNothing, Abstract!Loading, Abstract!Set, Abstract!Returns, call
  <2> QED BY <2>2 DEF Abstract!Next
<1>9. CASE CallLoad(c) \/ CallSave(c)
  <2>1. at[c] = "idle" /\ UNCHANGED <<path, data>>
      BY <1>9 DEF CallLoad, CallSave, files
  <2>2. CallOf(c) = [op |-> "none"]
      BY <2>1, CallAtStage DEF CallOf
  <2>3. CASE CallLoad(c)
    <3>1. at'[c] = "loadParent"
        BY <1>1, <2>3 DEF CallLoad, Go
    <3>2. CallOf(c)' = [op |-> "load"]
        BY <3>1, CallAtStage DEF CallOf
    <3>3. Abstract!CallLoad(c)
      <4>1. call' = [call EXCEPT ![c] = [op |-> "load"]] /\ Recorded' = Recorded
          BY <1>2, <2>1, <3>2 DEF Recorded
      <4> QED
          BY <1>4, <2>2, <4>1
          DEF Abstract!CallLoad, Abstract!Idle, Abstract!Loading, Abstract!Set, call
    <3> QED BY <3>3 DEF Abstract!Next
  <2>4. CASE CallSave(c)
    <3>1. PICK v \in States : at'[c] = "saveParent" /\ arg'[c] = v
        BY <1>1, <2>4 DEF CallSave, Go
    <3>2. CallOf(c)' = [op |-> "save", arg |-> v]
        BY <3>1, CallAtStage DEF CallOf
    <3>3. Abstract!CallSave(c)
      <4>1. call' = [call EXCEPT ![c] = [op |-> "save", arg |-> v]] /\ Recorded' = Recorded
          BY <1>2, <2>1, <3>2 DEF Recorded
      <4> QED
          BY <1>4, <2>2, <4>1
          DEF Abstract!CallSave, Abstract!Idle, Abstract!Saving, Abstract!Set, call
    <3> QED BY <3>3 DEF Abstract!Next
  <2> QED BY <1>9, <2>3, <2>4
<1>10. CASE Return(c) \/ Crash(c)
  <2>1. at'[c] = "idle" /\ at[c] # "idle" /\ UNCHANGED <<path, data>>
      BY <1>1, <1>10 DEF Return, Crash, Forget, Go, Loads, Saves, files
  <2>2. CallOf(c)' = [op |-> "none"]
      BY <2>1, CallAtStage DEF CallOf
  <2>3. CallOf(c).op # "none"
    <3>1. at[c] \in {"done", "loadParent", "loadLock", "open", "read", "saveParent",
                     "saveLock", "openTmp", "write", "renamed"}
        BY <1>1, <2>1 DEF Loads, Saves
    <3> QED BY <3>1 DEF CallOf, CallAt
  <2>4. Abstract!Return(c)
    <3>1. call' = [call EXCEPT ![c] = [op |-> "none"]] /\ Recorded' = Recorded
        BY <1>2, <2>1, <2>2 DEF Recorded
    <3>2. call[c] # [op |-> "none"]
        BY <1>4, <2>3
    <3> QED BY <3>1, <3>2 DEF Abstract!Return, Abstract!Idle, Abstract!Set, call
  <2> QED BY <2>4 DEF Abstract!Next
<1>11. CASE LockFails(c) \/ OpenTmpFails(c) \/ WriteFails(c)
  <2>1. /\ at[c] \in {"loadLock", "saveLock", "openTmp", "write"}
        /\ at'[c] = "done" /\ ret'[c] = Error /\ UNCHANGED <<path, data>>
      BY <1>1, <1>11 DEF LockFails, OpenTmpFails, WriteFails, Finish, Go, files
  <2>2. CallOf(c)' = [op |-> "return", val |-> Error]
      BY <2>1, CallAtStage DEF CallOf
  <2>3. CallOf(c) = [op |-> "load"] \/ CallOf(c) = [op |-> "save", arg |-> arg[c]]
      BY <2>1, CallAtStage DEF CallOf
  <2> QED BY <1>6, <2>1, <2>2, <2>3
<1>12. CASE TakeLock(c)
  <2>1. /\ UNCHANGED <<path, data, arg>>
        /\ \/ at[c] = "loadLock" /\ at'[c] = "open"
           \/ at[c] = "saveLock" /\ at'[c] = "openTmp"
      BY <1>1, <1>12 DEF TakeLock, LoadLock, SaveLock, Go, files, locals
  <2>2. CallOf(c)' = CallOf(c)
      BY <2>1, CallAtStage DEF CallOf
  <2> QED BY <1>5, <2>1, <2>2
<1>13. CASE LoadParent(c)
  <2>1. at[c] = "loadParent" /\ UNCHANGED <<path, data>>
      BY <1>13 DEF LoadParent, files
  <2>2. CallOf(c) = [op |-> "load"]
      BY <2>1, CallAtStage DEF CallOf
  <2>3. CASE at'[c] = "loadLock"
    <3>1. CallOf(c)' = [op |-> "load"]
        BY <2>3, CallAtStage DEF CallOf
    <3> QED BY <1>5, <2>1, <2>2, <3>1
  <2>4. CASE at'[c] = "done" /\ ret'[c] = NoSessions
    <3>1. CallOf(c)' = [op |-> "return", val |-> NoSessions]
        BY <2>4, CallAtStage DEF CallOf
    <3> QED BY <1>8, <2>1, <2>2, <3>1
  <2> QED BY <1>1, <1>13, <2>3, <2>4 DEF LoadParent, Finish, Go
<1>14. CASE Open(c)
  <2>1. /\ at[c] = "open" /\ at'[c] = "read" /\ fd'[c] = path /\ path # NoInode
        /\ UNCHANGED <<path, data>>
      BY <1>1, <1>14 DEF Open, Go, files
  <2>2. CallOf(c) = [op |-> "load"]
      BY <2>1, CallAtStage DEF CallOf
  <2>3. CallOf(c)' = [op |-> "return", val |-> Recorded]
      BY <2>1, CallAtStage DEF CallOf, Recorded
  <2> QED BY <1>7, <2>1, <2>2, <2>3
<1>15. CASE OpenFails(c)
  <2>1. /\ at[c] = "open" /\ at'[c] = "done" /\ ret'[c] = NoSessions
        /\ UNCHANGED <<path, data>>
      BY <1>1, <1>15 DEF OpenFails, Finish, Go, files
  <2>2. /\ CallOf(c) = [op |-> "load"]
        /\ CallOf(c)' = [op |-> "return", val |-> NoSessions]
      BY <2>1, CallAtStage DEF CallOf
  <2> QED BY <1>8, <2>1, <2>2
<1>16. CASE Read(c)
  <2>1. UNCHANGED <<path, data, at, fd, arg, ret>>
      BY <1>16 DEF Read, files
  <2> QED BY <1>5, <2>1 DEF CallOf
<1>17. CASE LoadReturns(c)
  <2> DEFINE v == data[fd[c]].of
  <2>1. /\ at[c] = "read" /\ at'[c] = "done" /\ ret'[c] = Parse(got[c])
        /\ UNCHANGED <<path, data>> /\ Len(got[c]) >= data[fd[c]].len
      BY <1>1, <1>17 DEF LoadReturns, Finish, Go, files
  <2>2. Parse(got[c]) = v
    <3>1. /\ Len(got[c]) = Chunks /\ \A i \in 1..Chunks : got[c][i] = v
      <4>1. Len(got[c]) \in Nat
          BY LenProperties DEF StoreTypeOK
      <4> QED BY <2>1, <4>1, StoreAssumption DEF ReaderInv
    <3>2. 1 \in 1..Chunks
        BY StoreAssumption
    <3> QED BY <3>1, <3>2 DEF Parse
  <2>3. CallOf(c) = [op |-> "return", val |-> v]
      BY <2>1, CallAtStage DEF CallOf
  <2>4. CallOf(c)' = [op |-> "return", val |-> v]
    <3>1. ret'[c] = v
        BY <2>1, <2>2
    <3> HIDE DEF v
    <3> QED BY <2>1, <3>1, CallAtStage DEF CallOf
  <2> QED BY <1>5, <2>1, <2>3, <2>4
<1>18. CASE MakeParent(c)
  <2>1. at[c] = "saveParent" /\ UNCHANGED <<path, data, arg>>
      BY <1>18 DEF MakeParent
  <2>2. CallOf(c) = [op |-> "save", arg |-> arg[c]]
      BY <2>1, CallAtStage DEF CallOf
  <2>3. CASE at'[c] = "saveLock"
    <3>1. CallOf(c)' = [op |-> "save", arg |-> arg[c]]
        BY <2>1, <2>3, CallAtStage DEF CallOf
    <3> QED BY <1>5, <2>1, <2>2, <3>1
  <2>4. CASE at'[c] = "done" /\ ret'[c] = Error
    <3>1. CallOf(c)' = [op |-> "return", val |-> Error]
        BY <2>4, CallAtStage DEF CallOf
    <3> QED BY <1>6, <2>1, <2>2, <3>1
  <2> QED BY <1>1, <1>18, <2>3, <2>4 DEF MakeParent, Finish, Go
<1>19. CASE OpenTmp(c) \/ Write(c)
  <2>1. /\ at[c] \in {"openTmp", "write"} /\ at'[c] = "write"
        /\ UNCHANGED <<path, arg>>
      BY <1>1, <1>19 DEF OpenTmp, Write, Go, locals
  <2>2. CallOf(c)' = CallOf(c)
      BY <2>1, CallAtStage DEF CallOf
  <2>3. Recorded' = Recorded
    <3>1. PICK i, content : data' = [data EXCEPT ![i] = content] /\ (path # NoInode => i # path)
      <4>1. CASE OpenTmp(c)
        <5>1. PICK i \in Inodes :
                /\ IF tmp[c] = NoInode THEN Unused(i) ELSE tmp[c] = i
                /\ data' = [data EXCEPT ![i] = [of |-> arg[c], len |-> 0]]
            BY <4>1 DEF OpenTmp
        <5>2. i # path
            BY <5>1 DEF Unused, NamesApart
        <5> QED BY <5>1, <5>2
      <4>2. CASE Write(c)
        <5>1. tmp[c] # path
            BY <4>2, StoreAssumption DEF Write, WriterInv, NamesApart
        <5> DEFINE content == [data[tmp[c]] EXCEPT !.len = @ + 1]
        <5>2. data' = [data EXCEPT ![tmp[c]] = content]
            BY <4>2 DEF Write
        <5> HIDE DEF content
        <5> QED BY <5>1, <5>2
      <4> QED BY <1>19, <4>1, <4>2
    <3> QED BY <2>1, <3>1 DEF Recorded, StoreTypeOK
  <2>4. call' = call
      BY <1>3, <2>2
  <2> QED BY <2>3, <2>4 DEF Abstract!abstractVars, call
<1>20. CASE Rename(c)
  <2>1. /\ at[c] = "write" /\ at'[c] = "renamed" /\ path' = tmp[c]
        /\ UNCHANGED <<data, arg>>
      BY <1>1, <1>20 DEF Rename, Go, locals
  <2>2. /\ CallOf(c) = [op |-> "save", arg |-> arg[c]]
        /\ CallOf(c)' = [op |-> "return", val |-> arg[c]]
      BY <2>1, CallAtStage DEF CallOf
  <2>3. Recorded' = arg[c] /\ arg[c] \in States
      BY <1>1, <2>1, StoreAssumption DEF Recorded, WriterInv
  <2>4. call' = [call EXCEPT ![c] = [op |-> "return", val |-> arg[c]]]
      BY <1>2, <2>2
  <2>5. Abstract!Save(c)
      BY <1>4, <2>2, <2>3, <2>4
      DEF Abstract!Save, Abstract!Saving, Abstract!Returns, Abstract!Set, call
  <2> QED BY <2>5 DEF Abstract!Next
<1>21. CASE SaveReturns(c)
  <2>1. /\ at[c] = "renamed" /\ at'[c] = "done" /\ ret'[c] = arg[c] /\ UNCHANGED <<path, data>>
      BY <1>1, <1>21 DEF SaveReturns, Finish, Go, files
  <2>2. CallOf(c)' = CallOf(c)
      BY <2>1, CallAtStage DEF CallOf
  <2> QED BY <1>5, <2>1, <2>2
<1> QED
    BY <1>9, <1>10, <1>11, <1>12, <1>13, <1>14, <1>15,
       <1>16, <1>17, <1>18, <1>19, <1>20, <1>21
    DEF LoadStep, SaveStep

\* Loads and saves are atomic, with any number of processes, however they are
\* killed and whatever system call but a read fails: LoadState and SaveState
\* implement the promise that the commands are written on.  A load gives the
\* state recorded at one instant, no sessions when it cannot look, or an error.
THEOREM Implements == Spec => ImplementsAtomicState
<1>1. Init => Abstract!Init
    BY CallAtStage DEF Init, Abstract!Init, Abstract!Idle, Recorded, CallOf
<1>2. StoreInv /\ [Next]_storeVars => [Abstract!Next]_(Abstract!abstractVars)
  <2> SUFFICES ASSUME StoreInv, [Next]_storeVars
               PROVE  Abstract!Next \/ UNCHANGED Abstract!abstractVars
      OBVIOUS
  <2>1. CASE UNCHANGED storeVars
      BY <2>1 DEF storeVars, Abstract!abstractVars, Recorded, CallOf
  <2> QED BY <2>1, StepImplements DEF Next
<1> QED
    BY <1>1, <1>2, StoreInit, StoreNext, PTL
    DEF Spec, ImplementsAtomicState, Abstract!Spec
=============================================================================
