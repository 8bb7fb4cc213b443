--------------------------- MODULE FileStoreProofs ---------------------------
(***************************************************************************)
(* What holds of the files for any set of operations and any faults.       *)
(*                                                                         *)
(* The inductive invariant adds to the types that an inode has one name at *)
(* most, that an operation has not made one before it opens its file, and  *)
(* that it has a file open exactly while it saves.  On it rests a second   *)
(* one: operations on a file that is not exposed keep apart.  What is      *)
(* whole, what the settings are and the refinement of AtomicStore follow   *)
(* from that.                                                              *)
(***************************************************************************)
EXTENDS FileStore, TLAPS

Stages == {"idle", "begun", "loaded", "saving", "saved", "cleared", "ok", "failed", "crashed"}

\* An operation that has not opened its file has not made an inode.
Unmade ==
  \A o \in Ops : pc[o] \in {"idle", "begun", "loaded", "cleared"} => \A n \in Names : dir[n] # o

Asked ==
  \A o \in Ops : /\ pc[o] # "idle" <=> request[o] # None
                 /\ pc[o] = "cleared" => request[o].kind = "move"

IInv == TypeOK /\ Unmade /\ Asked /\ Exists(Config)

USE DEF Stages

-----------------------------------------------------------------------------
\* A file keeps one name, and two files never share it.
LEMMA NameOf ==
  /\ \A f \in Files : F(f) \in Names
  /\ \A f, g \in Files : F(f) = F(g) => f = g
BY DEF F, Names

\* What an operation that has begun works on, and where it saves.
LEMMA Working ==
  ASSUME IInv, NEW o \in Ops, pc[o] # "idle"
  PROVE  /\ request[o] \in Request /\ request[o] \in Requests
         /\ File(o) \in Files /\ SaveName(o) \in Names
         /\ Kind(o) = "settings" <=> File(o) = Config
         /\ Kind(o) # "settings" => SaveName(o) # F(Config)
         /\ Kind(o) = "move" => request[o].other \in Documents
<1>1. request[o] \in Request /\ request[o] \in Requests
  BY RequestsAssumption DEF IInv, TypeOK, Asked
<1>2. File(o) \in Files /\ (Kind(o) = "settings" <=> File(o) = Config)
  BY <1>1, RequestsAssumption DEF File, Kind, Request
<1>3. Kind(o) = "move" => request[o].other \in Documents
  BY <1>1, RequestsAssumption DEF Kind, Request
<1>4. SaveName(o) \in Names
  BY <1>2 DEF SaveName, F, Names
<1>5. Kind(o) # "settings" => SaveName(o) # F(Config)
  BY <1>2 DEF SaveName, F
<1> QED
  BY <1>1, <1>2, <1>3, <1>4, <1>5

\* A directory keeps its type and its names apart, and goes on having a file n that
\* is not emptied.
Dir(d) ==
  /\ d \in [Names -> Inodes \cup {None}]
  /\ \A m, n \in Names : m # n /\ d[m] = d[n] => d[m] = None

\* Directory d after a rename from m to n, and after the removal of n.
Renamed(d, m, n) == [d EXCEPT ![n] = d[m], ![m] = None]
Without(d, n) == [d EXCEPT ![n] = None]

\* No inode of d turns up in e that was not in d.
NoneNew(d, e) == \A i \in Inodes : (\A k \in Names : d[k] # i) => \A k \in Names : e[k] # i

\* os.replace moves one inode over another name and leaves the other names alone.
LEMMA RenameEffect ==
  ASSUME Dir(dir), NEW m \in Names, NEW n \in Names, n # m
  PROVE  /\ Dir(Renamed(dir, m, n)) /\ NoneNew(dir, Renamed(dir, m, n))
         /\ \A k \in Names \ {m, n} : Renamed(dir, m, n)[k] = dir[k]
         /\ Renamed(dir, m, n)[n] = dir[m]
BY NamesAssumption DEF Dir, Inodes, Renamed, NoneNew

\* unlink clears one name and leaves the other names alone.
LEMMA RemoveEffect ==
  ASSUME Dir(dir), NEW n \in Names
  PROVE  /\ Dir(Without(dir, n)) /\ NoneNew(dir, Without(dir, n))
         /\ \A k \in Names \ {n} : Without(dir, n)[k] = dir[k]
BY NamesAssumption DEF Dir, Inodes, Without, NoneNew

\* A rename of a name onto itself: the model removes it, and no operation does it.
LEMMA RenameSame == ASSUME NEW n \in Names, Dir(dir) PROVE Renamed(dir, n, n) = Without(dir, n)
BY DEF Renamed, Without, Dir

-----------------------------------------------------------------------------
(***************************************************************************)
(* The steps.                                                              *)
(***************************************************************************)
LEMMA Initially == Init => IInv
<1> SUFFICES ASSUME Init PROVE IInv
  OBVIOUS
<1>1. dir \in [Names -> Inodes \cup {None}]
  <2>1. ASSUME NEW n \in Names, NEW f \in Existing \cup {Config}, n = F(f) PROVE n[2] \in Inodes
    BY <2>1, FilesAssumption DEF F, Inodes, Files
  <2> QED
    BY <2>1 DEF Init
<1>2. ASSUME NEW m \in Names, NEW n \in Names, dir[m] = dir[n], dir[m] # None PROVE m = n
  <2>1. PICK f \in Existing \cup {Config} : m = F(f)
    BY <1>2 DEF Init
  <2>2. PICK g \in Existing \cup {Config} : n = F(g)
    BY <1>2 DEF Init
  <2>3. dir[m] = m[2] /\ dir[n] = n[2]
    BY <2>1, <2>2 DEF Init
  <2>4. m[2] = f /\ n[2] = g
    BY <2>1, <2>2 DEF F
  <2> QED
    BY <1>2, <2>1, <2>2, <2>3, <2>4
<1>3. data \in [Inodes -> Holding]
  BY DEF Init, Holding
<1>4. /\ request \in [Ops -> Requests \cup {None}] /\ pc \in [Ops -> Stages]
      /\ loaded \in [Ops -> SUBSET Ops] /\ fd \in [Ops -> Inodes \cup {None}]
      /\ \A o \in Ops : pc[o] = "saving" <=> fd[o] # None
      /\ running \subseteq Ops /\ exposed \subseteq Documents /\ Asked
  BY DEF Init, Asked
<1>5. Unmade
  <2>1. \A n \in Names : dir[n] \in Files \cup {None}
    BY FilesAssumption DEF Init, F, Files
  <2> QED
    BY <2>1, NamesAssumption DEF Unmade
<1>6. Exists(Config)
  <2>1. F(Config) \in Names /\ F(Config)[2] = Config /\ Config # None
    BY NamesAssumption DEF F, Names, Files
  <2> QED
    BY <2>1 DEF Init, Exists
<1> QED
  BY <1>1, <1>2, <1>3, <1>4, <1>5, <1>6 DEF IInv, TypeOK

\* A step that leaves the directory alone and takes o on.
LEMMA DirAlone ==
  ASSUME IInv, dir' = dir, NEW o \in Ops, NEW where \in Stages \ {"idle", "cleared"},
         pc' = [pc EXCEPT ![o] = where],
         pc[o] \in {"idle", "begun", "loaded", "cleared"}
           \/ where \notin {"begun", "loaded", "cleared"},
         request' = request
  PROVE  /\ pc' \in [Ops -> Stages] /\ Unmade' /\ Exists(Config)'
         /\ pc[o] # "idle" => Asked'
BY DEF IInv, TypeOK, Unmade, Asked, Exists

\* A call that arrives.
LEMMA BeginKeeps ==
  ASSUME IInv, NEW o \in Ops, NEW r \in Requests, Begin(o, r)
  PROVE  IInv'
<1>1. r \in Request /\ r # None
  BY RequestsAssumption
<1>2. /\ pc[o] = "idle" /\ pc' = [pc EXCEPT ![o] = "begun"]
      /\ request' = [request EXCEPT ![o] = r]
      /\ UNCHANGED <<dir, data, loaded, fd, running>>
  BY DEF Begin, Goes, disk
<1>3. pc' \in [Ops -> Stages] /\ Unmade' /\ Exists(Config)'
  BY <1>2 DEF IInv, TypeOK, Unmade, Exists
<1>4. Asked' /\ request' \in [Ops -> Requests \cup {None}]
  BY <1>1, <1>2 DEF IInv, TypeOK, Asked
<1>5. r.kind # "settings" => Touches(r) \subseteq Documents
  BY <1>1, RequestsAssumption DEF Touches, Request, Files
<1>6. exposed' \subseteq Documents
  <2>1. CASE r.kind # "settings"
    <3>1. InPlace(r) => r.file \in Documents
      BY <1>1, <2>1, RequestsAssumption DEF InPlace, Request, Files
    <3> QED
      BY <1>5, <2>1, <3>1 DEF Begin, IInv, TypeOK
  <2>2. CASE r.kind = "settings"
    <3>1. ASSUME NEW p \in Active PROVE Touches(request[p]) \cap Touches(r) = {}
      <4>1. pc[p] # "idle" /\ p \in Ops
        BY <3>1 DEF Active
      <4>2. request[p] \in Request /\ request[p] \in Requests
        BY <4>1, Working
      <4>3. request[p].kind \in OnThread
        BY <2>2, <3>1 DEF Begin, OnLoop, Kind
      <4>4. request[p].file # Config
        BY <4>2, <4>3, RequestsAssumption DEF OnThread
      <4>5. Touches(request[p]) = {request[p].file}
        BY <4>3 DEF Touches, OnThread
      <4>6. Touches(r) = {Config}
        BY <1>1, <2>2, RequestsAssumption DEF Touches
      <4> QED
        BY <4>4, <4>5, <4>6
    <3>2. ~InPlace(r)
      BY <2>2 DEF InPlace
    <3>3. Touches(r) \cap UNION {Touches(request[p]) : p \in Active} = {}
      BY <3>1
    <3>4. exposed' = exposed
      BY <3>2, <3>3 DEF Begin
    <3> QED
      BY <3>4 DEF IInv, TypeOK
  <2> QED
    BY <2>1, <2>2
<1> QED
  BY <1>2, <1>3, <1>4, <1>6 DEF IInv, TypeOK

\* A step of o that only reads.
LEMMA ReadKeeps ==
  ASSUME IInv, NEW o \in Ops, Reject(o) \/ Load(o)
  PROVE  IInv'
<1>1. CASE Reject(o)
  <2>1. pc[o] \in {"begun", "loaded"} /\ pc' = [pc EXCEPT ![o] = "failed"]
        /\ UNCHANGED <<dir, data, request, loaded, fd, running, exposed>>
    BY <1>1 DEF Reject, Goes, disk
  <2>2. pc' \in [Ops -> Stages] /\ Unmade' /\ Exists(Config)' /\ Asked'
    BY <2>1, DirAlone
  <2>3. \A i \in Ops : pc'[i] = "saving" <=> fd'[i] # None
    BY <2>1 DEF IInv, TypeOK
  <2> QED
    BY <2>1, <2>2, <2>3 DEF IInv, TypeOK
<1>2. CASE Load(o)
  <2>1. /\ pc[o] = "begun" /\ pc' = [pc EXCEPT ![o] = "loaded"]
        /\ loaded' = [loaded EXCEPT ![o] = Base(o) \cup {o}]
        /\ UNCHANGED <<dir, data, request, fd, exposed>>
    BY <1>2 DEF Load, Goes, disk
  <2>2. pc' \in [Ops -> Stages] /\ Unmade' /\ Exists(Config)' /\ Asked'
    BY <2>1, DirAlone
  <2>3. Base(o) \subseteq Ops
    <3>1. Exists(File(o)) => Content(File(o)) \in Holding
      BY <2>1, Working, NameOf DEF Exists, Content, IInv, TypeOK
    <3> QED
      BY <3>1 DEF Base, Holding, IInv, TypeOK
  <2>4. running' \subseteq Ops
    BY <1>2 DEF Load, IInv, TypeOK
  <2>5. loaded' \in [Ops -> SUBSET Ops]
    BY <2>1, <2>3 DEF IInv, TypeOK
  <2>6. \A i \in Ops : pc'[i] = "saving" <=> fd'[i] # None
    BY <2>1 DEF IInv, TypeOK
  <2> QED
    BY <2>1, <2>2, <2>4, <2>5, <2>6 DEF IInv, TypeOK
<1> QED
  BY <1>1, <1>2

\* The inode that is opened is the one of the name, or the one of o, which no name has.
LEMMA OpenKeeps == ASSUME IInv, NEW o \in Ops, Open(o) PROVE IInv'
<1> DEFINE n == SaveName(o)
           i == IF dir[n] = None THEN o ELSE dir[n]
<1>1. /\ pc[o] = "loaded" /\ dir' = [dir EXCEPT ![n] = i]
      /\ fd' = [fd EXCEPT ![o] = i] /\ pc' = [pc EXCEPT ![o] = "saving"]
      /\ UNCHANGED <<request, loaded, running, exposed>>
  BY DEF Open, Goes
<1>2. n \in Names
  BY <1>1, Working
<1>3. i \in Inodes /\ i # None /\ (dir[n] # None => i = dir[n]) /\ (dir[n] = None => i = o)
  BY <1>2, NamesAssumption DEF IInv, TypeOK, Inodes
<1>4. \A k \in Names : dir[k] # o
  BY <1>1 DEF IInv, Unmade
<1>5. data' \in [Inodes -> Holding]
  <2> DEFINE h == [ops |-> IF Kind(o) = "append" THEN data[i].ops ELSE {},
                   whole |-> Kind(o) = "append" /\ data[i].whole,
                   mixed |-> \E p \in Active \ {o} : pc[p] = "saving" /\ fd[p] = i]
  <2>1. data' = [data EXCEPT ![i] = h]
    BY DEF Open
  <2>2. data[i] \in Holding
    BY <1>3 DEF IInv, TypeOK
  <2>3. h.ops \subseteq Ops
    BY <2>2 DEF Holding
  <2>4. h.whole \in BOOLEAN /\ h.mixed \in BOOLEAN
    OBVIOUS
  <2>5. h \in Holding
    BY <2>3, <2>4 DEF Holding
  <2> HIDE DEF h, i
  <2> QED
    BY <1>3, <2>1, <2>5 DEF IInv, TypeOK
<1> HIDE DEF n, i
<1>6. dir' \in [Names -> Inodes \cup {None}]
  BY <1>1, <1>3 DEF IInv, TypeOK
<1>7. \A k, m \in Names : k # m /\ dir'[k] = dir'[m] => dir'[k] = None
  BY <1>1, <1>2, <1>3, <1>4 DEF IInv, TypeOK
<1>8. Unmade'
  BY <1>1, <1>2, <1>3 DEF IInv, TypeOK, Unmade
<1>9. Exists(Config)'
  BY <1>1, <1>2, <1>3, NameOf DEF IInv, TypeOK, Exists, Files
<1>10. /\ pc' \in [Ops -> Stages] /\ fd' \in [Ops -> Inodes \cup {None}]
       /\ \A p \in Ops : pc'[p] = "saving" <=> fd'[p] # None
       /\ Asked'
  BY <1>1, <1>3 DEF IInv, TypeOK, Asked
<1> QED
  BY <1>1, <1>5, <1>6, <1>7, <1>8, <1>9, <1>10 DEF IInv, TypeOK

\* All that a call saves is written and the file closed.
LEMMA SaveKeeps == ASSUME IInv, NEW o \in Ops, Save(o) PROVE IInv'
<1> DEFINE i == fd[o]
<1>1. /\ pc[o] = "saving" /\ fd' = [fd EXCEPT ![o] = None]
      /\ UNCHANGED <<dir, request, loaded, running, exposed>>
  BY DEF Save
<1>2. PICK where \in {"ok", "saved"} : pc' = [pc EXCEPT ![o] = where]
  BY DEF Save, Goes
<1>3. i \in Inodes
  BY <1>1 DEF IInv, TypeOK
<1>4. PICK whole \in BOOLEAN :
        data' = [data EXCEPT ![i].whole = whole,
                             ![i].ops = IF Kind(o) = "append" THEN @ \cup {o} ELSE loaded[o]]
  <2>1. (IF data[i].mixed THEN BOOLEAN ELSE {Kind(o) # "append" \/ data[i].whole}) \subseteq BOOLEAN
    OBVIOUS
  <2> QED
    BY <2>1 DEF Save
<1>5. data' \in [Inodes -> Holding]
  <2> DEFINE kept == IF Kind(o) = "append" THEN data[i].ops \cup {o} ELSE loaded[o]
  <2>1. data[i] \in Holding /\ data \in [Inodes -> Holding] /\ loaded[o] \subseteq Ops
    BY <1>3 DEF IInv, TypeOK
  <2>2. kept \subseteq Ops
    BY <2>1 DEF Holding
  <2> DEFINE d == [data EXCEPT ![i].whole = whole]
  <2>3. d \in [Inodes -> Holding] /\ d[i].ops = data[i].ops
    BY <1>3, <2>1 DEF Holding
  <2>4. data' = [d EXCEPT ![i].ops = kept]
    BY <1>3, <1>4, <2>3
  <2> HIDE DEF kept, i, d
  <2> QED
    BY <1>3, <2>2, <2>3, <2>4 DEF Holding
<1>6. pc' \in [Ops -> Stages] /\ Unmade' /\ Exists(Config)' /\ Asked'
  BY <1>1, <1>2, DirAlone
<1>7. fd' \in [Ops -> Inodes \cup {None}] /\ \A p \in Ops : pc'[p] = "saving" <=> fd'[p] # None
  BY <1>1, <1>2 DEF IInv, TypeOK
<1> QED
  BY <1>1, <1>5, <1>6, <1>7 DEF IInv, TypeOK

\* A step of o that ends what it does in the directory.
LEMMA DirKeeps ==
  ASSUME IInv, NEW o \in Ops, NEW where \in Stages \ {"idle", "saving"},
         pc[o] # "idle", Dir(dir'), Exists(Config)',
         NoneNew(dir, dir'),
         where \in {"ok", "failed"} \/ (pc[o] = "begun" /\ request[o].kind = "move"),
         pc' = [pc EXCEPT ![o] = where], fd' = [fd EXCEPT ![o] = None],
         UNCHANGED <<data, request, loaded, running>>, exposed' \subseteq Documents
  PROVE  IInv'
<1>1. /\ pc' \in [Ops -> Stages] /\ Asked'
      /\ fd' \in [Ops -> Inodes \cup {None}] /\ \A p \in Ops : pc'[p] = "saving" <=> fd'[p] # None
  BY DEF IInv, TypeOK, Asked
<1>2. Unmade'
  BY DEF IInv, TypeOK, Unmade, Inodes, NoneNew
<1> QED
  BY <1>1, <1>2 DEF IInv, TypeOK, Dir

\* An operation that has nothing open has nothing to close.
LEMMA Closed ==
  ASSUME IInv, NEW o \in Ops, pc[o] # "saving"
  PROVE  fd = [fd EXCEPT ![o] = None]
BY DEF IInv, TypeOK

\* A directory that stays as it was.
LEMMA DirSame == ASSUME IInv, dir' = dir PROVE Dir(dir') /\ NoneNew(dir, dir') /\ Exists(Config)'
BY DEF IInv, TypeOK, Dir, NoneNew, Exists

\* One from which a name other than that of the configuration goes.
LEMMA DirRemoved ==
  ASSUME IInv, NEW n \in Names, n # F(Config), dir' = Without(dir, n)
  PROVE  Dir(dir') /\ NoneNew(dir, dir') /\ Exists(Config)'
<1>1. Dir(dir) /\ F(Config) \in Names
  BY NameOf DEF IInv, TypeOK, Dir, Files
<1>2. Without(dir, n)[F(Config)] = dir[F(Config)]
  BY <1>1, RemoveEffect
<1>3. Dir(Without(dir, n)) /\ NoneNew(dir, Without(dir, n))
  BY <1>1, RemoveEffect
<1> QED
  BY <1>2, <1>3 DEF IInv, Exists

\* One in which a file is renamed.
LEMMA DirRenamed ==
  ASSUME IInv, NEW m \in Names, NEW n \in Names, m # F(Config), dir[m] # None,
         n = m => n # F(Config),
         dir' = Renamed(dir, m, n)
  PROVE  Dir(dir') /\ NoneNew(dir, dir') /\ Exists(Config)'
<1>1. Dir(dir) /\ F(Config) \in Names /\ dir[F(Config)] # None
  BY NameOf DEF IInv, TypeOK, Dir, Files, Exists
<1>2. CASE n = m
  BY <1>1, <1>2, RenameSame, DirRemoved
<1>3. CASE n # m
  <2>1. /\ Dir(Renamed(dir, m, n)) /\ NoneNew(dir, Renamed(dir, m, n))
        /\ \A k \in Names \ {m, n} : Renamed(dir, m, n)[k] = dir[k]
        /\ Renamed(dir, m, n)[n] = dir[m]
    BY <1>1, <1>3, RenameEffect
  <2>2. Renamed(dir, m, n)[F(Config)] # None
    BY <1>1, <2>1
  <2> QED
    BY <2>1, <2>2 DEF Exists
<1> QED
  BY <1>2, <1>3

\* A write fails half way: the error goes to the client.
LEMMA SaveFailsKeeps == ASSUME IInv, NEW o \in Ops, SaveFails(o) PROVE IInv'
<1>1. /\ pc[o] = "saving" /\ pc' = [pc EXCEPT ![o] = "failed"]
      /\ fd' = [fd EXCEPT ![o] = None]
      /\ UNCHANGED <<data, request, loaded, running, exposed>>
  BY DEF SaveFails, Goes
<1>2. SaveName(o) \in Names
  BY <1>1, Working
<1>3. dir' = dir \/ (dir' = Without(dir, SaveName(o)) /\ SaveName(o) # F(Config))
  BY DEF SaveFails, SaveName, F, Without, InPlace, Kind
<1>4. Dir(dir') /\ NoneNew(dir, dir') /\ Exists(Config)'
  BY <1>2, <1>3, DirSame, DirRemoved
<1>5. exposed' \subseteq Documents
  BY <1>1 DEF IInv, TypeOK
<1> QED
  BY <1>1, <1>4, <1>5, DirKeeps

\* os.replace puts the temporary file in place.
LEMMA RenameKeeps == ASSUME IInv, NEW o \in Ops, Rename(o) PROVE IInv'
<1>1. pc[o] = "saved" /\ UNCHANGED <<data, request, loaded, fd, running, exposed>>
  BY DEF Rename
<1>2. /\ SaveName(o) \in Names /\ F(File(o)) \in Names /\ File(o) \in Files
      /\ fd' = [fd EXCEPT ![o] = None] /\ exposed' \subseteq Documents
  BY <1>1, Working, NameOf, Closed DEF IInv, TypeOK
<1>3. CASE dir[SaveName(o)] = None
  <2>1. dir' = dir /\ pc' = [pc EXCEPT ![o] = "failed"]
    BY <1>3 DEF Rename, Goes
  <2> QED
    BY <1>1, <1>2, <2>1, DirKeeps, DirSame
<1>4. CASE dir[SaveName(o)] # None
  <2>1. dir' = Renamed(dir, SaveName(o), F(File(o))) /\ pc' = [pc EXCEPT ![o] = "ok"]
    BY <1>4 DEF Rename, Goes, Renamed
  <2>2. SaveName(o) # F(Config)
    BY <1>1, Working DEF SaveName, F, InPlace, Kind
  <2>3. Dir(dir') /\ NoneNew(dir, dir') /\ Exists(Config)'
    BY <1>2, <1>4, <2>1, <2>2, DirRenamed
  <2> QED
    BY <1>1, <1>2, <2>1, <2>3, DirKeeps
<1> QED
  BY <1>3, <1>4

\* move() removes the destination it may overwrite.
LEMMA MoveClearsKeeps == ASSUME IInv, NEW o \in Ops, MoveClears(o) PROVE IInv'
<1>1. pc[o] = "begun" /\ request[o].kind = "move"
      /\ UNCHANGED <<data, request, loaded, fd, running, exposed>>
  BY DEF MoveClears, Kind
<1>2. /\ F(File(o)) \in Names /\ F(File(o)) # F(Config)
      /\ fd' = [fd EXCEPT ![o] = None] /\ exposed' \subseteq Documents
  BY <1>1, Working, NameOf, Closed DEF IInv, TypeOK, Kind, Files
<1>3. CASE dir' = dir /\ pc' = [pc EXCEPT ![o] = "failed"]
  BY <1>1, <1>2, <1>3, DirSame, DirKeeps
<1>4. CASE dir' = Without(dir, F(File(o))) /\ pc' = [pc EXCEPT ![o] = "cleared"]
  BY <1>1, <1>2, <1>4, DirRemoved, DirKeeps
<1> QED
  BY <1>3, <1>4 DEF MoveClears, Goes, Without

\* move() then renames its source.
LEMMA MoveRenamesKeeps == ASSUME IInv, NEW o \in Ops, MoveRenames(o) PROVE IInv'
<1> DEFINE source == request[o].other
<1>1. pc[o] = "cleared" /\ request[o].kind = "move" /\ UNCHANGED <<data, request, loaded, fd, running>>
  BY DEF MoveRenames, IInv, Asked
<1>2. /\ F(File(o)) \in Names /\ File(o) \in Files /\ File(o) # Config /\ source \in Documents
      /\ fd' = [fd EXCEPT ![o] = None]
  BY <1>1, Working, NameOf, Closed DEF Kind
<1>3. F(source) \in Names /\ F(source) # F(Config) /\ F(File(o)) # F(Config)
  BY <1>2, NameOf, FilesAssumption DEF Files
<1>4. exposed' \subseteq Documents
  BY <1>2 DEF MoveRenames, IInv, TypeOK, Files
<1>5. CASE dir' = dir /\ pc' = [pc EXCEPT ![o] = "failed"]
  BY <1>1, <1>2, <1>4, <1>5, DirSame, DirKeeps
<1>6. CASE /\ dir' = Renamed(dir, F(source), F(File(o))) /\ dir[F(source)] # None
           /\ pc' = [pc EXCEPT ![o] = "ok"]
  <2>1. Dir(dir') /\ NoneNew(dir, dir') /\ Exists(Config)'
    BY <1>2, <1>3, <1>6, DirRenamed
  <2> QED
    BY <1>1, <1>2, <1>4, <1>6, <2>1, DirKeeps
<1> QED
  BY <1>5, <1>6 DEF MoveRenames, Goes, Renamed, Exists

\* The node dies and starts again on the files it left.
LEMMA RestartKeeps == ASSUME IInv, Restart PROVE IInv'
<1>1. /\ pc' = [o \in Ops |-> IF o \in Active THEN "crashed" ELSE pc[o]]
      /\ fd' = [o \in Ops |-> None]
      /\ UNCHANGED <<dir, data, request, loaded, exposed>>
  BY DEF Restart, disk
<1>2. /\ pc' \in [Ops -> Stages] /\ Unmade' /\ Asked' /\ Exists(Config)'
      /\ \A o \in Ops : pc'[o] # "saving"
  BY <1>1 DEF IInv, TypeOK, Unmade, Asked, Exists, Active
<1>3. Content(Config) \in Holding
  BY NameOf DEF IInv, TypeOK, Exists, Content, Files
<1>4. running' \subseteq Ops
  BY <1>3 DEF Restart, Holding
<1> QED
  BY <1>1, <1>2, <1>4 DEF IInv, TypeOK

\* Every step of the node keeps the invariant.
LEMMA Inductive == IInv /\ [Next]_vars => IInv'
<1> SUFFICES ASSUME IInv, [Next]_vars PROVE IInv'
  OBVIOUS
<1>1. CASE UNCHANGED vars
  BY <1>1 DEF vars, disk, op, IInv, TypeOK, Unmade, Asked, Exists
<1>2. CASE Restart
  BY <1>2, RestartKeeps
<1>3. ASSUME NEW o \in Ops, NEW r \in Requests, Begin(o, r) PROVE IInv'
  BY <1>3, BeginKeeps
<1>4. ASSUME NEW o \in Ops,
             \/ Reject(o) \/ Load(o) \/ Open(o) \/ Save(o) \/ SaveFails(o) \/ Rename(o)
             \/ MoveClears(o) \/ MoveRenames(o)
      PROVE  IInv'
  BY <1>4, ReadKeeps, OpenKeeps, SaveKeeps, SaveFailsKeeps, RenameKeeps, MoveClearsKeeps,
     MoveRenamesKeeps
<1> QED
  BY <1>1, <1>2, <1>3, <1>4 DEF Next

\* The invariant holds in every state of the node, whatever its files and calls.
THEOREM Invariance == Spec => []IInv
BY Initially, Inductive, PTL DEF Spec

\* The file system and the operations keep their types; no two names share a file,
\* and only what is saving has one open.
THEOREM FileTypes == Spec => []TypeOK
BY Invariance, PTL DEF IInv

\* FileManager.move, _atomic_text and SettingsManager.set with any others beside
\* them: the node always has a configuration file to start with.
THEOREM ConfigExists == Spec => []Exists(Config)
BY Invariance, PTL DEF IInv
-----------------------------------------------------------------------------
(***************************************************************************)
(* What keeps a file whole.  A file that is not exposed has one operation  *)
(* at work on it at most, and what that one has open is a temporary file   *)
(* that no other operation opens, renames or moves.                        *)
(***************************************************************************)
\* Two operations that are at work share exposed files only, and one is on a thread.
Alone(o, p) ==
  o # p /\ o \in Active /\ p \in Active =>
    /\ Touches(request[o]) \cap Touches(request[p]) \subseteq exposed
    /\ Kind(o) \in OnThread \/ Kind(p) \in OnThread

\* Who writes in place exposes the file.
Openly(o) == o \in Active /\ InPlace(request[o]) => File(o) \in exposed

\* Nobody has the inode open that o is to make.
Unopened(o) == pc[o] \in {"idle", "begun", "loaded", "cleared"} => \A p \in Ops : fd[p] # o

\* What o has open is its temporary file and nothing else, or lies about under
\* names of exposed files.
OwnTemp(o) ==
  pc[o] = "saving" =>
    IF File(o) \in exposed THEN \A n \in Names : dir[n] = fd[o] => n[2] \in exposed
    ELSE dir[SaveName(o)] = fd[o] /\ ~data[fd[o]].mixed

\* What is to take the place of a file is whole, and what o was to make of it.
SavedWhole(o) ==
  pc[o] = "saved" /\ File(o) \notin exposed =>
    LET i == dir[SaveName(o)] IN i # None /\ data[i].whole /\ data[i].ops = loaded[o]

\* What o read has not changed since.
UpToDate(o) ==
  pc[o] \in {"loaded", "saving", "saved"} /\ File(o) \notin exposed =>
    /\ loaded[o] = Base(o) \cup {o}
    /\ Kind(o) = "settings" => o \in running

\* Where a move has cleared the way nothing appears.
Cleared(o) == pc[o] = "cleared" /\ File(o) \notin exposed => ~Exists(File(o))

Careful(o) ==
  /\ Openly(o) /\ Unopened(o) /\ OwnTemp(o)
  /\ SavedWhole(o) /\ UpToDate(o) /\ Cleared(o)

\* Only updates of the settings are in the settings.
RunningAsked == \A o \in running : pc[o] # "idle" /\ Kind(o) = "settings"

SInv ==
  /\ IInv
  /\ \A o, p \in Ops : Alone(o, p)
  /\ \A o \in Ops : Careful(o)
  /\ RunningAsked
  /\ WholeFiles /\ ConfigIsRunning

\* The steps of an operation that is at work.
Steps(o) ==
  \/ Reject(o) \/ Load(o) \/ Open(o) \/ Save(o) \/ SaveFails(o) \/ Rename(o)
  \/ MoveClears(o) \/ MoveRenames(o)

\* Name n goes on standing for the same content.
Untouched(n) == dir'[n] = dir[n] /\ (dir[n] # None => data'[dir[n]] = data[dir[n]])

\* The name under which o saves tells the file, but for the settings.
LEMMA SaveNames ==
  ASSUME IInv, NEW o \in Ops, pc[o] # "idle"
  PROVE  /\ SaveName(o) \in Names
         /\ Kind(o) = "settings" => SaveName(o) = <<"settings", o>> /\ SaveName(o)[2] = o
         /\ Kind(o) # "settings" => SaveName(o)[2] = File(o)
         /\ \A f \in Files : SaveName(o) = F(f) => InPlace(request[o]) /\ f = File(o)
         /\ SaveName(o)[2] \in exposed <=> File(o) \in exposed
         /\ File(o) \in exposed => Kind(o) # "settings"
<1>1. /\ SaveName(o) \in Names /\ File(o) \in Files
      /\ Kind(o) = "settings" <=> File(o) = Config
  BY Working
<1>2. Kind(o) = "settings" => SaveName(o) = <<"settings", o>>
  BY DEF SaveName, InPlace, Kind
<1>3. Kind(o) # "settings" => SaveName(o)[2] = File(o)
  BY DEF SaveName, F
<1>4. \A f \in Files : SaveName(o) = F(f) => InPlace(request[o]) /\ f = File(o)
  BY DEF SaveName, F
<1>5. Config \notin exposed /\ o \notin exposed
  BY FilesAssumption, NamesAssumption DEF IInv, TypeOK, Files
<1> QED
  BY <1>1, <1>2, <1>3, <1>4, <1>5

\* Operations that are at work save under names of their own, or on exposed files.
LEMMA OtherNames ==
  ASSUME SInv, NEW o \in Active, NEW p \in Active, o # p, File(p) \notin exposed
  PROVE  /\ SaveName(o) # SaveName(p)
         /\ \A f \in Touches(request[o]) : F(f) # SaveName(p) /\ F(f) # F(File(p))
         /\ SaveName(o) # F(File(p))
<1>1. /\ o \in Ops /\ p \in Ops /\ pc[o] # "idle" /\ pc[p] # "idle" /\ IInv
      /\ Careful(p) /\ Alone(o, p)
  BY DEF Active, SInv
<1>2. ~InPlace(request[p])
  BY <1>1 DEF Careful, Openly
<1>3. File(o) \in Touches(request[o]) /\ File(p) \in Touches(request[p])
  BY DEF Touches, File
<1>4. File(p) \notin Touches(request[o])
  BY <1>1, <1>3 DEF Alone
<1>5. \A f \in Touches(request[o]) : f \in Files
  BY <1>1, Working DEF Touches, File, Kind, Files
<1>6. File(p) \in Files
  BY <1>1, Working
<1>7. \A f \in Touches(request[o]) : F(f) # SaveName(p) /\ F(f) # F(File(p))
  BY <1>1, <1>2, <1>4, <1>5, <1>6, SaveNames, NameOf
<1>8. SaveName(o) # F(File(p))
  BY <1>1, <1>3, <1>4, <1>6, SaveNames
<1>9. SaveName(o) # SaveName(p)
  <2>1. CASE Kind(p) = "settings"
    <3>1. Kind(o) # "settings"
      BY <1>1, <2>1 DEF Alone, OnThread
    <3> QED
      BY <1>1, <1>5, <1>3, <2>1, <3>1, SaveNames, NamesAssumption
  <2>2. CASE Kind(p) # "settings"
    <3>1. CASE Kind(o) = "settings"
      BY <1>1, <1>6, <2>2, <3>1, SaveNames, NamesAssumption
    <3>2. CASE Kind(o) # "settings"
      BY <1>1, <1>3, <1>4, <2>2, <3>2, SaveNames
    <3> QED
      BY <3>1, <3>2
  <2> QED
    BY <2>1, <2>2
<1> QED
  BY <1>7, <1>8, <1>9

\* A write reaches no file but those that are exposed, and its own temporary one.
LEMMA WriteUntouched ==
  ASSUME SInv, NEW o \in Ops, Open(o) \/ Save(o),
         NEW n \in Names, n # SaveName(o), n[2] \notin exposed
  PROVE  Untouched(n)
<1>1. IInv /\ Careful(o) /\ pc[o] # "idle"
  BY DEF SInv, Open, Save
<1>2. SaveName(o) \in Names /\ (SaveName(o)[2] \in exposed <=> File(o) \in exposed)
  BY <1>1, SaveNames
<1>3. CASE Open(o)
  <2>1. PICK i, h :
          /\ i \in Inodes
          /\ dir' = [dir EXCEPT ![SaveName(o)] = i] /\ data' = [data EXCEPT ![i] = h]
          /\ i = (IF dir[SaveName(o)] = None THEN o ELSE dir[SaveName(o)])
    <3>1. (IF dir[SaveName(o)] = None THEN o ELSE dir[SaveName(o)]) \in Inodes
      BY <1>1, <1>2 DEF IInv, TypeOK, Inodes
    <3> QED
      BY <1>3, <3>1 DEF Open
  <2>2. dir[n] # o
    BY <1>1, <1>3 DEF IInv, Unmade, Open
  <2>3. dir[n] # None => dir[n] # i
    BY <1>1, <1>2, <2>1, <2>2 DEF IInv, TypeOK
  <2> QED
    BY <1>1, <2>1, <2>3 DEF Untouched, IInv, TypeOK
<1>4. CASE Save(o)
  <2>1. dir' = dir /\ pc[o] = "saving"
    BY <1>4 DEF Save
  <2>2. PICK kept : kept = IF Kind(o) = "append" THEN data[fd[o]].ops \cup {o} ELSE loaded[o]
    OBVIOUS
  <2>3. PICK whole \in IF data[fd[o]].mixed THEN BOOLEAN
                      ELSE {Kind(o) # "append" \/ data[fd[o]].whole} :
          data' = [data EXCEPT ![fd[o]].whole = whole, ![fd[o]].ops = kept]
    BY <1>4, <2>2 DEF Save
  <2>4. dir[n] # None => dir[n] # fd[o]
    BY <1>1, <1>2, <2>1 DEF IInv, TypeOK, Careful, OwnTemp
  <2> QED
    BY <1>1, <2>1, <2>3, <2>4 DEF Untouched, IInv, TypeOK
<1> QED
  BY <1>3, <1>4

\* A step in the directory alone.
LEMMA DirUntouched ==
  ASSUME SInv, NEW o \in Ops,
         Reject(o) \/ Load(o) \/ SaveFails(o) \/ Rename(o) \/ MoveClears(o) \/ MoveRenames(o),
         NEW n \in Names, n # SaveName(o), \A f \in Touches(request[o]) : n # F(f)
  PROVE  Untouched(n)
<1>1. /\ TypeOK /\ File(o) \in Touches(request[o])
      /\ Kind(o) = "move" => request[o].other \in Touches(request[o])
  BY DEF SInv, IInv, Touches, File, Kind
<1>2. MoveRenames(o) => Kind(o) = "move"
  BY DEF MoveRenames, SInv, IInv, Asked, Kind
<1>3. data' = data
  BY DEF Reject, Load, SaveFails, Rename, MoveClears, MoveRenames, disk
<1>4. dir'[n] = dir[n]
  BY <1>1, <1>2 DEF Reject, Load, SaveFails, Rename, MoveClears, MoveRenames, disk, TypeOK
<1> QED
  BY <1>3, <1>4 DEF Untouched

\* What a step of o leaves alone: the file and the temporary file of any other
\* operation at work, unless that file is exposed.
LEMMA Frame ==
  ASSUME SInv, NEW o \in Ops, Steps(o), NEW p \in Active, p # o, File(p) \notin exposed
  PROVE  Untouched(SaveName(p)) /\ Untouched(F(File(p)))
<1>1. o \in Active /\ p \in Ops /\ pc[p] # "idle" /\ IInv
  BY DEF Active, Steps, Reject, Load, Open, Save, SaveFails, Rename, MoveClears, MoveRenames, SInv
<1>2. /\ SaveName(o) # SaveName(p)
      /\ \A f \in Touches(request[o]) : F(f) # SaveName(p) /\ F(f) # F(File(p))
      /\ SaveName(o) # F(File(p))
  BY <1>1, OtherNames
<1>3. /\ SaveName(p) \in Names /\ SaveName(p)[2] \notin exposed
      /\ F(File(p)) \in Names /\ F(File(p))[2] \notin exposed
  BY <1>1, SaveNames, Working, NameOf DEF F
<1> QED
  BY <1>2, <1>3, WriteUntouched, DirUntouched DEF Steps
\* What any step of an operation at work changes, but for files.
LEMMA StepShape ==
  ASSUME IInv, NEW o \in Ops, Steps(o)
  PROVE  /\ request' = request /\ o \in Active /\ Active' \subseteq Active
         /\ \A p \in Ops \ {o} : /\ pc'[p] = pc[p] /\ fd'[p] = fd[p] /\ loaded'[p] = loaded[p]
                                 /\ p \in Active <=> p \in Active'
         /\ \/ exposed' = exposed
            \/ MoveRenames(o) /\ exposed' = exposed \cup {File(o)}
         /\ \/ running' = running
            \/ Load(o) /\ Kind(o) = "settings" /\ running' = running \cup {o}
<1>1. request' = request /\ pc \in [Ops -> Stages] /\ fd \in [Ops -> Inodes \cup {None}]
      /\ loaded \in [Ops -> SUBSET Ops]
  BY DEF Steps, Reject, Load, Open, Save, SaveFails, Rename, MoveClears, MoveRenames, IInv, TypeOK
<1>2. pc[o] \in {"begun", "loaded", "saving", "saved", "cleared"}
  BY DEF Steps, Reject, Load, Open, Save, SaveFails, Rename, MoveClears, MoveRenames
<1>3. PICK where \in Stages : pc' = [pc EXCEPT ![o] = where]
  BY DEF Steps, Reject, Load, Open, Save, SaveFails, Rename, MoveClears, MoveRenames, Goes
<1>4. \A p \in Ops \ {o} : fd'[p] = fd[p] /\ loaded'[p] = loaded[p]
  BY <1>1 DEF Steps, Reject, Load, Open, Save, SaveFails, Rename, MoveClears, MoveRenames
<1>5. exposed' = exposed \/ (MoveRenames(o) /\ exposed' = exposed \cup {File(o)})
  BY DEF Steps, Reject, Load, Open, Save, SaveFails, Rename, MoveClears, MoveRenames
<1>6. \/ running' = running
      \/ Load(o) /\ Kind(o) = "settings" /\ running' = running \cup {o}
  BY DEF Steps, Reject, Load, Open, Save, SaveFails, Rename, MoveClears, MoveRenames
<1> QED
  BY <1>1, <1>2, <1>3, <1>4, <1>5, <1>6 DEF Active

\* How an inode comes under another name.
LEMMA NewName ==
  ASSUME IInv, NEW o \in Ops, Steps(o), NEW n \in Names, dir'[n] # dir[n], dir'[n] # None
  PROVE  \/ Open(o) /\ n = SaveName(o) /\ dir[n] = None /\ dir'[n] = o
         \/ Rename(o) /\ n = F(File(o)) /\ dir'[n] = dir[SaveName(o)]
         \/ /\ MoveRenames(o) /\ n = F(File(o)) /\ dir'[n] = dir[F(request[o].other)]
            /\ request[o].other \in exposed => File(o) \in exposed'
<1>1. dir \in [Names -> Inodes \cup {None}]
  BY DEF IInv, TypeOK
<1>2. dir' # dir
  OBVIOUS
<1>3. CASE Open(o)
  BY <1>1, <1>3 DEF Open
<1>4. CASE SaveFails(o) \/ MoveClears(o)
  BY <1>1, <1>4 DEF SaveFails, MoveClears
<1>5. CASE Rename(o)
  BY <1>1, <1>5 DEF Rename
<1>6. CASE MoveRenames(o)
  BY <1>1, <1>6 DEF MoveRenames
<1> QED
  BY <1>2, <1>3, <1>4, <1>5, <1>6 DEF Steps, Reject, Load, Save, disk

\* A step of o does not disturb what another operation relies on.
LEMMA OthersCareful ==
  ASSUME SInv, NEW o \in Ops, Steps(o), NEW p \in Ops, p # o
  PROVE  Careful(p)'
<1>1. IInv /\ Careful(o) /\ Careful(p) /\ Alone(o, p)
  BY DEF SInv
<1>2. /\ request' = request /\ o \in Active /\ (p \in Active <=> p \in Active')
      /\ pc'[p] = pc[p] /\ fd'[p] = fd[p] /\ loaded'[p] = loaded[p]
      /\ exposed \subseteq exposed'
  BY <1>1, StepShape
<1>3. /\ File(p)' = File(p) /\ Kind(p)' = Kind(p) /\ SaveName(p)' = SaveName(p)
      /\ InPlace(request[p])' = InPlace(request[p])
  BY <1>2 DEF File, Kind, SaveName, InPlace, F
<1>4. ASSUME p \in Active, File(p) \notin exposed'
      PROVE  Untouched(SaveName(p)) /\ Untouched(F(File(p))) /\ File(p) \notin exposed
  BY <1>2, <1>4, Frame
<1>5. Openly(p)'
  BY <1>1, <1>2, <1>3 DEF Careful, Openly
<1>6. Unopened(p)'
  <2> SUFFICES ASSUME pc[p] \in {"idle", "begun", "loaded", "cleared"}, NEW q \in Ops
               PROVE  fd'[q] # p
    BY <1>2 DEF Unopened
  <2>1. fd[q] # p
    BY <1>1 DEF Careful, Unopened
  <2>2. CASE q # o
    BY <1>1, <2>1, <2>2, StepShape
  <2>3. CASE q = o /\ Open(o)
    <3>1. SaveName(o) \in Names /\ dir[SaveName(o)] # p
      BY <1>1, <2>3, SaveNames DEF Open, IInv, Unmade
    <3> QED
      BY <1>1, <2>3, <3>1 DEF Open, IInv, TypeOK
  <2>4. CASE q = o /\ ~Open(o)
    <3>1. fd' = fd \/ fd' = [fd EXCEPT ![o] = None]
      BY <2>4 DEF Steps, Reject, Load, Save, SaveFails, Rename, MoveClears, MoveRenames
    <3> QED
      BY <1>1, <2>1, <2>4, <3>1, NamesAssumption DEF IInv, TypeOK
  <2> QED
    BY <2>2, <2>3, <2>4
<1>7. OwnTemp(p)'
  <2> SUFFICES ASSUME pc[p] = "saving"
               PROVE  IF File(p) \in exposed'
                      THEN \A n \in Names : dir'[n] = fd[p] => n[2] \in exposed'
                      ELSE dir'[SaveName(p)] = fd[p] /\ ~data'[fd[p]].mixed
    BY <1>2, <1>3 DEF OwnTemp
  <2>1. p \in Active /\ fd[p] \in Inodes /\ fd[p] # None
    BY <1>1 DEF Active, IInv, TypeOK
  <2>2. CASE File(p) \notin exposed'
    BY <1>1, <1>4, <2>1, <2>2 DEF Careful, OwnTemp, Untouched
  <2>3. CASE File(p) \in exposed' /\ File(p) \notin exposed
    <3>1. File(p) = File(o)
      BY <1>1, <2>3, StepShape
    <3>2. File(p) \in Touches(request[p]) /\ File(o) \in Touches(request[o])
      BY DEF Touches, File
    <3> QED
      BY <1>1, <1>2, <2>1, <2>3, <3>1, <3>2 DEF Alone
  <2>4. CASE File(p) \in exposed
    <3> SUFFICES ASSUME NEW n \in Names, dir'[n] = fd[p]
                 PROVE  n[2] \in exposed'
      BY <1>2, <2>4
    <3>1. \A m \in Names : dir[m] = fd[p] => m[2] \in exposed
      BY <1>1, <2>4 DEF Careful, OwnTemp
    <3>2. CASE dir'[n] = dir[n]
      BY <1>2, <3>1, <3>2
    <3>3. CASE dir'[n] # dir[n]
      <4>1. dir'[n] # None
        BY <2>1
      <4>2. CASE Open(o) /\ dir'[n] = o
        BY <1>1, <4>2 DEF Careful, Unopened, Open
      <4>3. CASE Rename(o) /\ n = F(File(o)) /\ dir'[n] = dir[SaveName(o)]
        <5>1. SaveName(o) \in Names /\ (SaveName(o)[2] \in exposed => File(o) \in exposed)
          BY <1>1, <4>3, SaveNames DEF Rename
        <5> QED
          BY <1>2, <3>1, <4>3, <5>1 DEF F
      <4>4. CASE /\ MoveRenames(o) /\ n = F(File(o)) /\ dir'[n] = dir[F(request[o].other)]
                 /\ request[o].other \in exposed => File(o) \in exposed'
        <5>1. F(request[o].other) \in Names /\ F(request[o].other)[2] = request[o].other
          BY <1>1, <4>4, Working, NameOf DEF MoveRenames, IInv, Asked, Kind, Files, F
        <5> QED
          BY <1>2, <3>1, <4>4, <5>1 DEF F
      <4> QED
        BY <1>1, <3>3, <4>1, <4>2, <4>3, <4>4, NewName
    <3> QED
      BY <3>2, <3>3
  <2> QED
    BY <2>2, <2>3, <2>4
<1>8. SavedWhole(p)'
  BY <1>1, <1>2, <1>3, <1>4 DEF SavedWhole, Careful, Active, Untouched
<1>9. UpToDate(p)'
  <2> SUFFICES ASSUME pc[p] \in {"loaded", "saving", "saved"}, File(p) \notin exposed'
               PROVE  /\ loaded[p] = Base(p)' \cup {p}
                      /\ Kind(p) = "settings" => p \in running'
    BY <1>2, <1>3 DEF UpToDate
  <2>1. p \in Active /\ Untouched(F(File(p))) /\ File(p) \notin exposed
    BY <1>4 DEF Active
  <2>2. loaded[p] = Base(p) \cup {p} /\ (Kind(p) = "settings" => p \in running)
    BY <1>1, <2>1 DEF Careful, UpToDate
  <2>3. Kind(p) = "settings" => running' = running
    BY <1>1, <1>2, <2>1, StepShape DEF Alone, OnThread
  <2>4. Base(p)' = Base(p)
    BY <1>3, <2>1, <2>3 DEF Base, Exists, Content, Untouched
  <2> QED
    BY <2>2, <2>3, <2>4
<1>10. Cleared(p)'
  BY <1>1, <1>2, <1>3, <1>4 DEF Cleared, Careful, Active, Untouched, Exists
<1> QED
  BY <1>5, <1>6, <1>7, <1>8, <1>9, <1>10 DEF Careful
\* An operation that loads its file has read what is there.
LEMMA LoadCareful == ASSUME SInv, NEW o \in Ops, Load(o) PROVE Careful(o)'
<1>1. /\ IInv /\ Careful(o) /\ pc'[o] = "loaded" /\ pc[o] = "begun" /\ o \in Active
      /\ UNCHANGED <<dir, data, request, fd, exposed>>
      /\ loaded'[o] = Base(o) \cup {o}
      /\ running' = IF Kind(o) = "settings" THEN running \cup {o} ELSE running
  BY DEF SInv, Load, Goes, disk, Active, IInv, TypeOK
<1>2. /\ File(o)' = File(o) /\ Kind(o)' = Kind(o)
  BY <1>1 DEF File, Kind
<1>3. Base(o)' \cup {o} = Base(o) \cup {o}
  BY <1>1, <1>2 DEF Base, Exists, Content
<1> QED
  BY <1>1, <1>2, <1>3
  DEF Careful, Openly, Unopened, OwnTemp, SavedWhole, UpToDate, Cleared

\* What it opens nobody else has open, unless the file is exposed.
LEMMA OpenCareful == ASSUME SInv, IInv', NEW o \in Ops, Open(o) PROVE Careful(o)'
<1> DEFINE n == SaveName(o)
           i == IF dir[n] = None THEN o ELSE dir[n]
           mixed == \E p \in Active \ {o} : pc[p] = "saving" /\ fd[p] = i
<1>1. /\ IInv /\ Careful(o) /\ pc'[o] = "saving" /\ pc[o] = "loaded" /\ o \in Active
      /\ UNCHANGED <<request, loaded, running, exposed>> /\ fd'[o] = i /\ dir'[n] = i
      /\ n \in Names
  BY SaveNames DEF SInv, Open, Goes, Active, IInv, TypeOK
<1>2. /\ File(o)' = File(o) /\ Kind(o)' = Kind(o) /\ SaveName(o)' = SaveName(o)
  BY <1>1 DEF File, Kind, SaveName, InPlace, F
<1>3. Openly(o)'
  BY <1>1, <1>2 DEF Careful, Openly, InPlace
<1>4. ASSUME File(o) \notin exposed PROVE ~mixed
  <2> SUFFICES ASSUME NEW p \in Active \ {o}, pc[p] = "saving", fd[p] = i PROVE FALSE
    OBVIOUS
  <2>1. p \in Ops /\ Careful(p) /\ n[2] \notin exposed
    BY <1>1, <1>4, SaveNames DEF Active, SInv
  <2>2. CASE dir[n] = None
    BY <1>1, <2>1, <2>2 DEF Careful, Unopened
  <2>3. CASE dir[n] # None /\ File(p) \in exposed
    BY <1>1, <2>1, <2>3 DEF Careful, OwnTemp
  <2>4. CASE dir[n] # None /\ File(p) \notin exposed
    <3>1. SaveName(p) # n /\ SaveName(p) \in Names
      BY <1>1, <2>1, <2>4, OtherNames, SaveNames
    <3>2. dir[SaveName(p)] = dir[n]
      BY <2>1, <2>4 DEF Careful, OwnTemp
    <3> QED
      BY <1>1, <2>4, <3>1, <3>2 DEF IInv, TypeOK
  <2> QED
    BY <2>2, <2>3, <2>4
<1>5. i \in Inodes /\ i # None /\ data'[i].mixed = mixed
  <2>1. i \in Inodes /\ i # None
    BY <1>1, NamesAssumption DEF IInv, TypeOK, Inodes
  <2> HIDE DEF n
  <2>2. data'[i] = [ops |-> IF Kind(o) = "append" THEN data[i].ops ELSE {},
                    whole |-> Kind(o) = "append" /\ data[i].whole, mixed |-> mixed]
    BY <1>1, <2>1 DEF Open, n, IInv, TypeOK
  <2> QED
    BY <2>1, <2>2
<1>6. OwnTemp(o)'
  <2>1. CASE File(o) \in exposed
    <3>1. n[2] \in exposed
      BY <1>1, <2>1, SaveNames
    <3>2. \A m \in Names : dir'[m] = i => m = n
      BY <1>1, <1>5 DEF IInv, TypeOK
    <3> HIDE DEF i, n
    <3> QED
      BY <1>1, <1>2, <2>1, <3>1, <3>2 DEF OwnTemp
  <2>2. CASE File(o) \notin exposed
    <3> HIDE DEF i, mixed
    <3> QED
      BY <1>1, <1>2, <1>4, <1>5, <2>2 DEF OwnTemp
  <2> QED
    BY <2>1, <2>2
<1>7. UpToDate(o)'
  <2> SUFFICES ASSUME File(o) \notin exposed
               PROVE  /\ loaded[o] = Base(o)' \cup {o}
                      /\ Kind(o) = "settings" => o \in running
    BY <1>1, <1>2 DEF UpToDate
  <2>1. F(File(o)) \in Names /\ F(File(o)) # n /\ F(File(o))[2] \notin exposed
    BY <1>1, SaveNames, Working, NameOf DEF F, Careful, Openly
  <2>2. Untouched(F(File(o)))
    BY <2>1, WriteUntouched
  <2>3. Base(o)' = Base(o)
    BY <1>1, <1>2, <2>2 DEF Base, Exists, Content, Untouched
  <2> QED
    BY <1>1, <2>3 DEF Careful, UpToDate
<1> QED
  BY <1>1, <1>3, <1>6, <1>7 DEF Careful, Unopened, SavedWhole, Cleared

\* What it has saved is whole and holds its update.
LEMMA SaveCareful == ASSUME SInv, IInv', NEW o \in Ops, Save(o) PROVE Careful(o)'
<1>1. /\ IInv /\ Careful(o) /\ pc[o] = "saving" /\ o \in Active
      /\ pc'[o] = IF InPlace(request[o]) THEN "ok" ELSE "saved"
      /\ UNCHANGED <<dir, request, loaded, running, exposed>>
  BY DEF SInv, Save, Goes, Active, IInv, TypeOK
<1>2. /\ File(o)' = File(o) /\ Kind(o)' = Kind(o) /\ SaveName(o)' = SaveName(o)
  BY <1>1 DEF File, Kind, SaveName, InPlace, F
<1>3. Openly(o)'
  BY <1>1, <1>2 DEF Careful, Openly, InPlace
<1>4. SavedWhole(o)'
  <2> SUFFICES ASSUME ~InPlace(request[o]), File(o) \notin exposed
               PROVE  LET i == dir[SaveName(o)]
                      IN  i # None /\ data'[i].whole /\ data'[i].ops = loaded[o]
    BY <1>1, <1>2 DEF SavedWhole
  <2> DEFINE i == fd[o]
  <2>1. i \in Inodes /\ i # None /\ dir[SaveName(o)] = i /\ ~data[i].mixed
    BY <1>1 DEF Careful, OwnTemp, IInv, TypeOK
  <2>2. Kind(o) # "append"
    BY DEF InPlace, Kind
  <2>3. data' = [data EXCEPT ![i].whole = TRUE, ![i].ops = loaded[o]]
    BY <2>1, <2>2 DEF Save
  <2>4. data[i] \in Holding /\ data \in [Inodes -> Holding]
    BY <1>1, <2>1 DEF IInv, TypeOK
  <2> HIDE DEF i
  <2>5. data'[i].whole /\ data'[i].ops = loaded[o]
    BY <2>1, <2>3, <2>4 DEF Holding
  <2> QED
    BY <2>1, <2>5
<1>5. UpToDate(o)'
  <2> SUFFICES ASSUME ~InPlace(request[o]), File(o) \notin exposed
               PROVE  /\ loaded[o] = Base(o)' \cup {o}
                      /\ Kind(o) = "settings" => o \in running
    BY <1>1, <1>2 DEF UpToDate
  <2>1. F(File(o)) \in Names /\ F(File(o)) # SaveName(o) /\ F(File(o))[2] \notin exposed
    BY <1>1, SaveNames, Working, NameOf DEF F
  <2>2. Untouched(F(File(o)))
    BY <2>1, WriteUntouched
  <2>3. Base(o)' = Base(o)
    BY <1>1, <1>2, <2>2 DEF Base, Exists, Content, Untouched
  <2> QED
    BY <1>1, <2>3 DEF Careful, UpToDate
<1> QED
  BY <1>1, <1>3, <1>4, <1>5 DEF Careful, Unopened, OwnTemp, Cleared

\* An operation that has ended relies on nothing.
LEMMA EndCareful ==
  ASSUME NEW o \in Ops, pc'[o] \in {"ok", "failed", "crashed"}
  PROVE  Careful(o)'
BY DEF Careful, Openly, Unopened, OwnTemp, SavedWhole, UpToDate, Cleared, Active

\* A step of o keeps what o relies on.
LEMMA SelfCareful == ASSUME SInv, IInv', NEW o \in Ops, Steps(o) PROVE Careful(o)'
<1>1. IInv /\ Careful(o) /\ pc \in [Ops -> Stages]
  BY DEF SInv, IInv, TypeOK
<1>2. CASE Reject(o) \/ SaveFails(o) \/ Rename(o) \/ MoveRenames(o)
  <2>1. pc'[o] \in {"ok", "failed", "crashed"}
    BY <1>1, <1>2 DEF Reject, SaveFails, Rename, MoveRenames, Goes
  <2> QED
    BY <2>1, EndCareful
<1>3. CASE MoveClears(o)
  <2>1. CASE pc'[o] = "failed"
    BY <2>1, EndCareful
  <2>2. CASE pc'[o] # "failed"
    <3>1. /\ pc'[o] = "cleared" /\ Kind(o) = "move" /\ pc[o] = "begun"
          /\ dir' = [dir EXCEPT ![F(File(o))] = None]
          /\ UNCHANGED <<request, fd, exposed>>
      BY <1>1, <1>3, <2>2 DEF MoveClears, Goes
    <3>2. F(File(o)) \in Names /\ File(o)' = File(o) /\ ~InPlace(request[o])
      BY <1>1, <3>1, Working, NameOf DEF File, InPlace, Kind
    <3>3. dir'[F(File(o))] = None
      BY <1>1, <3>1, <3>2 DEF IInv, TypeOK
    <3> QED
      BY <1>1, <3>1, <3>2, <3>3
      DEF Careful, Openly, Unopened, OwnTemp, SavedWhole, UpToDate, Cleared, Exists
  <2> QED
    BY <2>1, <2>2
<1> QED
  BY <1>2, <1>3, LoadCareful, OpenCareful, SaveCareful DEF Steps
\* A request that arrives exposes what another operation is at work on.
LEMMA BeginSeparates ==
  ASSUME SInv, IInv', NEW o \in Ops, NEW r \in Requests, Begin(o, r)
  PROVE  SInv'
<1>1. /\ IInv /\ pc[o] = "idle" /\ pc' = [pc EXCEPT ![o] = "begun"]
      /\ request' = [request EXCEPT ![o] = r]
      /\ UNCHANGED <<dir, data, loaded, fd, running>> /\ exposed \subseteq exposed'
      /\ r \in Request
  BY RequestsAssumption DEF SInv, Begin, Goes, disk
<1>2. /\ Active' = Active \cup {o} /\ Active \subseteq Ops /\ o \notin Active
      /\ request'[o] = r /\ \A p \in Ops \ {o} : request'[p] = request[p]
  BY <1>1 DEF Active, IInv, TypeOK
<1>3. ASSUME NEW p \in Ops, p # o
      PROVE  /\ File(p)' = File(p) /\ Kind(p)' = Kind(p) /\ SaveName(p)' = SaveName(p)
             /\ InPlace(request[p])' = InPlace(request[p])
  BY <1>2, <1>3 DEF File, Kind, SaveName, InPlace, F
<1>4. ASSUME NEW p \in Ops PROVE Careful(p)'
  <2>1. Careful(p)
    BY DEF SInv
  <2>2. CASE p = o
    <3>1. pc'[p] = "begun"
      BY <1>1, <2>2 DEF IInv, TypeOK
    <3>2. Unopened(p)'
      BY <1>1, <2>1, <2>2 DEF Careful, Unopened
    <3>3. Openly(p)'
      BY <1>1, <1>2, <2>2 DEF Begin, Openly, File
    <3> QED
      BY <3>1, <3>2, <3>3 DEF Careful, OwnTemp, SavedWhole, UpToDate, Cleared
  <2>3. CASE p # o
    <3>1. pc'[p] = pc[p] /\ (p \in Active' <=> p \in Active)
      BY <1>1, <1>2, <2>3 DEF IInv, TypeOK
    <3>2. Openly(p)' /\ Unopened(p)'
      BY <1>1, <1>3, <2>1, <2>3, <3>1 DEF Careful, Openly, Unopened
    <3>3. OwnTemp(p)'
      <4> SUFFICES ASSUME pc[p] = "saving"
                   PROVE  IF File(p) \in exposed'
                          THEN \A n \in Names : dir[n] = fd[p] => n[2] \in exposed'
                          ELSE dir[SaveName(p)] = fd[p] /\ ~data[fd[p]].mixed
        BY <1>1, <1>3, <2>3, <3>1 DEF OwnTemp
      <4>1. CASE File(p) \in exposed \/ File(p) \notin exposed'
        BY <1>1, <2>1, <4>1 DEF Careful, OwnTemp
      <4>2. CASE File(p) \notin exposed /\ File(p) \in exposed'
        <5>1. dir[SaveName(p)] = fd[p] /\ fd[p] # None /\ SaveName(p) \in Names
          BY <1>1, <2>1, <4>2, SaveNames DEF Careful, OwnTemp, IInv, TypeOK
        <5>2. \A n \in Names : dir[n] = fd[p] => n = SaveName(p)
          BY <1>1, <5>1 DEF IInv, TypeOK
        <5>3. Kind(p) # "settings"
          BY <1>1, <1>3, <2>3, <4>2, Working, FilesAssumption DEF IInv, TypeOK
        <5>4. SaveName(p)[2] = File(p)
          BY <1>1, <5>3, SaveNames
        <5> QED
          BY <4>2, <5>2, <5>4
      <4> QED
        BY <4>1, <4>2
    <3>4. SavedWhole(p)'
      BY <1>1, <1>3, <2>1, <2>3, <3>1 DEF Careful, SavedWhole
    <3>5. UpToDate(p)'
      <4>1. Base(p)' = Base(p)
        BY <1>1, <1>2, <1>3, <2>3 DEF Base, Exists, Content
      <4> QED
        BY <1>1, <1>3, <2>1, <2>3, <3>1, <4>1 DEF Careful, UpToDate
    <3>6. Cleared(p)'
      BY <1>1, <1>3, <2>1, <2>3, <3>1 DEF Careful, Cleared, Exists
    <3> QED
      BY <3>2, <3>3, <3>4, <3>5, <3>6 DEF Careful
  <2> QED
    BY <2>2, <2>3
<1>5. ASSUME NEW p \in Ops, NEW q \in Ops PROVE Alone(p, q)'
  <2>1. ASSUME NEW k \in Active
        PROVE  /\ Touches(r) \cap Touches(request[k]) \subseteq exposed'
               /\ r.kind \in OnThread \/ Kind(k) \in OnThread
    BY <1>1, <2>1 DEF Begin, Request
  <2>2. CASE p # o /\ q # o
    BY <1>1, <1>2, <1>3, <2>2 DEF SInv, Alone
  <2>3. CASE p = o /\ q # o
    BY <1>2, <1>3, <2>1, <2>3 DEF Alone, Kind
  <2>4. CASE p # o /\ q = o
    BY <1>2, <1>3, <2>1, <2>4 DEF Alone, Kind
  <2>5. CASE p = q
    BY <2>5 DEF Alone
  <2> QED
    BY <2>2, <2>3, <2>4, <2>5
<1>6. RunningAsked'
  <2>1. \A p \in running : p \in Ops /\ p # o
    BY <1>1 DEF SInv, RunningAsked, IInv, TypeOK
  <2> QED
    BY <1>1, <1>3, <2>1 DEF SInv, RunningAsked, IInv, TypeOK
<1>7. WholeFiles'
  BY <1>1 DEF SInv, WholeFiles, Exists, Content
<1>8. ConfigIsRunning'
  BY <1>1, <1>2 DEF SInv, ConfigIsRunning, Exists, Content, IInv, TypeOK
<1> QED
  BY <1>4, <1>5, <1>6, <1>7, <1>8 DEF SInv

\* After a restart nobody is at work, and the settings are those of the file.
LEMMA RestartSeparates == ASSUME SInv, IInv', Restart PROVE SInv'
<1>1. /\ IInv /\ pc' = [p \in Ops |-> IF p \in Active THEN "crashed" ELSE pc[p]]
      /\ fd' = [p \in Ops |-> None] /\ running' = Content(Config).ops
      /\ UNCHANGED <<dir, data, request, loaded, exposed>>
  BY DEF SInv, Restart, disk
<1>2. Active' = {}
  BY <1>1 DEF Active, IInv, TypeOK
<1>3. ASSUME NEW p \in Ops PROVE Careful(p)'
  <2>1. p \notin Active'
    BY <1>2
  <2>2. Unopened(p)'
    BY <1>1, NamesAssumption DEF Unopened
  <2> QED
    BY <2>1, <2>2 DEF Careful, Openly, OwnTemp, SavedWhole, UpToDate, Cleared, Active
<1>4. \A p, q \in Ops : Alone(p, q)'
  BY <1>2 DEF Alone
<1>5. running' \subseteq running /\ Content(Config)' = Content(Config)
  BY <1>1 DEF SInv, ConfigIsRunning, Content
<1>6. RunningAsked'
  BY <1>1, <1>5 DEF SInv, RunningAsked, IInv, TypeOK, Kind
<1>7. WholeFiles'
  BY <1>1 DEF SInv, WholeFiles, Exists, Content
<1>8. ConfigIsRunning'
  BY <1>1, <1>5 DEF SInv, ConfigIsRunning, Exists
<1> QED
  BY <1>3, <1>4, <1>6, <1>7, <1>8 DEF SInv

\* What is at the name of a file that is not exposed after a step of o: what was
\* there, what o has saved, what it has moved there, or nothing.
LEMMA FileStep ==
  ASSUME SInv, NEW o \in Ops, Steps(o), NEW f \in Files, f \notin exposed'
  PROVE  \/ Untouched(F(f))
         \/ /\ Rename(o) /\ f = File(o) /\ pc'[o] = "ok"
            /\ dir'[F(f)] # None /\ Content(f)'.whole /\ Content(f)'.ops = loaded[o]
         \/ MoveClears(o) /\ f = File(o) /\ pc'[o] = "cleared" /\ dir'[F(f)] = None
         \/ /\ MoveRenames(o) /\ f = File(o) /\ pc'[o] = "ok"
            /\ request[o].other \notin exposed /\ f # request[o].other
            /\ dir'[F(f)] = dir[F(request[o].other)]
            /\ dir'[F(f)] # None /\ data' = data
         \/ MoveRenames(o) /\ f = request[o].other /\ pc'[o] = "ok" /\ dir'[F(f)] = None
            /\ f # File(o)
<1>1. /\ IInv /\ Careful(o) /\ pc[o] # "idle" /\ f \notin exposed /\ o \in Active
      /\ dir \in [Names -> Inodes \cup {None}] /\ pc \in [Ops -> Stages]
      /\ F(f) \in Names /\ F(f)[2] = f
  BY StepShape, NameOf DEF SInv, Active, IInv, TypeOK, F
<1>2. SaveName(o) \in Names /\ F(f) # SaveName(o)
  BY <1>1, SaveNames DEF Careful, Openly
<1>3. F(File(o)) \in Names /\ (F(f) = F(File(o)) => f = File(o))
  BY <1>1, Working, NameOf
<1>4. CASE Open(o) \/ Save(o)
  BY <1>1, <1>2, <1>4, WriteUntouched
<1>5. CASE Reject(o) \/ Load(o) \/ SaveFails(o)
  BY <1>1, <1>2, <1>5 DEF Untouched, Reject, Load, SaveFails, disk
<1>6. CASE Rename(o)
  <2>1. CASE dir' = dir \/ f # File(o)
    BY <1>1, <1>2, <1>3, <1>6, <2>1 DEF Rename, Untouched
  <2>2. CASE dir' # dir /\ f = File(o)
    <3>1. /\ dir' = [dir EXCEPT ![F(f)] = dir[SaveName(o)], ![SaveName(o)] = None]
          /\ pc'[o] = "ok" /\ data' = data /\ pc[o] = "saved"
      BY <1>1, <1>6, <2>2 DEF Rename, Goes
    <3>2. dir'[F(f)] = dir[SaveName(o)]
      BY <1>1, <1>2, <3>1
    <3>3. LET i == dir[SaveName(o)] IN i # None /\ data[i].whole /\ data[i].ops = loaded[o]
      BY <1>1, <2>2, <3>1 DEF Careful, SavedWhole
    <3> QED
      BY <1>6, <2>2, <3>1, <3>2, <3>3 DEF Content
  <2> QED
    BY <2>1, <2>2
<1>7. CASE MoveClears(o)
  <2>1. CASE dir' = dir \/ f # File(o)
    BY <1>1, <1>3, <1>7, <2>1 DEF MoveClears, Untouched
  <2>2. CASE dir' # dir /\ f = File(o)
    BY <1>1, <1>7, <2>2 DEF MoveClears, Goes
  <2> QED
    BY <2>1, <2>2
<1>8. CASE MoveRenames(o)
  <2> DEFINE source == request[o].other
  <2>1. F(source) \in Names /\ (F(f) = F(source) => f = source) /\ pc[o] = "cleared"
    BY <1>1, <1>8, Working, NameOf DEF MoveRenames, IInv, Asked, Kind, Files
  <2>2. CASE dir' = dir
    BY <1>8, <2>2 DEF MoveRenames, Untouched
  <2>3. CASE dir' # dir
    <3>1. /\ dir' = [dir EXCEPT ![F(File(o))] = dir[F(source)], ![F(source)] = None]
          /\ exposed' = (IF source \in exposed THEN exposed \cup {File(o)} ELSE exposed)
          /\ pc'[o] = "ok" /\ data' = data /\ dir[F(source)] # None
      BY <1>1, <1>8, <2>3 DEF MoveRenames, Goes, Exists
    <3>2. CASE f # File(o) /\ f # source
      BY <1>1, <1>3, <2>1, <3>1, <3>2 DEF Untouched
    <3>3. CASE f = File(o)
      <4>1. source \notin exposed /\ f # source
        BY <1>1, <2>1, <3>1, <3>3 DEF Careful, Cleared, Exists
      <4>2. dir'[F(f)] = dir[F(source)]
        BY <1>1, <2>1, <3>1, <3>3, <4>1
      <4> QED
        BY <1>8, <3>1, <3>3, <4>1, <4>2
    <3>4. CASE f = source /\ f # File(o)
      BY <1>1, <1>8, <3>1, <3>4
    <3> QED
      BY <3>2, <3>3, <3>4
  <2> QED
    BY <2>2, <2>3
<1> QED
  BY <1>4, <1>5, <1>6, <1>7, <1>8 DEF Steps

\* A step of an operation at work keeps the files whole and the settings in line.
LEMMA StepsSeparate == ASSUME SInv, IInv', NEW o \in Ops, Steps(o) PROVE SInv'
<1>1. IInv /\ Careful(o) /\ exposed \subseteq exposed' /\ o \in Active
  BY StepShape DEF SInv
<1>2. \A p \in Ops : Careful(p)'
  BY SelfCareful, OthersCareful
<1>3. ASSUME NEW p \in Ops, NEW q \in Ops PROVE Alone(p, q)'
  <2>1. /\ Active' \subseteq Active /\ request' = request /\ exposed \subseteq exposed'
        /\ Alone(p, q)
    BY <1>1, StepShape DEF SInv
  <2> QED
    BY <2>1 DEF Alone, Kind
<1>4. \A p \in Ops : Kind(p)' = Kind(p) /\ (pc[p] # "idle" => pc'[p] # "idle")
  <2>1. pc'[o] # "idle"
    BY <1>1 DEF Steps, Reject, Load, Open, Save, SaveFails, Rename, MoveClears, MoveRenames, Goes,
       IInv, TypeOK
  <2> QED
    BY <1>1, <2>1, StepShape DEF Kind
<1>5. RunningAsked'
  <2>1. running \subseteq Ops /\ pc[o] # "idle"
    BY <1>1 DEF IInv, TypeOK, Active
  <2> QED
    BY <1>1, <1>4, <2>1, StepShape DEF SInv, RunningAsked
<1>6. WholeFiles'
  <2> SUFFICES ASSUME NEW f \in Files, f \notin exposed', Exists(f)'
               PROVE  Content(f)'.whole
    BY DEF WholeFiles
  <2>1. CASE Untouched(F(f))
    BY <1>1, <2>1 DEF SInv, WholeFiles, Untouched, Exists, Content
  <2>2. CASE /\ MoveRenames(o) /\ request[o].other \notin exposed
             /\ dir'[F(f)] = dir[F(request[o].other)] /\ data' = data
    <3>1. request[o].other \in Files
      BY <1>1, <2>2, Working DEF MoveRenames, IInv, Asked, Kind, Files
    <3> QED
      BY <2>2, <3>1 DEF SInv, WholeFiles, Exists, Content
  <2> QED
    BY <2>1, <2>2, FileStep DEF Exists
<1>7. ConfigIsRunning'
  <2>1. Config \in Files /\ Config \notin exposed'
    BY FilesAssumption DEF IInv, TypeOK, Files
  <2>2. MoveClears(o) \/ MoveRenames(o) => Kind(o) = "move"
    BY <1>1 DEF MoveClears, MoveRenames, IInv, Asked, Kind
  <2>3. Kind(o) = "settings" <=> File(o) = Config
    BY <1>1, Working DEF Active
  <2>4. Kind(o) = "move" => request[o].other # Config /\ File(o) # Config
    BY <1>1, <2>3, Working, FilesAssumption DEF Active
  <2>5. \/ Untouched(F(Config))
        \/ /\ Rename(o) /\ Kind(o) = "settings" /\ pc'[o] = "ok"
           /\ dir'[F(Config)] # None /\ Content(Config)'.ops = loaded[o]
    BY <2>1, <2>2, <2>3, <2>4, FileStep
  <2>6. CASE Untouched(F(Config))
    <3>1. Exists(Config)' /\ Content(Config)' = Content(Config)
      BY <2>6 DEF SInv, ConfigIsRunning, Untouched, Exists, Content
    <3>2. ASSUME NEW p \in running' \ Content(Config).ops
          PROVE  p \in Active' \/ pc'[p] = "failed"
      <4>1. p \in Ops /\ (p # o => p \in running)
        BY <1>1, StepShape DEF IInv, TypeOK
      <4>2. CASE p # o
        BY <1>1, <3>2, <4>1, <4>2, StepShape DEF SInv, ConfigIsRunning
      <4>3. CASE p = o
        <5>1. Kind(o) = "settings"
          BY <1>1, <3>2, <4>3, StepShape DEF SInv, RunningAsked
        <5>2. ~InPlace(request[o])
          BY <5>1 DEF InPlace, Kind
        <5>3. pc \in [Ops -> Stages]
          BY <1>1 DEF IInv, TypeOK
        <5>4. Rename(o) => pc'[o] = "failed"
          <6> SUFFICES ASSUME Rename(o), dir[SaveName(o)] # None PROVE FALSE
            BY <5>3 DEF Rename, Goes
          <6>1. loaded[o] = running \cup {o} /\ pc[o] = "saved"
            BY <1>1, <2>1, <2>3, <5>1, StepShape DEF Careful, UpToDate, Base, Rename
          <6>2. LET i == dir[SaveName(o)] IN i # None /\ data[i].ops = loaded[o]
            BY <1>1, <2>1, <2>3, <5>1, <6>1 DEF Careful, SavedWhole
          <6>3. dir'[F(Config)] = dir[SaveName(o)] /\ dir[F(Config)] # None
                /\ SaveName(o) \in Names /\ F(Config) \in Names /\ SaveName(o) # F(Config)
            BY <1>1, <2>1, <2>3, <5>1, <5>2, <6>1, SaveNames, NameOf
            DEF Rename, IInv, TypeOK, Exists
          <6> QED
            BY <1>1, <2>6, <6>3 DEF Untouched, IInv, TypeOK
        <5>5. ~MoveRenames(o) /\ ~MoveClears(o)
          BY <2>2, <5>1
        <5> QED
          BY <4>3, <5>2, <5>3, <5>4, <5>5
          DEF Steps, Reject, Load, Open, Save, SaveFails, Goes, Active
      <4> QED
        BY <4>2, <4>3
    <3>3. Content(Config).ops \subseteq running'
      BY <1>1, StepShape DEF SInv, ConfigIsRunning
    <3> QED
      BY <3>1, <3>2, <3>3 DEF ConfigIsRunning
  <2>7. CASE /\ Rename(o) /\ Kind(o) = "settings" /\ dir'[F(Config)] # None
             /\ Content(Config)'.ops = loaded[o]
    <3>1. running' = running /\ pc[o] = "saved" /\ File(o) \notin exposed
      BY <1>1, <2>1, <2>3, <2>7, StepShape DEF Rename
    <3>2. loaded[o] = running
      BY <1>1, <2>7, <3>1 DEF Careful, UpToDate, Base
    <3> QED
      BY <2>7, <3>1, <3>2 DEF ConfigIsRunning, Exists
  <2> QED
    BY <2>5, <2>6, <2>7
<1> QED
  BY <1>2, <1>3, <1>5, <1>6, <1>7 DEF SInv

\* At first there are whole files only, and no operation.
LEMMA InitiallySeparate == Init => SInv
<1> SUFFICES ASSUME Init PROVE SInv
  OBVIOUS
<1>1. IInv
  BY Initially
<1>2. Active = {} /\ running = {} /\ \A p \in Ops : pc[p] = "idle" /\ fd[p] = None
  BY DEF Init, Active
<1>3. \A p \in Ops : Careful(p)
  BY <1>2, NamesAssumption DEF Careful, Openly, Unopened, OwnTemp, SavedWhole, UpToDate, Cleared
<1>4. \A i \in Inodes : data[i].whole /\ data[i].ops = {}
  BY DEF Init
<1>5. \A f \in Files : Exists(f) => dir[F(f)] \in Inodes
  BY <1>1, NameOf DEF Exists, IInv, TypeOK
<1>6. WholeFiles
  BY <1>4, <1>5 DEF WholeFiles, Content
<1>7. ConfigIsRunning
  BY <1>1, <1>2, <1>4, <1>5 DEF ConfigIsRunning, Content, IInv, Files
<1> QED
  BY <1>1, <1>2, <1>3, <1>6, <1>7 DEF SInv, Alone, RunningAsked

\* Every step keeps operations apart.
LEMMA StaySeparate == SInv /\ [Next]_vars => SInv'
<1> SUFFICES ASSUME SInv, [Next]_vars PROVE SInv'
  OBVIOUS
<1>1. IInv'
  BY Inductive DEF SInv
<1>2. CASE UNCHANGED vars
  <2>1. \A p \in Ops : Careful(p)' <=> Careful(p)
    BY <1>2 DEF vars, disk, op, Careful, Openly, Unopened, OwnTemp, SavedWhole, UpToDate, Cleared,
       Active, File, Kind, SaveName, InPlace, F, Base, Exists, Content
  <2>2. \A p, q \in Ops : Alone(p, q)' <=> Alone(p, q)
    BY <1>2 DEF vars, op, Alone, Active, Kind
  <2>3. RunningAsked' /\ WholeFiles' /\ ConfigIsRunning'
    BY <1>2 DEF vars, disk, op, SInv, RunningAsked, WholeFiles, ConfigIsRunning, Active, Kind,
       Exists, Content
  <2> QED
    BY <1>1, <2>1, <2>2, <2>3 DEF SInv
<1>3. CASE Restart
  BY <1>1, <1>3, RestartSeparates
<1>4. ASSUME NEW o \in Ops, NEW r \in Requests, Begin(o, r) PROVE SInv'
  BY <1>1, <1>4, BeginSeparates
<1>5. ASSUME NEW o \in Ops, Steps(o) PROVE SInv'
  BY <1>1, <1>5, StepsSeparate
<1> QED
  BY <1>2, <1>3, <1>4, <1>5 DEF Next, Steps

\* Operations on a file that is not exposed stay apart, whatever fails.
THEOREM Separation == Spec => []SInv
BY InitiallySeparate, StaySeparate, PTL DEF Spec

\* _atomic_text, SettingsManager._save_config and the saves of the document plugin:
\* a file whose writers keep apart is whole after any step, failure or crash.
THEOREM FilesWhole == Spec => []WholeFiles
BY Separation, PTL DEF SInv

\* SettingsManager.set: what runs and what is in the file differ only by changes
\* that are being saved or could not be.
THEOREM SettingsInForce == Spec => []ConfigIsRunning
BY Separation, PTL DEF SInv
-----------------------------------------------------------------------------
(***************************************************************************)
(* The operations implement AtomicStore: each of their steps is one of it, *)
(* or leaves the documents and the answers alone.                          *)
(***************************************************************************)
\* At first the documents have no updates, and nobody has asked for any.
LEMMA PromiseInit == Init => Promise!Init
<1> SUFFICES ASSUME Init PROVE Promise!Init
  OBVIOUS
<1>1. \A f \in Documents : Document(f) \in {None, {}}
  <2> SUFFICES ASSUME NEW f \in Documents, Exists(f) PROVE Content(f).ops = {}
    BY DEF Document
  <2>1. dir[F(f)] \in Inodes
    BY NameOf, Initially DEF IInv, TypeOK, Files, Exists
  <2> QED
    BY <2>1 DEF Init, Content
<1>2. Keeping = {} /\ \A o \in Ops : AnswerOf(o) = "open"
  BY DEF Init, Keeping, AnswerOf
<1> QED
  BY <1>1, <1>2 DEF Init, Promise!Init

\* A document that is not exposed keeps its updates while its name is untouched.
LEMMA SameDocument ==
  ASSUME NEW f \in Documents, Untouched(F(f)), f \in exposed <=> f \in exposed'
  PROVE  Document(f)' = Document(f)
BY DEF Untouched, Document, Exists, Content

\* What is renamed over a document is what was there with the update.
LEMMA RenamePromised ==
  ASSUME SInv, NEW o \in Ops, Rename(o), NEW f \in Documents, f = File(o),
         f \notin exposed', pc'[o] = "ok"
  PROVE  Promise!Updated(o, f)
<1>1. /\ IInv /\ Careful(o) /\ exposed' = exposed /\ request' = request
      /\ pc[o] = "saved" /\ request[o] # None /\ f \in Files /\ pc \in [Ops -> Stages]
  BY DEF SInv, Rename, IInv, TypeOK, Asked, Files
<1>2. Kind(o) # "settings" /\ Kind(o)' = Kind(o)
  BY <1>1, Working, FilesAssumption DEF Kind
<1>3. AnswerOf(o) = "open" /\ AnswerOf(o)' = "ok"
  BY <1>1, <1>2 DEF AnswerOf
<1>4. dir'[F(f)] # None /\ Content(f)'.ops = loaded[o]
  <2>1. F(f) \in Names /\ SaveName(o) # F(f)
    BY <1>1, SaveNames, NameOf DEF Rename, Careful, Openly, Active
  <2>2. dir' = [dir EXCEPT ![F(f)] = dir[SaveName(o)], ![SaveName(o)] = None] /\ data' = data
    BY <1>1 DEF Rename, Goes
  <2>3. dir'[F(f)] = dir[SaveName(o)]
    BY <1>1, <2>1, <2>2 DEF IInv, TypeOK
  <2> QED
    BY <1>1, <2>2, <2>3 DEF Careful, SavedWhole, Content
<1>5. Document(f)' = loaded[o] /\ loaded[o] = Base(o) \cup {o}
  BY <1>1, <1>2, <1>4 DEF Careful, UpToDate, Document, Exists
<1>6. Base(o) = IF o \in Keeping /\ Document(f) # None THEN Document(f) ELSE {}
  <2>1. f \notin exposed /\ (Exists(f) => Content(f).ops \in SUBSET Ops)
    BY <1>1, NameOf DEF Exists, Content, IInv, TypeOK, Holding
  <2>2. Document(f) # None <=> Exists(f)
    BY <2>1, NoneIsNoUpdate DEF Document
  <2> QED
    BY <1>1, <1>2, <2>1, <2>2 DEF Base, Keeping, Document
<1> QED
  BY <1>3, <1>5, <1>6 DEF Promise!Updated, Promise!Succeeds

\* What is moved comes as it was, and leaves its old name free.
LEMMA MovePromised ==
  ASSUME SInv, NEW o \in Ops, MoveRenames(o), NEW g \in Documents, g = File(o), pc'[o] = "ok"
  PROVE  \E source \in Documents : source = request[o].other /\ Promise!Moved(o, source, g)
<1>1. /\ IInv /\ Careful(o) /\ request' = request /\ pc \in [Ops -> Stages]
      /\ request[o] # None /\ Kind(o)' = Kind(o)
  BY DEF SInv, MoveRenames, IInv, TypeOK, Asked, Kind
<1>2. PICK source \in Documents :
        /\ Kind(o) = "move" /\ source = request[o].other
        /\ F(source) \in Names /\ F(g) \in Names
  BY <1>1, Working, NameOf DEF MoveRenames, IInv, Asked, Kind, Files
<1>3. Promise!Succeeds(o)
  BY <1>1, <1>2 DEF MoveRenames, AnswerOf, Promise!Succeeds
<1>4. Exists(source) /\ dir \in [Names -> Inodes \cup {None}]
  BY <1>1, <1>2 DEF MoveRenames, Goes, IInv, TypeOK
<1>5. /\ dir' = [dir EXCEPT ![F(g)] = dir[F(source)], ![F(source)] = None]
      /\ exposed' = (IF source \in exposed THEN exposed \cup {g} ELSE exposed)
      /\ data' = data /\ pc[o] = "cleared"
  BY <1>2, <1>4 DEF MoveRenames
<1>6. Document(source)' = None
  BY <1>2, <1>4, <1>5 DEF Document, Exists
<1>7. ASSUME source \notin exposed, g \notin exposed' PROVE Document(g)' = Document(source)
  <2>1. source # g
    BY <1>1, <1>4, <1>5, <1>7 DEF Careful, Cleared
  <2>2. dir'[F(g)] = dir[F(source)]
    BY <1>2, <1>4, <1>5, <2>1, NameOf DEF Files
  <2> QED
    BY <1>5, <1>7, <2>2 DEF Document, Exists, Content
<1>8. source \in exposed => g \in exposed'
  BY <1>5
<1>9. Promise!Moved(o, source, g)
  BY <1>2, <1>3, <1>6, <1>7, <1>8 DEF Promise!Moved
<1> QED
  BY <1>2, <1>9

\* What a step of an operation does to a document, the promise allows.
LEMMA FileStepPromised ==
  ASSUME SInv, NEW o \in Ops, Steps(o), NEW f \in Documents
  PROVE  Promise!FileStep(f)
<1>1. IInv /\ exposed \subseteq exposed' /\ f \in Files /\ request' = request
  BY StepShape DEF SInv, Files
<1>2. CASE f \in exposed'
  BY <1>2 DEF Promise!FileStep, Document
<1>3. CASE f \notin exposed' /\ Untouched(F(f))
  <2>1. Document(f)' = Document(f)
    BY <1>1, <1>3, SameDocument
  <2> QED
    BY <2>1 DEF Promise!FileStep
<1>4. CASE f \notin exposed' /\ Rename(o) /\ f = File(o) /\ pc'[o] = "ok"
  BY <1>4, RenamePromised DEF Promise!FileStep
<1>5. CASE MoveClears(o) /\ pc'[o] = "cleared" /\ dir'[F(f)] = None
  <2>1. pc[o] = "begun" /\ request[o] # None /\ Kind(o) = "move" /\ Kind(o)' = Kind(o)
    BY <1>1, <1>5 DEF MoveClears, IInv, Asked, Kind
  <2>2. AnswerOf(o) = "open" /\ AnswerOf(o)' = "removed" /\ Document(f)' = None
    BY <1>1, <1>5, <2>1 DEF AnswerOf, Document, Exists
  <2> QED
    BY <2>2 DEF Promise!FileStep
<1>6. CASE MoveRenames(o) /\ pc'[o] = "ok" /\ (f = File(o) \/ f = request[o].other)
  <2>1. PICK g \in Documents : g = File(o)
    BY <1>1, <1>6, Working DEF MoveRenames, IInv, Asked, Kind, Files
  <2> QED
    BY <1>6, <2>1, MovePromised DEF Promise!FileStep
<1> QED
  BY <1>1, <1>2, <1>3, <1>4, <1>5, <1>6, FileStep

\* Nor does a step answer what is not so.
LEMMA AnswerStepPromised ==
  ASSUME SInv, IInv', NEW o \in Ops, Steps(o), NEW p \in Ops
  PROVE  Promise!AnswerStep(p)
<1>1. /\ IInv /\ Careful(o) /\ exposed \subseteq exposed' /\ request' = request
      /\ pc[o] \in {"begun", "loaded", "saving", "saved", "cleared"}
      /\ request[o] # None /\ File(o) \in Files /\ pc \in [Ops -> Stages] /\ o \in Active
  BY StepShape, Working DEF SInv, Active, IInv, TypeOK, Asked
<1>2. \A q \in Ops : Kind(q)' = Kind(q)
  BY <1>1 DEF Kind
<1>3. CASE p # o \/ Kind(o) = "settings"
  <2>1. AnswerOf(p)' = AnswerOf(p)
    BY <1>1, <1>2, <1>3, StepShape DEF AnswerOf
  <2> QED
    BY <2>1 DEF Promise!AnswerStep
<1>4. CASE p = o /\ Kind(o) # "settings"
  <2>1. AnswerOf(o) = IF pc[o] = "cleared" THEN "removed" ELSE "open"
    BY <1>1, <1>4 DEF AnswerOf
  <2>2. CASE pc'[o] = "failed"
    BY <1>1, <1>2, <1>4, <2>1, <2>2 DEF AnswerOf, Promise!AnswerStep
  <2>3. CASE pc'[o] = "cleared"
    <3>1. MoveClears(o) /\ pc[o] = "begun"
      BY <1>1, <2>3
      DEF Steps, Reject, Load, Open, Save, SaveFails, Rename, MoveClears, MoveRenames, Goes
    <3> QED
      BY <1>1, <1>2, <1>4, <2>1, <2>3, <3>1 DEF AnswerOf, Promise!AnswerStep
  <2>4. CASE pc'[o] \in {"loaded", "saving", "saved"}
    <3>1. pc[o] # "cleared"
      BY <1>1, <2>4
      DEF Steps, Reject, Load, Open, Save, SaveFails, Rename, MoveClears, MoveRenames, Goes
    <3> QED
      BY <1>1, <1>2, <1>4, <2>1, <2>4, <3>1 DEF AnswerOf, Promise!AnswerStep
  <2>5. CASE pc'[o] = "ok"
    <3>1. Promise!Succeeds(o)
      BY <1>1, <1>2, <1>4, <2>1, <2>5 DEF AnswerOf, Promise!Succeeds
    <3>2. PICK g \in Documents : g = File(o)
      BY <1>1, <1>4, Working DEF Active, Files
    <3>3. CASE g \in exposed'
      BY <1>4, <3>1, <3>3 DEF Promise!AnswerStep
    <3>4. CASE g \notin exposed'
      <4>1. ~Save(o)
        BY <1>1, <2>5, <3>2, <3>4 DEF Save, Goes, Careful, Openly
      <4>2. CASE Rename(o)
        <5>1. Promise!Updated(o, g)
          BY <2>5, <3>2, <3>4, <4>2, RenamePromised
        <5> QED
          BY <1>4, <5>1 DEF Promise!AnswerStep
      <4>3. CASE MoveRenames(o)
        <5>1. \E source \in Documents : Promise!Moved(o, source, g)
          BY <2>5, <3>2, <4>3, MovePromised
        <5> QED
          BY <1>4, <5>1 DEF Promise!AnswerStep
      <4> QED
        BY <1>1, <2>5, <4>1, <4>2, <4>3
        DEF Steps, Reject, Load, Open, SaveFails, MoveClears, Goes
    <3> QED
      BY <3>3, <3>4
  <2>6. pc'[o] \in {"loaded", "saving", "saved", "cleared", "ok", "failed"}
    BY <1>1 DEF Steps, Reject, Load, Open, Save, SaveFails, Rename, MoveClears, MoveRenames, Goes
  <2> QED
    BY <2>2, <2>3, <2>4, <2>5, <2>6
<1> QED
  BY <1>3, <1>4

\* Every step of the node is one that the promise allows.
LEMMA StepPromised == SInv /\ SInv' /\ [Next]_vars => [Promise!Next]_Promise!vars
<1> SUFFICES ASSUME SInv, SInv', [Next]_vars PROVE [Promise!Next]_Promise!vars
  OBVIOUS
<1>1. /\ IInv /\ IInv' /\ exposed' \subseteq Documents
  BY DEF SInv, IInv, TypeOK
<1>2. CASE UNCHANGED vars
  <2>1. /\ \A f \in Documents : Document(f)' = Document(f)
        /\ Keeping' = Keeping /\ \A o \in Ops : AnswerOf(o)' = AnswerOf(o)
        /\ exposed' = exposed
    BY <1>2 DEF vars, disk, op, Document, Exists, Content, Keeping, AnswerOf, Kind
  <2> QED
    BY <2>1 DEF Promise!vars
<1>3. CASE Restart
  <2>1. /\ \A f \in Documents : Document(f)' = Document(f)
        /\ Keeping' = Keeping /\ exposed' = exposed
    BY <1>3 DEF Restart, disk, Document, Exists, Content, Keeping, Kind
  <2>2. \A o \in Ops : \/ AnswerOf(o)' = AnswerOf(o)
                       \/ AnswerOf(o) \in {"open", "removed"} /\ AnswerOf(o)' = "lost"
    BY <1>1, <1>3 DEF Restart, AnswerOf, Active, Kind, IInv, TypeOK
  <2> QED
    BY <1>1, <2>1, <2>2 DEF Promise!Next, Promise!FileStep, Promise!AnswerStep, Keeping
<1>4. ASSUME NEW o \in Ops, NEW r \in Requests, Begin(o, r) PROVE Promise!Next
  <2>1. /\ pc[o] = "idle" /\ pc' = [pc EXCEPT ![o] = "begun"]
        /\ request' = [request EXCEPT ![o] = r] /\ request[o] = None
        /\ dir' = dir /\ data' = data /\ exposed \subseteq exposed'
    BY <1>1, <1>4 DEF Begin, Goes, disk, IInv, Asked
  <2>2. \A p \in Ops : AnswerOf(p)' = AnswerOf(p)
    BY <1>1, <2>1 DEF AnswerOf, Kind, IInv, TypeOK
  <2>3. \A f \in Documents : f \in exposed' \/ Document(f)' = Document(f)
    BY <2>1 DEF Document, Exists, Content
  <2>4. \A f \in exposed' : Document(f)' = None
    BY DEF Document
  <2>5. Keeping \subseteq Keeping' /\ Keeping' \subseteq Ops
    BY <1>1, <2>1 DEF Keeping, Kind, IInv, TypeOK
  <2> QED
    BY <1>1, <2>1, <2>2, <2>3, <2>4, <2>5 DEF Promise!Next, Promise!FileStep, Promise!AnswerStep
<1>5. ASSUME NEW o \in Ops, Steps(o) PROVE Promise!Next
  <2>1. request' = request /\ exposed \subseteq exposed'
    BY <1>1, <1>5, StepShape
  <2>2. Keeping' = Keeping /\ Keeping \subseteq Ops
    BY <2>1 DEF Keeping, Kind
  <2> QED
    BY <1>1, <1>5, <2>1, <2>2, FileStepPromised, AnswerStepPromised DEF Promise!Next
<1> QED
  BY <1>2, <1>3, <1>4, <1>5 DEF Next, Steps

\* Documents whose writers keep away from each other are updated atomically.
THEOREM Implementation == Spec => KeepsDocuments
BY PromiseInit, StepPromised, Separation, PTL DEF Spec, KeepsDocuments, Promise!Spec
=============================================================================
