------------------------------ MODULE FileStore ------------------------------
(***************************************************************************)
(* The operations of an AgentNode that write whole files: the document     *)
(* plugin, whose endpoints run on threads, and the file endpoints and the  *)
(* settings, which run on the event loop one at a time.                    *)
(*                                                                         *)
(* A file is an inode with a name.  What an inode holds is the set of      *)
(* operations whose updates are in it, and whether it is whole or torn.  A *)
(* step is one system call or one load or save of a library, so that       *)
(* threads, the loop and a crash of the process meet between any two.      *)
(***************************************************************************)
EXTENDS Integers, FiniteSets

CONSTANTS
  Documents,   \* files that clients work on
  Config,      \* the configuration file
  Existing,    \* those of the documents that exist at first
  Ops,         \* operations, one request each
  Requests,    \* what clients ask for
  Faults,      \* "disk": a save fails; "crash": the process dies
  None

Files == Documents \cup {Config}

\* edit: xlsx_set_range (which may make the file), xlsx_append_rows, docx_replace;
\* create: docx_create; merge: pdf_merge of other; write, inplace and append:
\* FileManager.write; replace: FileManager.replace; move: from other to file;
\* settings: SettingsManager.set.
OnThread == {"edit", "create", "merge"}
OnLoop == {"write", "inplace", "append", "replace", "move", "settings"}
Request == [kind : OnThread \cup OnLoop, file : Files, other : Documents \cup {None},
            flag : BOOLEAN]    \* flag: create of an edit, overwrite of a move

ASSUME FilesAssumption == Config \notin Documents /\ Existing \subseteq Documents
ASSUME NamesAssumption == Files \cap Ops = {} /\ None \notin Files \cup Ops
ASSUME RequestsAssumption ==
  /\ Requests \subseteq Request /\ None \notin Requests
  /\ \A r \in Requests : r.kind = "settings" <=> r.file = Config
  /\ \A r \in Requests : r.kind \in {"merge", "move"} <=> r.other # None
ASSUME NoneIsNoUpdate == \A S \in SUBSET Ops : S # None
ASSUME FaultsAssumption == Faults \subseteq {"disk", "crash"}

Inodes == Files \cup Ops     \* those there are at first, and one an operation may make
Names == ({"file", "tmp", "atomic"} \X Files) \cup ({"settings"} \X Ops)

VARIABLES
  dir,         \* dir[n]: the inode of name n, None when there is no such file
  data,        \* data[i]: what inode i holds; mixed: two writers were at it
  request,     \* request[o]: what o was asked for
  pc,          \* pc[o]: how far it has come
  loaded,      \* loaded[o]: the updates in the content it has in memory
  fd,          \* fd[o]: the inode it has open for writing
  running,     \* the settings in memory: updates
  exposed      \* history: documents whose writers overlapped, or wrote in place

disk == <<dir, data>>
op == <<request, pc, loaded, fd>>
vars == <<disk, op, running, exposed>>

F(f) == <<"file", f>>
Exists(f) == dir[F(f)] # None
Content(f) == data[dir[F(f)]]

Init ==
  /\ dir = [n \in Names |-> IF \E f \in Existing \cup {Config} : n = F(f) THEN n[2] ELSE None]
  /\ data = [i \in Inodes |-> [ops |-> {}, whole |-> TRUE, mixed |-> FALSE]]
  /\ request = [o \in Ops |-> None] /\ pc = [o \in Ops |-> "idle"]
  /\ loaded = [o \in Ops |-> {}] /\ fd = [o \in Ops |-> None]
  /\ running = {} /\ exposed = {}

Active == {o \in Ops : pc[o] \in {"begun", "loaded", "saving", "saved", "cleared"}}
Goes(o, where) == pc' = [pc EXCEPT ![o] = where]
Kind(o) == request[o].kind
File(o) == request[o].file

(***************************************************************************)
(* The life of an operation.                                               *)
(***************************************************************************)
Touches(r) == IF r.kind = "move" THEN {r.file, r.other} ELSE {r.file}
InPlace(r) == r.kind \in {"inplace", "append"}

\* The request arrives; the loop serves one at a time, threads serve any number.
Begin(o, r) ==
  /\ pc[o] = "idle"
  /\ r.kind \in OnLoop => \A p \in Active : Kind(p) \in OnThread
  /\ request' = [request EXCEPT ![o] = r]
  /\ Goes(o, "begun")
  /\ exposed' = exposed
       \cup (Touches(r) \cap UNION {Touches(request[p]) : p \in Active})
       \cup (IF InPlace(r) THEN {r.file} ELSE {})
  /\ UNCHANGED <<disk, loaded, fd, running>>

\* A check fails, or the content that was read is not as it has to be.
Reject(o) ==
  /\ \/ pc[o] = "begun" /\ Kind(o) # "move"
     \/ pc[o] = "loaded" /\ Kind(o) \in {"edit", "replace"}
  /\ Goes(o, "failed")
  /\ UNCHANGED <<disk, request, loaded, fd, running, exposed>>

\* A document must be there and be readable, unless an edit may make it.
Loadable(o) ==
  LET Readable(f) == Exists(f) /\ Content(f).whole IN
  CASE Kind(o) = "edit" -> Readable(File(o)) \/ (request[o].flag /\ ~Exists(File(o)))
    [] Kind(o) = "replace" -> Exists(File(o))
    [] Kind(o) = "merge" -> Readable(request[o].other)
    [] OTHER -> TRUE

\* Variant: a flag to make the file makes a new one over an old one.
BaseFresh(o) ==
  CASE Kind(o) \in {"edit", "replace"} /\ Exists(File(o)) /\ ~request[o].flag -> Content(File(o)).ops
    [] Kind(o) = "settings" -> running
    [] OTHER -> {}
\* What the new content is made from.
Base(o) ==
  CASE Kind(o) \in {"edit", "replace"} /\ Exists(File(o)) -> Content(File(o)).ops
    [] Kind(o) = "settings" -> running
    [] OTHER -> {}

\* Variant: the settings in memory change only with the next start.
LoadUnapplied(o) ==
  /\ pc[o] = "begun" /\ Kind(o) # "move" /\ Loadable(o)
  /\ loaded' = [loaded EXCEPT ![o] = Base(o) \cup {o}]
  /\ Goes(o, "loaded")
  /\ UNCHANGED <<disk, request, fd, exposed, running>>
\* The content is loaded and updated in memory.  The running settings change here,
\* before anything is saved.
Load(o) ==
  /\ pc[o] = "begun" /\ Kind(o) # "move" /\ Loadable(o)
  /\ loaded' = [loaded EXCEPT ![o] = Base(o) \cup {o}]
  /\ running' = IF Kind(o) = "settings" THEN running \cup {o} ELSE running
  /\ Goes(o, "loaded")
  /\ UNCHANGED <<disk, request, fd, exposed>>

\* Variant: an operation of the loop saves to the file itself.
SaveNameInPlace(o) ==
  IF InPlace(request[o]) \/ Kind(o) \in {"write", "replace"} THEN F(File(o))
  ELSE IF Kind(o) = "settings" THEN <<"settings", o>> ELSE <<"tmp", File(o)>>
\* Where it saves: the documents share one temporary name per file, the settings
\* take a fresh one each time.
SaveName(o) ==
  CASE InPlace(request[o]) -> F(File(o))
    [] Kind(o) \in {"write", "replace"} -> <<"atomic", File(o)>>
    [] Kind(o) = "settings" -> <<"settings", o>>
    [] OTHER -> <<"tmp", File(o)>>

\* That is opened and, but for an append, emptied, whoever else has it open.
Open(o) ==
  LET n == SaveName(o)
      i == IF dir[n] = None THEN o ELSE dir[n]
  IN
  /\ pc[o] = "loaded"
  /\ dir' = [dir EXCEPT ![n] = i]
  /\ data' = [data EXCEPT ![i] =
       [ops |-> IF Kind(o) = "append" THEN @.ops ELSE {},
        whole |-> Kind(o) = "append" /\ @.whole,
        mixed |-> \E p \in Active \ {o} : pc[p] = "saving" /\ fd[p] = i]]
  /\ fd' = [fd EXCEPT ![o] = i]
  /\ Goes(o, "saving")
  /\ UNCHANGED <<request, loaded, running, exposed>>

\* All is written and closed.  Two writers that were at it together leave
\* something that may or may not be a file of its kind.
Save(o) ==
  LET i == fd[o] IN
  /\ pc[o] = "saving"
  /\ \E whole \in IF data[i].mixed THEN BOOLEAN
                  ELSE {Kind(o) # "append" \/ data[i].whole} :
       data' = [data EXCEPT ![i].whole = whole,
                            ![i].ops = IF Kind(o) = "append" THEN @ \cup {o} ELSE loaded[o]]
  /\ fd' = [fd EXCEPT ![o] = None]
  /\ Goes(o, IF InPlace(request[o]) THEN "ok" ELSE "saved")
  /\ UNCHANGED <<dir, request, loaded, running, exposed>>

\* Variant: an error while saving does not keep the temporary file from its place.
SaveFailsAndReplaces(o) ==
  /\ "disk" \in Faults
  /\ pc[o] = "saving"
  /\ dir' = [dir EXCEPT ![SaveName(o)] = None, ![F(File(o))] = fd[o]]
  /\ fd' = [fd EXCEPT ![o] = None]
  /\ Goes(o, "failed")
  /\ UNCHANGED <<data, request, loaded, running, exposed>>
\* The disk is full: the error goes to the client and what there is of the
\* temporary file stays, but for that of the settings.
SaveFails(o) ==
  /\ "disk" \in Faults
  /\ pc[o] = "saving"
  /\ dir' = IF Kind(o) = "settings" THEN [dir EXCEPT ![SaveName(o)] = None] ELSE dir
  /\ fd' = [fd EXCEPT ![o] = None]
  /\ Goes(o, "failed")
  /\ UNCHANGED <<data, request, loaded, running, exposed>>

\* The temporary file takes the place of the file, if nobody else has moved it there.
Rename(o) ==
  /\ pc[o] = "saved"
  /\ IF dir[SaveName(o)] = None THEN Goes(o, "failed") /\ UNCHANGED dir
     ELSE /\ dir' = [dir EXCEPT ![F(File(o))] = dir[SaveName(o)], ![SaveName(o)] = None]
          /\ Goes(o, "ok")
  /\ UNCHANGED <<data, request, loaded, fd, running, exposed>>

\* FileManager.move removes what is in its way before it looks at its source.
MoveClears(o) ==
  /\ pc[o] = "begun" /\ Kind(o) = "move"
  /\ IF Exists(File(o)) /\ ~request[o].flag THEN Goes(o, "failed") /\ UNCHANGED dir
     ELSE Goes(o, "cleared") /\ dir' = [dir EXCEPT ![F(File(o))] = None]
  /\ UNCHANGED <<data, request, loaded, fd, running, exposed>>

MoveRenames(o) ==
  LET source == request[o].other IN
  /\ pc[o] = "cleared"
  /\ IF ~Exists(source) THEN Goes(o, "failed") /\ UNCHANGED <<dir, exposed>>
     ELSE /\ dir' = [dir EXCEPT ![F(File(o))] = dir[F(source)], ![F(source)] = None]
          /\ exposed' = IF source \in exposed THEN exposed \cup {File(o)} ELSE exposed
          /\ Goes(o, "ok")
  /\ UNCHANGED <<data, request, loaded, fd, running>>

\* The process dies and the node starts again, with the settings of the file.
Restart ==
  /\ "crash" \in Faults
  /\ Active # {}
  /\ pc' = [o \in Ops |-> IF o \in Active THEN "crashed" ELSE pc[o]]
  /\ fd' = [o \in Ops |-> None]
  /\ running' = Content(Config).ops
  /\ UNCHANGED <<disk, request, loaded, exposed>>

Next ==
  \/ Restart
  \/ \E o \in Ops :
       \/ \E r \in Requests : Begin(o, r)
       \/ Reject(o) \/ Load(o) \/ Open(o) \/ Save(o) \/ SaveFails(o) \/ Rename(o)
       \/ MoveClears(o) \/ MoveRenames(o)

Spec == Init /\ [][Next]_vars

-----------------------------------------------------------------------------
(***************************************************************************)
(* Properties.                                                             *)
(***************************************************************************)
Holding == [ops : SUBSET Ops, whole : BOOLEAN, mixed : BOOLEAN]

\* Every variable has its type; an inode has at most one name, and only an operation
\* that is saving has one open.
TypeOK ==
  /\ dir \in [Names -> Inodes \cup {None}]
  /\ \A m, n \in Names : m # n /\ dir[m] = dir[n] => dir[m] = None
  /\ data \in [Inodes -> Holding]
  /\ request \in [Ops -> Requests \cup {None}]
  /\ pc \in [Ops -> {"idle", "begun", "loaded", "saving", "saved", "cleared",
                     "ok", "failed", "crashed"}]
  /\ loaded \in [Ops -> SUBSET Ops] /\ fd \in [Ops -> Inodes \cup {None}]
  /\ \A o \in Ops : pc[o] = "saving" <=> fd[o] # None
  /\ running \subseteq Ops /\ exposed \subseteq Documents

\* At every moment, also after a crash between any two system calls or a disk that
\* fills up, a file is whole, unless its writers overlapped or wrote in place.  The
\* configuration file always is: the node can start.
WholeFiles == \A f \in Files \ exposed : Exists(f) => Content(f).whole

\* The settings a node runs with are those of its file, but for changes it is just
\* saving and changes it could not save, which a restart forgets.
ConfigIsRunning ==
  /\ Exists(Config)
  /\ Content(Config).ops \subseteq running
  /\ \A o \in running \ Content(Config).ops : o \in Active \/ pc[o] = "failed"

\* A document that is not exposed, as the promise sees it: the updates in it.
Document(f) == IF f \in exposed \/ ~Exists(f) THEN None ELSE Content(f).ops
Keeping == {o \in Ops : request[o] # None /\ Kind(o) \in {"edit", "replace"}}
AnswerOf(o) ==
  IF request[o] = None \/ Kind(o) = "settings" THEN "open"
  ELSE CASE pc[o] = "ok" -> "ok" [] pc[o] = "failed" -> "error" [] pc[o] = "crashed" -> "lost"
         [] pc[o] = "cleared" -> "removed" [] OTHER -> "open"

Promise == INSTANCE AtomicStore WITH
  Files <- Documents,
  file <- [f \in Documents |-> Document(f)],
  keeps <- Keeping,
  answer <- [o \in Ops |-> AnswerOf(o)]

\* Documents whose writers keep away from each other are updated atomically: no
\* update is lost or done by halves, failures and crashes leave nothing behind.
KeepsDocuments == Promise!Spec
=============================================================================
