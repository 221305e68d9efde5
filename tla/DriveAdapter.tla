---------------------------- MODULE DriveAdapter ----------------------------
(***************************************************************************)
(* internal/adapter/gdrive/gdrive.go: adapters that map paths to the ids   *)
(* of Google Drive.  Drive knows no paths: a file or folder has an id that *)
(* is never used twice, a name and a parent, and a folder may hold several *)
(* of one name.  Each adapter belongs to a process of its own and keeps    *)
(* the ids it has met in its idCache; every request to Drive is a step,    *)
(* and other adapters' requests come between.  Full paths are sequences of *)
(* names from the top of Drive, relative ones from the adapter's root.     *)
(***************************************************************************)
EXTENDS Naturals, Sequences, FiniteSets

CONSTANTS
  Adapter,
  Name,         \* names of files and folders
  Root,         \* Root[a]: the full path of the endpoint's root
  FolderPaths,  \* relative paths that callers make folders of ...
  FilePaths,    \* ... and that they write: the planner mixes the two up never
  Dot,          \* the name "."
  NoContent,
  NoId,
  CallKinds,    \* CallKinds[a]: which of the adapter's methods a's process calls
  MaxIds,       \* bound: files and folders Drive ever holds
  MaxCalls      \* MaxCalls[a]: bound on the calls of a, its restarts and its
                \* failures included

Path == FolderPaths \cup FilePaths

Prefixes(s) == {SubSeq(s, 1, n) : n \in 0..Len(s)}
Key == (UNION {Prefixes(Root[a] \o p) : a \in Adapter, p \in Path}) \cup {<<>>, <<Dot>>}

Kinds == {"list", "read", "write", "delete", "stat", "mkdir", "exists"}

Top == 0                    \* the id "root"
Id == 1..MaxIds

ASSUME DriveAssumption ==
  /\ MaxIds \in Nat /\ MaxCalls \in [Adapter -> Nat]
  /\ Root \in [Adapter -> Seq(Name)] /\ Path \subseteq Seq(Name) /\ Dot \in Name
  /\ CallKinds \in [Adapter -> SUBSET Kinds]
  /\ Path # {} /\ <<>> \notin Path /\ FolderPaths \cap FilePaths = {}
  /\ \A p \in FilePaths, q \in Path : p \in Prefixes(q) => p = q
  /\ NoId \notin Id \cup {Top}

Content == (Adapter \X Nat) \cup {NoContent}

Free == [state |-> "free"]
Gone == [state |-> "gone"]
Node(name, parent, kind, content) ==
  [state |-> "live", name |-> name, parent |-> parent, kind |-> kind, content |-> content]

VARIABLES
  remote,      \* remote[i]: what Drive has under id i
  cache,       \* cache[a]: a.cache, from full paths to ids
  op,          \* op[a]: the call of a, the last one while a is idle
  pc,          \* pc[a]: "closed", "idle", or the loop the call is in
  dir,         \* dir[a]: the full path getOrCreateFolderID is asked for
  n,           \* n[a]: how many parts of the path the loop has behind it
  cur,         \* cur[a]: currentID
  answer,      \* answer[a]: what the last call returned
  calls,       \* calls[a]: calls a has made
  changers,    \* history: the adapters that have changed anything
  overlapped,  \* history: two calls have been in progress at once
  orderly,     \* history: nobody deleted a folder that held something
  quiet        \* history: quiet[a] while nobody else changes anything, from
               \* the beginning of a's call to the beginning of its next

vars == <<remote, cache, op, pc, dir, n, cur, answer, calls, changers, overlapped, orderly, quiet>>

Live == {i \in Id : remote[i].state = "live"}
IsFolder(i) == i = Top \/ (i \in Live /\ remote[i].kind = "folder")
IsFile(i) == i \in Live /\ remote[i].kind = "file"
IsGone(i) == i # Top /\ i \notin Live

(* what a query by name and parent may return *)
Children(parent, name) == {i \in Live : remote[i].parent = parent /\ remote[i].name = name}

(* the ids a full path leads to *)
IdsAt(full) ==
  LET at[k \in 0..Len(full)] ==
        IF k = 0 THEN {Top} ELSE UNION {Children(i, full[k]) : i \in at[k - 1]}
  IN  at[Len(full)]

(* i and all it holds, however deep *)
Subtree(i) ==
  LET below[k \in 0..MaxIds] ==
        IF k = 0 THEN {i}
        ELSE LET above == below[k - 1] IN above \cup {j \in Live : remote[j].parent \in above}
  IN  below[MaxIds]

(* ids are given out in turn *)
Given == {i \in Id : remote[i] # Free}
NextId == Cardinality(Given) + 1

TypeOK ==
  /\ remote \in [Id -> {Free, Gone} \cup
                       [state : {"live"}, name : Name, parent : Id \cup {Top},
                        kind : {"folder", "file"}, content : Content]]
  /\ Given = 1..Cardinality(Given)
  /\ \A i \in Live : remote[i].parent \in Live \cup {Top}
  /\ cache \in [Adapter -> [Key -> Given \cup {Top, NoId}]]
  /\ op \in [Adapter -> [kind : Kinds \cup {"open"}, path : Path \cup {<<>>}, content : Content]]
  /\ pc \in [Adapter -> {"closed", "idle", "lookup", "folders", "mkfolder"}]
  /\ n \in [Adapter -> Nat] /\ cur \in [Adapter -> Given \cup {Top}]
  /\ dir \in [Adapter -> Key]
  /\ answer \in [Adapter -> [result : {"none", "ok", "notfound", "error", "failed"},
                             got : Content]]
  /\ calls \in [Adapter -> Nat] /\ \A a \in Adapter : calls[a] <= MaxCalls[a]
  /\ changers \subseteq Adapter /\ overlapped \in BOOLEAN /\ orderly \in BOOLEAN
  /\ quiet \in [Adapter -> BOOLEAN]

-----------------------------------------------------------------------------
(* joinPath.  path.Join gives "/root/a" under a root, but "a" under the    *)
(* root "", where the cache has "/a": there no path is found in the cache, *)
(* nor deleted from it, and path.Dir makes "." of "a".                     *)
Named(a) == Root[a] # <<>>
Full(a) == Root[a] \o op[a].path
DirOf(a) == IF Len(Full(a)) > 1 THEN SubSeq(Full(a), 1, Len(Full(a)) - 1) ELSE <<Dot>>

Cached(a, full) == IF Named(a) \/ full = <<>> THEN cache[a][full] ELSE NoId
Remember(a, full, id) == cache' = [cache EXCEPT ![a][full] = id]

Forget(a) == cache' = [cache EXCEPT ![a] = [k \in Key |-> NoId]]

Goto(a, label) == pc' = [pc EXCEPT ![a] = label]
At(a, k, id) == n' = [n EXCEPT ![a] = k] /\ cur' = [cur EXCEPT ![a] = id]
Return(a, result, got) ==
  /\ Goto(a, IF op[a].kind = "open" /\ result # "ok" THEN "closed" ELSE "idle")
  /\ answer' = [answer EXCEPT ![a] = [result |-> result, got |-> got]]
  /\ n' = [n EXCEPT ![a] = 0] /\ cur' = [cur EXCEPT ![a] = Top]
  /\ dir' = [dir EXCEPT ![a] = <<>>]

(* a changes what Drive holds                                              *)
Change(a, new) ==
  /\ remote' = new
  /\ changers' = changers \cup {a}
  /\ quiet' = [b \in Adapter |-> quiet[b] /\ b = a]
  /\ UNCHANGED overlapped

(* a makes a file or folder, which gets the next id                        *)
Make(a, node) == NextId \in Id /\ Change(a, [remote EXCEPT ![NextId] = node])

history == <<changers, overlapped, orderly, quiet>>

-----------------------------------------------------------------------------
(* getOrCreateFolderID begins: the whole path may be in the cache.         *)
EnterFolders(a, full) ==
  /\ Goto(a, "folders")
  /\ dir' = [dir EXCEPT ![a] = full]
  /\ IF full # <<>> /\ Cached(a, full) # NoId THEN At(a, Len(full), Cached(a, full))
     ELSE At(a, 0, Top)

(* getFileID begins. *)
EnterLookup(a, full) ==
  /\ Goto(a, "lookup")
  /\ IF Cached(a, full) # NoId THEN At(a, Len(full), Cached(a, full)) ELSE At(a, 0, Top)
  /\ UNCHANGED dir

Begin(a, kind, path, content) ==
  /\ op' = [op EXCEPT ![a] = [kind |-> kind, path |-> path, content |-> content]]
  /\ answer' = [answer EXCEPT ![a] = [result |-> "none", got |-> NoContent]]
  /\ quiet' = [quiet EXCEPT ![a] = TRUE]
  /\ overlapped' = (overlapped \/ \E b \in Adapter \ {a} : pc[b] \notin {"idle", "closed"})

(* New: the root is resolved or made.                                      *)
Open(a) ==
  /\ pc[a] = "closed"
  /\ Begin(a, "open", <<>>, NoContent)
  /\ EnterFolders(a, Root[a])
  /\ UNCHANGED <<remote, cache, calls, changers, orderly>>

(* the process ends: the cache goes with it                                *)
Restart(a) ==
  /\ pc[a] = "idle" /\ calls[a] < MaxCalls[a]
  /\ calls' = [calls EXCEPT ![a] = @ + 1]
  /\ Goto(a, "closed")
  /\ Forget(a)
  /\ UNCHANGED <<remote, op, dir, n, cur, answer, history>>

(* Mkdir goes straight to the folders, every other call looks its path up. *)
(* Every Write writes something new.                                       *)
Call(a, kind, path) ==
  /\ pc[a] = "idle" /\ calls[a] < MaxCalls[a] /\ kind \in CallKinds[a]
  /\ calls' = [calls EXCEPT ![a] = @ + 1]
  /\ Begin(a, kind, path, IF kind = "write" THEN <<a, calls'[a]>> ELSE NoContent)
  /\ IF kind = "mkdir" THEN EnterFolders(a, Root[a] \o path)
     ELSE EnterLookup(a, Root[a] \o path)
  /\ UNCHANGED <<remote, cache, changers, orderly>>

(* Slip: whatever the look-up says, Write makes a new file. *)
FindPartNever(a) ==
  LET full == Full(a) IN
  /\ pc[a] = "lookup" /\ n[a] < Len(full)
  /\ UNCHANGED <<remote, cache, op, calls, history>>
  /\ IF op[a].kind = "write" THEN EnterFolders(a, DirOf(a)) /\ UNCHANGED answer
     ELSE Return(a, "notfound", NoContent)

(* getFileID, one query: any of the entries of that name will do.          *)
FindPart(a) ==
  LET full == Full(a)
      found == Children(cur[a], full[n[a] + 1]) IN
  /\ pc[a] = "lookup" /\ n[a] < Len(full)
  /\ UNCHANGED <<remote, op, calls, history>>
  /\ \/ \E i \in found :
          /\ At(a, n[a] + 1, i)
          /\ Remember(a, SubSeq(full, 1, n[a] + 1), i)
          /\ UNCHANGED <<pc, dir, answer>>
     \/ /\ found = {} /\ UNCHANGED cache
        /\ IF op[a].kind = "write" THEN EnterFolders(a, DirOf(a)) /\ UNCHANGED answer
           ELSE Return(a, "notfound", NoContent)

(* getOrCreateFolderID passes over the parts the cache knows: how many     *)
(* parts are behind it then, and which folder it is in.                    *)
Passed(a) ==
  CHOOSE k \in n[a]..Len(dir[a]) :
    /\ k = Len(dir[a]) \/ cache[a][SubSeq(dir[a], 1, k + 1)] = NoId
    /\ \A j \in n[a] + 1..k : cache[a][SubSeq(dir[a], 1, j)] # NoId
InFolder(a) == IF Passed(a) = n[a] THEN cur[a] ELSE cache[a][SubSeq(dir[a], 1, Passed(a))]
FoldersDone(a) == pc[a] = "folders" /\ Passed(a) = Len(dir[a])

(* one query for a folder *)
FindFolder(a) ==
  LET found == {i \in Children(InFolder(a), dir[a][Passed(a) + 1]) : IsFolder(i)} IN
  /\ pc[a] = "folders" /\ ~FoldersDone(a)
  /\ \/ \E i \in found :
          /\ At(a, Passed(a) + 1, i)
          /\ Remember(a, SubSeq(dir[a], 1, Passed(a) + 1), i)
          /\ UNCHANGED pc
     \/ /\ found = {}
        /\ At(a, Passed(a), InFolder(a))
        /\ Goto(a, "mkfolder")
        /\ UNCHANGED cache
  /\ UNCHANGED <<remote, op, dir, answer, calls, history>>

(* Slip: the new folder is remembered under the path of its parent. *)
MakeFolderOffByOne(a) ==
  /\ pc[a] = "mkfolder"
  /\ IF IsFolder(cur[a])
       THEN /\ Make(a, Node(dir[a][n[a] + 1], cur[a], "folder", NoContent))
            /\ Remember(a, SubSeq(dir[a], 1, n[a]), NextId)
            /\ At(a, n[a] + 1, NextId)
            /\ Goto(a, "folders")
            /\ UNCHANGED <<dir, answer>>
       ELSE /\ Return(a, IF IsGone(cur[a]) THEN "notfound" ELSE "error", NoContent)
            /\ IF op[a].kind = "open" THEN Forget(a) ELSE UNCHANGED cache
            /\ UNCHANGED <<remote, changers, overlapped, quiet>>
  /\ UNCHANGED <<op, calls, orderly>>

(* Slip: the id is remembered whether or not the folder was made. *)
MakeFolderBlindly(a) ==
  /\ pc[a] = "mkfolder"
  /\ Remember(a, SubSeq(dir[a], 1, n[a] + 1), NextId)
  /\ IF IsFolder(cur[a])
       THEN /\ Make(a, Node(dir[a][n[a] + 1], cur[a], "folder", NoContent))
            /\ At(a, n[a] + 1, NextId)
            /\ Goto(a, "folders")
            /\ UNCHANGED <<dir, answer>>
       ELSE /\ Return(a, "notfound", NoContent)
            /\ UNCHANGED <<remote, changers, overlapped, quiet>>
  /\ UNCHANGED <<op, calls, orderly>>

(* Files.Create of a folder; Drive refuses a parent that is gone (404) or  *)
(* is a file (403).                                                        *)
MakeFolder(a) ==
  /\ pc[a] = "mkfolder"
  /\ IF IsFolder(cur[a])
       THEN /\ Make(a, Node(dir[a][n[a] + 1], cur[a], "folder", NoContent))
            /\ Remember(a, SubSeq(dir[a], 1, n[a] + 1), NextId)
            /\ At(a, n[a] + 1, NextId)
            /\ Goto(a, "folders")
            /\ UNCHANGED <<dir, answer>>
       ELSE /\ Return(a, IF IsGone(cur[a]) THEN "notfound" ELSE "error", NoContent)
            /\ IF op[a].kind = "open" THEN Forget(a) ELSE UNCHANGED cache
            /\ UNCHANGED <<remote, changers, overlapped, quiet>>
  /\ UNCHANGED <<op, calls, orderly>>

Opened(a) ==
  /\ FoldersDone(a) /\ op[a].kind = "open"
  /\ Remember(a, Root[a], InFolder(a))
  /\ Return(a, "ok", NoContent)
  /\ UNCHANGED <<remote, op, calls, history>>

MkdirDone(a) ==
  /\ FoldersDone(a) /\ op[a].kind = "mkdir"
  /\ Return(a, "ok", NoContent)
  /\ UNCHANGED <<remote, cache, op, calls, history>>

(* Write: the file is not there, Files.Create makes it in the folder found;*)
(* its id is not remembered.                                               *)
CreateFile(a) ==
  LET full == Full(a)
      parent == InFolder(a) IN
  /\ FoldersDone(a) /\ op[a].kind = "write"
  /\ IF IsFolder(parent)
       THEN /\ Make(a, Node(full[Len(full)], parent, "file", op[a].content))
            /\ Return(a, "ok", NoContent)
       ELSE /\ Return(a, IF IsGone(parent) THEN "notfound" ELSE "error", NoContent)
            /\ UNCHANGED <<remote, changers, overlapped, quiet>>
  /\ UNCHANGED <<cache, op, calls, orderly>>

Found(a, kind) == pc[a] = "lookup" /\ n[a] = Len(Full(a)) /\ op[a].kind = kind

(* Slip: an error of the update is lost. *)
UpdateFileSilently(a) ==
  /\ Found(a, "write")
  /\ IF IsFile(cur[a])
       THEN Change(a, [remote EXCEPT ![cur[a]].content = op[a].content])
       ELSE UNCHANGED <<remote, changers, overlapped, quiet>>
  /\ Return(a, "ok", NoContent)
  /\ UNCHANGED <<cache, op, calls, orderly>>

(* Write: the file is there, Files.Update gives it new bytes.  An id that  *)
(* is gone stays in the cache.                                             *)
UpdateFile(a) ==
  /\ Found(a, "write")
  /\ IF IsFile(cur[a])
       THEN /\ Change(a, [remote EXCEPT ![cur[a]].content = op[a].content])
            /\ Return(a, "ok", NoContent)
       ELSE /\ Return(a, IF IsGone(cur[a]) THEN "notfound" ELSE "error", NoContent)
            /\ UNCHANGED <<remote, changers, overlapped, quiet>>
  /\ UNCHANGED <<cache, op, calls, orderly>>

(* Slip: the path stays in the cache. *)
DeleteKeepingId(a) ==
  /\ Found(a, "delete")
  /\ IF IsGone(cur[a])
       THEN /\ Return(a, "notfound", NoContent)
            /\ UNCHANGED <<remote, changers, overlapped, orderly, quiet>>
       ELSE /\ Change(a, [i \in Id |-> IF i \in Subtree(cur[a]) THEN Gone ELSE remote[i]])
            /\ orderly' = (orderly /\ Subtree(cur[a]) = {cur[a]})
            /\ Return(a, "ok", NoContent)
  /\ UNCHANGED <<cache, op, calls>>

(* Delete: Files.Delete takes a folder with all it holds; one path leaves  *)
(* the cache, the ids below it stay, and so does an id that was gone.      *)
Delete(a) ==
  /\ Found(a, "delete")
  /\ IF IsGone(cur[a])
       THEN /\ Return(a, "notfound", NoContent)
            /\ UNCHANGED <<remote, cache, changers, overlapped, orderly, quiet>>
       ELSE /\ Change(a, [i \in Id |-> IF i \in Subtree(cur[a]) THEN Gone ELSE remote[i]])
            /\ orderly' = (orderly /\ Subtree(cur[a]) = {cur[a]})
            /\ IF Named(a) THEN Remember(a, Full(a), NoId) ELSE UNCHANGED cache
            /\ Return(a, "ok", NoContent)
  /\ UNCHANGED <<op, calls>>

(* Exists asks nobody once it has an id.                                   *)
Exists(a) ==
  /\ Found(a, "exists")
  /\ Return(a, "ok", NoContent)
  /\ UNCHANGED <<remote, cache, op, calls, history>>

(* Stat; List, whose query finds nothing below a file, and may find        *)
(* nothing or fail below an id that is gone; Read, which needs a file.     *)
Stat(a) ==
  /\ Found(a, "stat")
  /\ Return(a, IF IsGone(cur[a]) THEN "notfound" ELSE "ok", NoContent)
  /\ UNCHANGED <<remote, cache, op, calls, history>>

List(a) ==
  /\ Found(a, "list")
  /\ \/ Return(a, "ok", NoContent)
     \/ IsGone(cur[a]) /\ Return(a, "notfound", NoContent)
  /\ UNCHANGED <<remote, cache, op, calls, history>>

Read(a) ==
  /\ Found(a, "read")
  /\ IF IsFile(cur[a]) THEN Return(a, "ok", remote[cur[a]].content)
     ELSE Return(a, IF IsGone(cur[a]) THEN "notfound" ELSE "error", NoContent)
  /\ UNCHANGED <<remote, cache, op, calls, history>>

(* A request does not reach Drive, or Drive refuses it (a limit, a server  *)
(* error): the call fails, what it has made and remembered so far stays.   *)
RequestFails(a) ==
  /\ pc[a] \notin {"idle", "closed"} /\ calls[a] < MaxCalls[a]
  /\ ~Found(a, "exists") /\ (FoldersDone(a) => op[a].kind = "write")
  /\ calls' = [calls EXCEPT ![a] = @ + 1]
  /\ Return(a, "failed", NoContent)
  /\ IF op[a].kind = "open" THEN Forget(a) ELSE UNCHANGED cache
  /\ UNCHANGED <<remote, op, history>>

-----------------------------------------------------------------------------
Init ==
  /\ remote = [i \in Id |-> Free]
  /\ cache = [a \in Adapter |-> [k \in Key |-> NoId]]
  /\ op = [a \in Adapter |-> [kind |-> "open", path |-> <<>>, content |-> NoContent]]
  /\ pc = [a \in Adapter |-> "closed"]
  /\ dir = [a \in Adapter |-> <<>>]
  /\ n = [a \in Adapter |-> 0]
  /\ cur = [a \in Adapter |-> Top]
  /\ answer = [a \in Adapter |-> [result |-> "none", got |-> NoContent]]
  /\ calls = [a \in Adapter |-> 0]
  /\ changers = {} /\ overlapped = FALSE /\ orderly = TRUE
  /\ quiet = [a \in Adapter |-> FALSE]

(* Folders are made and listed, files written and read, both deleted.      *)
Calls(a) ==
  \/ \E p \in FolderPaths, k \in {"mkdir", "list"} : Call(a, k, p)
  \/ \E p \in FilePaths, k \in {"write", "read", "stat", "exists"} : Call(a, k, p)
  \/ \E p \in Path : Call(a, "delete", p)

Requests(a) ==
  \/ FindPart(a) \/ FindFolder(a) \/ MakeFolder(a) \/ CreateFile(a) \/ UpdateFile(a)
  \/ Delete(a) \/ Exists(a) \/ Stat(a) \/ List(a) \/ Read(a) \/ Opened(a) \/ MkdirDone(a)
  \/ RequestFails(a)

Next == \E a \in Adapter : Open(a) \/ Restart(a) \/ Calls(a) \/ Requests(a)

Spec == Init /\ [][Next]_vars
-----------------------------------------------------------------------------
(* only a has ever changed anything on Drive, and folder by folder *)
Alone(a) == changers \subseteq {a} /\ orderly /\ Named(a)

Answered(a) == pc[a] = "idle" /\ answer[a].result \notin {"none", "failed"}

(* The cache of an adapter that has Drive to itself never misleads: what   *)
(* it remembers of a path is what the path leads to (gdrive.go:374-377     *)
(* trusts it without asking).                                              *)
CacheTrue ==
  \A a \in Adapter : Alone(a) =>
    \A k \in Key : cache[a][k] # NoId => cache[a][k] \in IdsAt(k)

(* what the interface promises of an answer, adapter.go:11-44 *)
Honest(a) ==
  LET there == IdsAt(Full(a))
      kind == op[a].kind
      result == answer[a].result
      Holds(c) == \E i \in there : IsFile(i) /\ remote[i].content = c IN
  /\ kind = "write" => result = "ok" /\ Holds(op[a].content)
  /\ kind \in {"mkdir", "open"} => result = "ok" /\ \E i \in there : IsFolder(i)
  /\ kind = "delete" => there = {}
  /\ kind \in {"exists", "stat", "list"} => (result = "ok" <=> there # {})
  /\ kind = "read" => IF result = "ok" THEN Holds(answer[a].got) ELSE there = {}

(* Every call of an adapter that has Drive to itself does what the         *)
(* interface says of it, whatever calls came before.                       *)
AnswersTrue == \A a \in Adapter : Answered(a) /\ Alone(a) => Honest(a)

(* A Write that reports success has put the content where it belongs,      *)
(* whatever others did before it and however stale the cache is: a stale   *)
(* id makes the request fail, it never misdirects it (gdrive.go:215-249).  *)
WriteLands ==
  \A a \in Adapter :
    Answered(a) /\ op[a].kind = "write" /\ answer[a].result = "ok" /\ quiet[a] /\ Named(a) =>
      Honest(a)

(* Two entries of one name in one folder come of calls that overlap:       *)
(* adapters that take turns make none, whatever their caches hold          *)
(* (gdrive.go:215, 460-475).                                               *)
TwinsNeedOverlap ==
  ~overlapped /\ (\A a \in Adapter : Named(a)) =>
    \A i, j \in Live :
      remote[i].parent = remote[j].parent /\ remote[i].name = remote[j].name => i = j

(* What a request of a's call may do to the entry i: a Delete takes what   *)
(* the path leads to and what lies below; New, Mkdir and Write make new    *)
(* folders on the way to their folder; a Write gives the file at its path  *)
(* new content, or makes it.  Nothing else is ever touched.                *)
MayChange(a, i) ==
  \/ /\ op[a].kind = "delete" /\ remote'[i] = Gone
     /\ \E j \in IdsAt(Full(a)) : i \in Subtree(j)
  \/ /\ op[a].kind \in {"open", "mkdir", "write"} /\ remote[i] = Free /\ IsFolder(i)'
     /\ \E k \in Prefixes(IF op[a].kind = "write" THEN DirOf(a) ELSE Full(a)) : i \in IdsAt(k)'
  \/ op[a].kind = "write" /\ IsFile(i)' /\ i \in IdsAt(Full(a))'

(* A request only changes what its own call is about, whatever the caches  *)
(* hold and others do meanwhile (gdrive.go:215, 263, 374-377, 421-480): no *)
(* stale id leads a Write, a Mkdir or a Delete to an entry elsewhere.  The *)
(* adapter that has made the request is the one whose pc moves.            *)
KeepsToItsPath ==
  [][remote' # remote =>
       \E a \in Adapter :
         /\ pc'[a] # pc[a]
         /\ \A i \in {j \in Id : remote'[j] # remote[j]} : MayChange(a, i)]_vars

(* A Write that nobody interferes with succeeds: adapter.go:24-25.         *)
UndisturbedWriteSucceeds ==
  \A a \in Adapter :
    Answered(a) /\ op[a].kind = "write" /\ quiet[a] /\ Named(a) => answer[a].result = "ok"
=============================================================================
