-------------------------------- MODULE Tree --------------------------------
(***************************************************************************)
(* The file tree under an endpoint and what the adapters do to it          *)
(* (internal/adapter).  A tree is a function from relative paths to        *)
(* entries.  Names are abstracted to the elements of Path; what the code   *)
(* takes from a name (its directory, its depth, its place in the           *)
(* alphabet, its temporary sibling) are constants.                         *)
(***************************************************************************)
EXTENDS Naturals, FiniteSets

CONSTANTS
  Path,        \* relative paths
  Ancestors,   \* Ancestors[p]: the directories p lies in, the root left out
  Rank,        \* Rank[p]: p's place in the lexical order of paths
  TmpOf,       \* TmpOf[p]: the path p.syncrules.tmp, NoPath where it is left out
  NoPath,
  Matched,     \* the paths a pattern of the rule matches, by path or last name
  Content,     \* contents of files; NoContent and Partial are not among them
  NoContent,   \* of what is not a file
  Partial,     \* a file whose writing was cut short
  SizeOf,      \* SizeOf[c]: length of content c
  Big          \* contents beyond the 100 MB up to which local.List hashes

ASSUME TreeAssumption ==
  /\ IsFiniteSet(Path) /\ NoPath \notin Path
  /\ Ancestors \in [Path -> SUBSET Path]
  /\ \A p \in Path : p \notin Ancestors[p]
  /\ \A p \in Path : \A q \in Ancestors[p] : Ancestors[q] \subseteq Ancestors[p]
  /\ Rank \in [Path -> Nat]
  /\ \A p, q \in Path : Rank[p] = Rank[q] => p = q
  /\ TmpOf \in [Path -> Path \cup {NoPath}]
  /\ \A p \in Path : TmpOf[p] # NoPath => Ancestors[TmpOf[p]] = Ancestors[p]
  /\ Matched \subseteq Path
  /\ NoContent \notin Content /\ Partial \notin Content /\ NoContent # Partial
  /\ SizeOf \in [Content \cup {Partial} -> Nat]
  /\ Big \subseteq Content

(* planner.ShouldIgnore: what a pattern matches, and all that lies below.  *)
Ignored == {p \in Path : p \in Matched \/ Ancestors[p] \cap Matched # {}}

Entry == [type : {"none", "dir", "file"}, content : Content \cup {NoContent, Partial},
          mtime : Nat]

Nothing == [type |-> "none", content |-> NoContent, mtime |-> 0]
Directory == [type |-> "dir", content |-> NoContent, mtime |-> 0]
File(c, m) == [type |-> "file", content |-> c, mtime |-> m]

Present(t, p) == t[p].type # "none"

(* what lies below p *)
Occupied(t, p) == \E q \in Path : p \in Ancestors[q] /\ Present(t, q)

(* Whatever is there lies in directories.                                  *)
WellFormed(t) ==
  \A p \in Path : Present(t, p) => \A q \in Ancestors[p] : t[q].type = "dir"

(* two entries are the same to the user: modification times aside *)
Same(e, f) == e.type = f.type /\ e.content = f.content

-----------------------------------------------------------------------------
(* os.MkdirAll fails on a file in the way.                                 *)
CanMkdirAll(t, dirs) == \A q \in dirs : t[q].type # "file"
MkdirAll(t, dirs) ==
  [q \in Path |-> IF q \in dirs /\ t[q].type = "none" THEN Directory ELSE t[q]]

(* Slip: the parent directories are taken for granted. *)
BeginWriteNoParents(t, p, now) ==
  [q \in Path |-> IF q = TmpOf[p] THEN File(Partial, now) ELSE t[q]]

(* Slip: the temporary file must not be there yet (O_EXCL). *)
CanBeginWriteExclusive(t, p) ==
  /\ CanMkdirAll(t, Ancestors[p])
  /\ TmpOf[p] # NoPath => ~Present(t, TmpOf[p])

(* local.Write up to the copying: the parent directories, then os.Create   *)
(* of the temporary file, which a directory of that name refuses.          *)
CanBeginWrite(t, p) ==
  /\ CanMkdirAll(t, Ancestors[p])
  /\ TmpOf[p] # NoPath => t[TmpOf[p]].type # "dir"
BeginWrite(t, p, now) ==
  LET u == MkdirAll(t, Ancestors[p])
  IN  [q \in Path |-> IF q = TmpOf[p] THEN File(Partial, now) ELSE u[q]]

(* local.Write from the copying on: os.Rename needs the temporary file and *)
(* its directory, replaces a file, never a directory, and takes the        *)
(* temporary file away.                                                    *)
DropTmp(t, p) == [q \in Path |-> IF q = TmpOf[p] /\ ~Occupied(t, q) THEN Nothing ELSE t[q]]
CanFinishWrite(t, p) ==
  /\ t[p].type # "dir" /\ \A q \in Ancestors[p] : t[q].type = "dir"
  /\ TmpOf[p] # NoPath => t[TmpOf[p]].type = "file"
FinishWrite(t, p, c, now) == [DropTmp(t, p) EXCEPT ![p] = File(c, now)]

(* gdrive.Write: the folders, then an upload that shows when it is whole.  *)
(* Where a file has the name of a folder that is needed, Drive would hold  *)
(* both: a case that a tree has no place for, and that the runs leave out. *)
CanUpload(t, p) == CanMkdirAll(t, Ancestors[p]) /\ t[p].type # "dir"
Upload(t, p, c, now) == [MkdirAll(t, Ancestors[p]) EXCEPT ![p] = File(c, now)]

(* Slip: os.RemoveAll instead of os.Remove. *)
CanDeleteAll(kind, t, p) == Present(t, p)

(* local.Delete is os.Remove; gdrive.Delete takes a folder with all it     *)
(* holds.                                                                  *)
CanDelete(kind, t, p) == Present(t, p) /\ (kind = "local" => ~Occupied(t, p))
Delete(t, p) ==
  [q \in Path |-> IF q = p \/ p \in Ancestors[q] THEN Nothing ELSE t[q]]

-----------------------------------------------------------------------------
(* What a listing tells of an entry (domain.FileInfo).                     *)
Checksum(kind, c) ==
  IF kind # "local" THEN <<"md5", c>>
  ELSE IF c \in Big THEN <<"", NoContent>> ELSE <<"sha256", c>>

NoInfo == [type |-> "none", size |-> 0, mtime |-> 0, checksum |-> <<"", NoContent>>]

FileInfo(kind, e) ==
  IF e.type = "file"
    THEN [type |-> "file", size |-> SizeOf[e.content], mtime |-> e.mtime,
          checksum |-> Checksum(kind, e.content)]
    ELSE [NoInfo EXCEPT !.type = e.type]

(* rule.listAllFiles: everything but the ignored paths and what lies below *)
(* them.                                                                   *)
Listing(kind, t) ==
  [p \in Path |-> IF p \in Ignored THEN NoInfo ELSE FileInfo(kind, t[p])]
=============================================================================
