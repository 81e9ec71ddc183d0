-------------------------------- MODULE Files --------------------------------
(***************************************************************************)
(* The files of one server (modules/files/file-service.ts, routes/files.ts)*)
(* A name leads to a file, and whoever has opened a file goes on writing   *)
(* to it when the name is removed or moved.  Saving and uploading open,    *)
(* then write, then look at how it went; requests interleave between.      *)
(***************************************************************************)
EXTENDS Integers, FiniteSets

CONSTANTS
  Uploads,     \* requests in flight that write or read
  MaxOpens,    \* bound on files ever opened for writing
  MaxCrashes   \* bound on stops of the panel

ASSUME FilesAssumption == {MaxOpens, MaxCrashes} \subseteq Nat

\* The folders a path may lead to: the server's own, one in it, and what is
\* above, which ".." and a link lead to.
Folders == {"root", "sub", "above"}
Names == {"config", "secret"}  \* one that may be edited, and one denied to everyone
Paths == Folders \X Names
NoFile == 0
FileIds == 1..MaxOpens

VARIABLES
  names,    \* path -> the file it leads to, or NoFile
  folders,  \* folders that exist
  body,     \* file -> what of it is there: "empty", "part" or "whole"
  fileOp,   \* upload -> [stage, path, file, kind]
  opens,    \* files ever opened
  spoilt,   \* files left as a failed save, or a failed removal, left them
  disturbed, crashes  \* whether a file was opened or moved while it was written to, and stops of
                      \* the panel (like spoilt, these record what happened)

filesVars == <<names, folders, body, fileOp, opens, spoilt, disturbed, crashes>>

NoOp == [stage |-> "none", path |-> <<"root", "config">>, file |-> NoFile, kind |-> "none", whole |-> FALSE]

FilesInit ==
  /\ names = [p \in Paths |-> NoFile] /\ folders = {"root", "above"}
  /\ body = [f \in FileIds |-> "empty"] /\ fileOp = [u \in Uploads |-> NoOp]
  /\ opens = 0 /\ spoilt = {} /\ disturbed = FALSE /\ crashes = 0

(* Paths *)

\* A path that leads out of the server's folder, by its words or by a link in
\* what exists of it, is refused.
ResolveWithin(path) == path[1] \in {"root", "sub"}
IsDenied(path) == path[2] = "secret"
IsEditable(path) == path[2] = "config"

\* mkdir, with what is above it.
WithFolder(path) == folders \cup {path[1]}

Without(paths) == [p \in Paths |-> IF p \in paths THEN NoFile ELSE names[p]]

(* Writing *)

Writing(f) == {u \in Uploads : fileOp[u].stage \in {"open", "written"} /\ fileOp[u].file = f}

\* The file the name leads to is emptied, or a new one made; its folder, if need be.
OpenFor(u, path, kind) ==
  LET f == IF names[path] = NoFile THEN opens + 1 ELSE names[path] IN
  /\ opens' = IF names[path] = NoFile THEN opens + 1 ELSE opens
  /\ f \in FileIds
  /\ folders' = WithFolder(path)
  /\ names' = [names EXCEPT ![path] = f]
  /\ body' = [body EXCEPT ![f] = "empty"] /\ spoilt' = spoilt \ {f}
  /\ disturbed' = (disturbed \/ Writing(f) # {})
  /\ fileOp' = [fileOp EXCEPT ![u] =
       [stage |-> "open", path |-> path, file |-> f, kind |-> kind, whole |-> FALSE]]
  /\ UNCHANGED crashes

\* Only editable names are saved; an upload may have any but a hidden one.
WriteTextFile(u) ==
  /\ fileOp[u] = NoOp
  /\ \E path \in Paths : ResolveWithin(path) /\ IsEditable(path) /\ OpenFor(u, path, "save")

UploadFile(u) ==
  /\ fileOp[u] = NoOp
  /\ \E path \in Paths : ResolveWithin(path) /\ path[2] # "secret" /\ OpenFor(u, path, "upload")

\* An upload that cannot open its file takes the name away, and what it led to.
UploadRefused(u) ==
  /\ fileOp[u] = NoOp
  /\ \E path \in Paths :
       /\ ResolveWithin(path) /\ path[2] # "secret"
       /\ folders' = WithFolder(path) /\ names' = Without({path})
  /\ UNCHANGED <<body, fileOp, opens, spoilt, disturbed, crashes>>

\* The bytes arrive, all of them, some or none: the disk may be full, a stream
\* cut off, an upload too large.
Receive(u) ==
  /\ fileOp[u].stage = "open" /\ fileOp[u].kind \in {"save", "upload"}
  /\ \E left \in {"empty", "part", "whole"} :
       /\ body' = [body EXCEPT ![fileOp[u].file] = left]
       /\ fileOp' = [fileOp EXCEPT ![u].stage = "written", ![u].whole = (left = "whole")]
  /\ UNCHANGED <<names, folders, opens, spoilt, disturbed, crashes>>

\* Mutated: what arrived of an upload that was cut off is left.
RemovedMut(op) == {}
\* An upload that failed, or was cut off at the limit, takes its name away again;
\* nothing does so for a save.
Removed(op) == IF op.whole \/ op.kind = "save" THEN {} ELSE {op.path}

\* The removal may fail in its turn, which nobody hears of.
FinishWrite(u) ==
  LET op == fileOp[u] IN
  /\ op.stage = "written"
  /\ \/ /\ names' = Without(Removed(op))
        /\ spoilt' = IF op.kind = "save" /\ ~ op.whole THEN spoilt \cup {op.file} ELSE spoilt
     \/ /\ Removed(op) # {} /\ UNCHANGED names
        /\ spoilt' = spoilt \cup {op.file}
  /\ fileOp' = [fileOp EXCEPT ![u] = NoOp]
  /\ UNCHANGED <<folders, body, opens, disturbed, crashes>>

(* Everything else *)

\* A download: a stream of what the name leads to, of the size it had before.
OpenDownloadStream(u) ==
  /\ fileOp[u] = NoOp
  /\ \E path \in Paths :
       /\ ResolveWithin(path) /\ ~ IsDenied(path) /\ names[path] # NoFile
       /\ fileOp' = [fileOp EXCEPT ![u] = [NoOp EXCEPT !.stage = "sized", !.path = path, !.kind = "download"]]
  /\ UNCHANGED <<names, folders, body, opens, spoilt, disturbed, crashes>>

SendStream(u) ==
  /\ fileOp[u].stage = "sized"
  /\ fileOp' = [fileOp EXCEPT ![u] = NoOp]
  /\ UNCHANGED <<names, folders, body, opens, spoilt, disturbed, crashes>>

CreateDirectory ==
  /\ "sub" \notin folders /\ folders' = folders \cup {"sub"}
  /\ UNCHANGED <<names, body, fileOp, opens, spoilt, disturbed, crashes>>

\* A file, or the folder with all that is in it, whatever is written to there.
DeletePath ==
  /\ \/ \E path \in Paths : /\ ResolveWithin(path) /\ ~ IsDenied(path) /\ names[path] # NoFile
                            /\ names' = Without({path})
                            /\ UNCHANGED folders
     \/ /\ "sub" \in folders
        /\ names' = Without({p \in Paths : p[1] = "sub"}) /\ folders' = folders \ {"sub"}
  /\ UNCHANGED <<body, fileOp, opens, spoilt, disturbed, crashes>>

\* The file moves, over one that is there.
MovePath ==
  /\ \E from, to \in Paths :
       /\ from # to /\ \A p \in {from, to} : ResolveWithin(p) /\ ~ IsDenied(p)
       /\ names[from] # NoFile
       /\ names' = [Without({from}) EXCEPT ![to] = names[from]]
       /\ folders' = WithFolder(to)
       /\ disturbed' = (disturbed \/ Writing(names[from]) # {})
  /\ UNCHANGED <<body, fileOp, opens, spoilt, crashes>>

PanelCrashes ==
  /\ crashes < MaxCrashes /\ crashes' = crashes + 1
  /\ fileOp' = [u \in Uploads |-> NoOp]
  /\ UNCHANGED <<names, folders, body, opens, spoilt, disturbed>>

FilesNext ==
  \/ \E u \in Uploads : \/ WriteTextFile(u) \/ UploadFile(u) \/ UploadRefused(u)
                        \/ Receive(u) \/ FinishWrite(u)
                        \/ OpenDownloadStream(u) \/ SendStream(u)
  \/ CreateDirectory \/ DeletePath \/ MovePath \/ PanelCrashes

FilesSpec == FilesInit /\ [][FilesNext]_filesVars

(* Properties *)

\* When nothing is being written, every name leads to a file of its own, in a
\* folder that is there, whatever was deleted or replaced meanwhile; and the
\* file is whole, unless a save of it failed or the removal of a cut-off upload
\* did.  Nothing else leaves a part of a file behind ("a partial file on disk
\* would be worse than none", files.ts), so long as nothing was moved or opened
\* twice while it was written to, and the panel was not stopped.
FilesWhole ==
  /\ \A p \in Paths : names[p] # NoFile => p[1] \in folders /\ ResolveWithin(p)
  /\ \A p, q \in Paths : names[p] = names[q] /\ p # q => names[p] = NoFile
  /\ ~ disturbed /\ crashes = 0 /\ (\A u \in Uploads : fileOp[u] = NoOp) =>
       \A p \in Paths : names[p] # NoFile => body[names[p]] = "whole" \/ names[p] \in spoilt
=============================================================================
