-------------------------- MODULE DocumentTransfer --------------------------
(***************************************************************************)
(* One encrypted document of an account: a computer that has it sends it   *)
(* to the service in chunks, another one fetches it, and the student may   *)
(* delete it meanwhile.  A command may run twice at the same time, and     *)
(* downloads that do write under one temporary name.  Every upload seals   *)
(* the manifest with a nonce of its own, so that no two manifests are      *)
(* equal; the chunks are the file as it lies in the vault.  A computer's   *)
(* files of the document are numbered by the download that created them;   *)
(* 0 is the one that was imported.  A name is the set of the file it       *)
(* names, empty when there is none.                                        *)
(***************************************************************************)
EXTENDS Integers, FiniteSets, FiniteSetsExt

CONSTANTS Computer, Home,    \* the computers, and the one that has the document
          Chunks,            \* the number of chunks
          None,
          MaxUploads, MaxDownloads, MaxDeletions  \* bounds: commands given

VARIABLES
  object,     \* the service's row: its manifest, and whether it is complete
  storage,    \* the chunks in the service's storage
  rows,       \* computer -> its row of the document
  files,      \* computer -> the file under the document's name in its vault
  syncing,    \* computer -> the file under the temporary name of all its downloads
  writer,     \* computer -> file -> the download that emptied it last and has not filled it, or 0
  uploads,    \* the uploads that run
  downloads,  \* the downloads that run
  settling,   \* the computers that have removed the file and not yet changed the row
  deleted,    \* history: the computers on which the student had the file deleted,
  overlapped, \* on which a download emptied the file while another wrote it or was to move it,
  cutShort,   \* and on which a download ended while it wrote
  given       \* number of commands of each kind

disk == <<files, syncing, writer>>
history == <<deleted, overlapped, cutShort>>
vars == <<object, storage, rows, disk, uploads, downloads, settling, history, given>>

\* The file in the vault, cut up.
Chunk == 1 .. Chunks

File == 0 .. MaxDownloads

Init == /\ object = None
        /\ storage = {}
        /\ rows = [c \in Computer |-> IF c = Home THEN "kept" ELSE "none"]
        /\ files = [c \in Computer |-> IF c = Home THEN {0} ELSE {}]
        /\ syncing = [c \in Computer |-> {}]
        /\ writer = [c \in Computer |-> [f \in File |-> 0]]
        /\ uploads = {} /\ downloads = {} /\ settling = {}
        /\ deleted = {} /\ overlapped = {} /\ cutShort = {}
        /\ given = [uploads |-> 0, downloads |-> 0, deletions |-> 0]

TypeOK == /\ object \in [manifest : 1 .. MaxUploads, done : BOOLEAN] \union {None}
          /\ storage \subseteq Chunk
          /\ rows \in [Computer -> {"none", "kept", "deleted"}]
          /\ files \in [Computer -> SUBSET File] /\ syncing \in [Computer -> SUBSET File]
          /\ writer \in [Computer -> [File -> File]]
          /\ settling \subseteq Computer
          /\ deleted \subseteq Computer /\ overlapped \subseteq Computer /\ cutShort \subseteq Computer
          /\ uploads \subseteq [by : Computer, manifest : 1 .. MaxUploads, at : {"initiate", "put"}, missing : SUBSET Chunk]
          /\ downloads \subseteq [by : Computer, number : 1 .. MaxDownloads, into : File,
                                  at : {"fetch", "open", "write", "move", "row"}]

-----------------------------------------------------------------------------
\* A computer reads its row and its file and seals a manifest for them.  Only a download can leave
\* a part of the file, when the service has a manifest already.
UploadSyncedDocument(c) ==
  /\ rows[c] = "kept" /\ files[c] # {}
  /\ given.uploads < MaxUploads
  /\ given' = [given EXCEPT !.uploads = @ + 1]
  /\ uploads' = uploads \union {[by |-> c, manifest |-> given'.uploads, at |-> "initiate", missing |-> {}]}
  /\ UNCHANGED <<object, storage, rows, disk, downloads, settling, history>>

\* A document that has a manifest keeps it: another upload, be it of the same file, is refused.
\* The row's key makes one of two that look at the same time fail.
Bound == object # None

Verified == Chunk \subseteq storage

Available == Bound /\ object.done /\ Verified

InitiateObject(u) ==
  /\ u.at = "initiate"
  /\ \/ /\ ~Bound
        /\ object' = [manifest |-> u.manifest, done |-> FALSE]
        /\ uploads' = (uploads \ {u}) \union {[u EXCEPT !.at = "put", !.missing = Chunk \ storage]}
     \/ /\ Bound
        /\ uploads' = uploads \ {u}
        /\ UNCHANGED object
  /\ UNCHANGED <<storage, rows, disk, downloads, settling, history, given>>

\* The chunks that were missing are sent in their order.
PutObjectChunk(u) ==
  /\ u.at = "put" /\ u.missing # {}
  /\ storage' = storage \union {Min(u.missing)}
  /\ uploads' = (uploads \ {u}) \union {[u EXCEPT !.missing = @ \ {Min(@)}]}
  /\ UNCHANGED <<object, rows, disk, downloads, settling, history, given>>

\* The service reads every chunk again before it calls the document complete.
CompleteObject(u) ==
  /\ u.at = "put" /\ u.missing = {}
  /\ object' = [object EXCEPT !.done = @ \/ Verified]
  /\ uploads' = uploads \ {u}
  /\ UNCHANGED <<storage, rows, disk, downloads, settling, history, given>>

-----------------------------------------------------------------------------
DownloadSyncedDocument(c) ==
  /\ given.downloads < MaxDownloads
  /\ given' = [given EXCEPT !.downloads = @ + 1]
  /\ downloads' = downloads \union {[by |-> c, number |-> given'.downloads, into |-> 0, at |-> "fetch"]}
  /\ UNCHANGED <<object, storage, rows, disk, uploads, settling, history>>

\* What arrives is complete and checked chunk by chunk; a row that is here has the same digest,
\* a deleted one too, and is no reason to stop.
OpenEncryptedObject(w) ==
  /\ w.at = "fetch"
  /\ downloads' = (downloads \ {w}) \union IF Available THEN {[w EXCEPT !.at = "open"]} ELSE {}
  /\ UNCHANGED <<object, storage, rows, disk, uploads, settling, history, given>>

Goes(w, step) == downloads' = (downloads \ {w}) \union {[w EXCEPT !.at = step]}

\* The temporary is created, or the one another download left or works on is emptied.
OpenTemporary(w) ==
  /\ w.at = "open"
  /\ \E f \in IF syncing[w.by] = {} THEN {w.number} ELSE syncing[w.by] :
       /\ syncing' = [syncing EXCEPT ![w.by] = {f}]
       /\ writer' = [writer EXCEPT ![w.by][f] = w.number]
       /\ downloads' = (downloads \ {w}) \union {[w EXCEPT !.at = "write", !.into = f]}
  /\ overlapped' = overlapped \union
       {c \in {w.by} : \E v \in downloads : v.by = c /\ v.at \in {"write", "move"}}
  /\ UNCHANGED <<object, storage, rows, files, uploads, settling, deleted, cutShort, given>>

\* The file that was opened is filled, whatever name it has by now; if another download has
\* emptied it since, it may have a hole until that one has filled it.
WriteFile(w) ==
  /\ w.at = "write" /\ Goes(w, "move")
  /\ writer' = [writer EXCEPT ![w.by][w.into] = IF @ = w.number THEN 0 ELSE @]
  /\ UNCHANGED <<object, storage, rows, files, syncing, uploads, settling, history, given>>

\* Mutant of MoveFile: the row comes first.
InsertRowFirst(w) ==
  /\ w.at = "move" /\ Goes(w, "row")
  /\ rows' = [rows EXCEPT ![w.by] = IF @ = "none" THEN "kept" ELSE @]
  /\ UNCHANGED <<object, storage, disk, uploads, settling, history, given>>

\* What the temporary name names is moved to the document's name, whatever is there; when another
\* download has moved it, this one ends.
MoveFile(w) ==
  /\ w.at = "move"
  /\ \/ /\ syncing[w.by] # {} /\ Goes(w, "row")
        /\ files' = [files EXCEPT ![w.by] = syncing[w.by]]
        /\ syncing' = [syncing EXCEPT ![w.by] = {}]
     \/ /\ syncing[w.by] = {} /\ downloads' = downloads \ {w}
        /\ UNCHANGED <<files, syncing>>
  /\ UNCHANGED <<object, storage, rows, writer, uploads, settling, history, given>>

\* A row that is here stays as it is.
InsertRow(w) ==
  /\ w.at = "row"
  /\ w.by \notin settling
  /\ rows' = [rows EXCEPT ![w.by] = IF @ = "none" THEN "kept" ELSE @]
  /\ downloads' = downloads \ {w}
  /\ UNCHANGED <<object, storage, disk, uploads, settling, history, given>>

-----------------------------------------------------------------------------
\* The student has the file deleted: the file goes first, the row is told after; the database
\* is held meanwhile.
RemoveFile(c) ==
  /\ rows[c] # "none" /\ c \notin settling
  /\ given.deletions < MaxDeletions
  /\ given' = [given EXCEPT !.deletions = @ + 1]
  /\ files' = IF rows[c] = "kept" THEN [files EXCEPT ![c] = {}] ELSE files
  /\ deleted' = deleted \union {c}
  /\ settling' = settling \union {c}
  /\ UNCHANGED <<object, storage, rows, syncing, writer, uploads, downloads, overlapped, cutShort>>

ShredRow(c) ==
  /\ c \in settling
  /\ settling' = settling \ {c}
  /\ rows' = [rows EXCEPT ![c] = "deleted"]
  /\ UNCHANGED <<object, storage, disk, uploads, downloads, history, given>>

\* A call is not answered, or a step fails.
Fail ==
  /\ \/ \E u \in uploads : uploads' = uploads \ {u} /\ UNCHANGED <<downloads, settling, cutShort>>
     \/ \E w \in downloads : /\ downloads' = downloads \ {w}
                             /\ cutShort' = cutShort \union {c \in {w.by} : w.at = "write"}
                             /\ UNCHANGED <<uploads, settling>>
     \/ \E c \in settling : settling' = settling \ {c} /\ UNCHANGED <<uploads, downloads, cutShort>>
  /\ UNCHANGED <<object, storage, rows, disk, deleted, overlapped, given>>

Stop(c) ==
  /\ uploads' = {u \in uploads : u.by # c}
  /\ downloads' = {w \in downloads : w.by # c}
  /\ settling' = settling \ {c}
  /\ cutShort' = cutShort \union {b \in {c} : \E w \in downloads : w.by = b /\ w.at = "write"}
  /\ UNCHANGED <<object, storage, rows, disk, deleted, overlapped, given>>

Next ==
  \/ \E c \in Computer : UploadSyncedDocument(c) \/ DownloadSyncedDocument(c) \/ RemoveFile(c)
                         \/ ShredRow(c) \/ Stop(c)
  \/ \E u \in uploads : InitiateObject(u) \/ PutObjectChunk(u) \/ CompleteObject(u)
  \/ \E w \in downloads : OpenEncryptedObject(w) \/ OpenTemporary(w) \/ WriteFile(w) \/ MoveFile(w)
                         \/ InsertRow(w)
  \/ Fail

Spec == Init /\ [][Next]_vars

-----------------------------------------------------------------------------
Whole(c, f) == writer[c][f] = 0

\* A download that is to fill file f is under way.
BeingWritten(c, f) == \E w \in downloads : w.by = c /\ w.at = "write" /\ w.into = f /\ w.number = writer[c][f]

\* A computer that lists the document has its file, wherever a download or an upload ended,
\* unless the student had it deleted there.  The file is whole, unless two downloads on this
\* computer met at the temporary name: then it may be partial, but only while a download fills
\* it, or when one was cut short while it wrote.  A document that is complete has all its chunks
\* for good, whoever sends them again.
DocumentHolds ==
  /\ \A c \in Computer : rows[c] = "kept" => files[c] # {} \/ c \in deleted
  /\ \A c \in Computer : \A f \in files[c] :
       Whole(c, f) \/ (c \in overlapped /\ (BeingWritten(c, f) \/ c \in cutShort))
  /\ Bound /\ object.done => Verified
=============================================================================
