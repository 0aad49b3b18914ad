--------------------------- MODULE LibraryCatalog ---------------------------
(***************************************************************************)
(* The LIBRARY tab: one background operation at a time (library_panel.py)      *)
(* over the SQLite catalogue, the games folder and its ART folder             *)
(* (library_catalog.py, disc_identity.py, art_fetch.py), while other programs  *)
(* change the same folders.                                                   *)
(*                                                                         *)
(* A file's contents are a version: an odd one is an image whose SYSTEM.CNF    *)
(* names serial v, an even one an image without a serial, and the fingerprint  *)
(* of a whole file stands for its version. Media, titles and sizes are left    *)
(* out, and so are links, which the scanner skips.                            *)
(***************************************************************************)
EXTENDS Integers, FiniteSets

CONSTANTS
  ImageNames,        \* the image names in the CD and DVD folders
  MaxVersion,    \* versions of an image other programs put there
  LooksDisturbed,\* how often an image changes while it is being inspected
  MaxOps         \* operations the user starts (a bound)

ASSUME LibraryAssumption == MaxVersion \in Nat \ {0} /\ LooksDisturbed \in Nat /\ MaxOps \in Nat

VARIABLES
  library,   \* the games folder: image -> [ver, part, ours]
  art,       \* the ART folder: serial -> "none" | "theirs" | "part" | "ours"
  games,     \* the catalogue: image -> its manual disc ID, 0 for none; catalogued images only
  ident,     \* the identity cache: image -> [stamp, status, id]
  job,       \* the operation in the panel's thread
  panel,     \* [busy, cancel, result]
  disturbed, \* changes of the image being inspected since its stamp was taken
  opsLeft

catalogVars == <<library, art, games, ident, job, panel, disturbed, opsLeft>>

Absent == [ver |-> 0, part |-> FALSE, ours |-> FALSE]
Versions == 1..MaxVersion
Serials == {v \in Versions : v % 2 = 1}
IdleJob == [op |-> "none"]
Statuses == {"verified", "unknown", "invalid", "unsupported"}

fingerprint(p) == library[p]

\* inspect_disc on one undisturbed file: a serial, no SYSTEM.CNF, or a damaged image.
Inspect(f) ==
  IF f.part THEN [status |-> "invalid", id |-> 0]
  ELSE IF f.ver \in Serials THEN [status |-> "verified", id |-> f.ver]
  ELSE [status |-> "unknown", id |-> 0]

-----------------------------------------------------------------------------
\* What list_games and get_game show of an image: a serial that differs from the manual
\* ID is a conflict, and one whose image no longer has the cached fingerprint is withheld.
IdentityRecord(p) ==
  IF p \notin DOMAIN ident THEN [status |-> "not inspected", id |-> 0]
  ELSE LET r == ident[p] IN
    IF r.status = "verified" /\ games[p] \notin {0, r.id} THEN [status |-> "conflict", id |-> r.id]
    ELSE [status |-> r.status, id |-> r.id]

CurrentIdentity(p) ==
  LET row == IdentityRecord(p) IN
  IF row.status \in {"verified", "conflict"} /\ fingerprint(p) # ident[p].stamp
  THEN [status |-> "stale", id |-> 0] ELSE row

\* upsert: the row of an image, keeping its manual ID, and its cached identity only when
\* the fingerprint is still the file's.
Upsert(p) ==
  /\ games' = IF p \in DOMAIN games THEN games ELSE [q \in DOMAIN games \cup {p} |-> IF q = p THEN 0 ELSE games[q]]
  /\ ident' = [q \in {r \in DOMAIN ident : r = p => ident[r].stamp = fingerprint(p)} |-> ident[q]]

SaveIdentity(p, stamp, r) ==
  ident' = [q \in DOMAIN ident \cup {p} |-> IF q = p THEN [stamp |-> stamp, status |-> r.status, id |-> r.id] ELSE ident[q]]

-----------------------------------------------------------------------------
\* The panel: a button does nothing while an operation runs.
Run(j) ==
  /\ ~panel.busy /\ opsLeft > 0
  /\ panel' = [panel EXCEPT !.busy = TRUE, !.cancel = FALSE]
  /\ job' = j /\ opsLeft' = opsLeft - 1
  /\ UNCHANGED <<library, art, games, ident, disturbed>>

Finish(how) ==
  /\ panel' = [panel EXCEPT !.result = how]
  /\ job' = IdleJob

\* The result is taken from the queue by the window's timer; the table is filled again.
Drain ==
  /\ panel.result # "none"
  /\ panel' = [panel EXCEPT !.busy = FALSE, !.result = "none"]
  /\ UNCHANGED <<library, art, games, ident, job, disturbed, opsLeft>>

CancelScan ==
  /\ panel.busy /\ job.op \in {"scan", "inspect", "art"} /\ ~panel.cancel
  /\ panel' = [panel EXCEPT !.cancel = TRUE]
  /\ UNCHANGED <<library, art, games, ident, job, disturbed, opsLeft>>

\* scan_detailed: what the directory iterator returns next, each entry statted again and
\* entered in the catalogue; a file that has gone is counted as an error.
Scan == Run([op |-> "scan", todo |-> ImageNames])

ScanEntry ==
  /\ job.op = "scan"
  /\ \/ /\ job.todo = {} \/ panel.cancel
        /\ Finish("ok") /\ UNCHANGED <<games, ident>>
     \/ /\ job.todo # {} /\ ~panel.cancel
        /\ \E p \in job.todo :
             /\ job' = [job EXCEPT !.todo = @ \ {p}]
             /\ IF library[p] = Absent THEN UNCHANGED <<games, ident>> ELSE Upsert(p)
        /\ UNCHANGED panel
  /\ UNCHANGED <<library, art, disturbed, opsLeft>>

\* inspect_identities over the rows catalogued when it started: the stamp and the cache are
\* looked at, the disc opened and read, the stamp compared again and the answer saved.
InspectIds == Run([op |-> "inspect", todo |-> DOMAIN games, at |-> "next"])

InspectNext ==
  /\ job.op = "inspect" /\ job.at = "next"
  /\ \/ /\ job.todo = {} \/ panel.cancel
        /\ Finish("ok") /\ UNCHANGED <<ident, disturbed>>
     \/ /\ job.todo # {} /\ ~panel.cancel
        /\ \E p \in job.todo :
             IF library[p] = Absent
             THEN /\ SaveIdentity(p, Absent, [status |-> "unavailable", id |-> 0])
                  /\ job' = [job EXCEPT !.todo = @ \ {p}] /\ UNCHANGED disturbed
             ELSE IF p \in DOMAIN ident /\ ident[p].stamp = fingerprint(p) /\ ident[p].status \in Statuses
             THEN /\ job' = [job EXCEPT !.todo = @ \ {p}] /\ UNCHANGED <<ident, disturbed>>
             ELSE /\ job' = [op |-> "inspect", todo |-> job.todo \ {p}, at |-> "open", p |-> p, stamp |-> fingerprint(p)]
                  /\ disturbed' = 0 /\ UNCHANGED ident
        /\ UNCHANGED panel
  /\ UNCHANGED <<library, art, games, opsLeft>>

\* inspect_disc's own lstat and open.
InspectOpen ==
  /\ job.op = "inspect" /\ job.at = "open"
  /\ job' = [op |-> "inspect", todo |-> job.todo, at |-> "read", p |-> job.p, stamp |-> job.stamp, opened |-> fingerprint(job.p)]
  /\ UNCHANGED <<library, art, games, ident, panel, disturbed, opsLeft>>

\* The sectors are read and the file compared with what was opened; a cancelled reading
\* raises out of the loop.
InspectRead ==
  /\ job.op = "inspect" /\ job.at = "read"
  /\ IF panel.cancel THEN Finish("ok")
     ELSE /\ job' = [op |-> "inspect", todo |-> job.todo, at |-> "save", p |-> job.p, stamp |-> job.stamp,
                     id |-> IF job.opened = Absent THEN [status |-> "unavailable", id |-> 0]
                            ELSE IF fingerprint(job.p) # job.opened THEN [status |-> "changed", id |-> 0]
                            ELSE Inspect(job.opened)]
          /\ UNCHANGED panel
  /\ UNCHANGED <<library, art, games, ident, disturbed, opsLeft>>

\* Mutant: no comparison after the reading.
ComparedNot == job.id

\* An image that has gone raises in the comparison and is saved as unavailable.
Compared == IF library[job.p] = Absent THEN [status |-> "unavailable", id |-> 0]
            ELSE IF fingerprint(job.p) # job.stamp THEN [status |-> "changed", id |-> 0] ELSE job.id

InspectSave ==
  /\ job.op = "inspect" /\ job.at = "save"
  /\ SaveIdentity(job.p, job.stamp, Compared)
  /\ job' = [op |-> "inspect", todo |-> job.todo, at |-> "next"]
  /\ disturbed' = 0
  /\ UNCHANGED <<library, art, games, panel, opsLeft>>

\* edit and import_json: the manual ID of a row; a restored row needs no file.
Edit ==
  /\ \E p \in DOMAIN games, id \in {0} \cup Serials : Run([op |-> "edit", p |-> p, id |-> id])
Restore == \E p \in ImageNames, id \in {0} \cup Serials : Run([op |-> "edit", p |-> p, id |-> id])

EditRow ==
  /\ job.op = "edit"
  /\ games' = [q \in DOMAIN games \cup {job.p} |-> IF q = job.p THEN job.id ELSE games[q]]
  /\ Finish("ok")
  /\ UNCHANGED <<library, art, ident, disturbed, opsLeft>>

\* import_image: refuse an existing name, create the target exclusively, copy, and on a
\* failure remove what was created.
ImportImage == \E p \in ImageNames, v \in Versions : Run([op |-> "import", p |-> p, ver |-> v, at |-> "check"])

ImportCheck ==
  /\ job.op = "import" /\ job.at = "check"
  /\ IF library[job.p] # Absent THEN Finish("failed") ELSE job' = [job EXCEPT !.at = "create"] /\ UNCHANGED panel
  /\ UNCHANGED <<library, art, games, ident, disturbed, opsLeft>>

ImportCreate ==
  /\ job.op = "import" /\ job.at = "create"
  /\ IF library[job.p] # Absent
     THEN job' = [job EXCEPT !.at = "undo"] /\ UNCHANGED library
     ELSE job' = [job EXCEPT !.at = "copy"] /\ library' = [library EXCEPT ![job.p] = [ver |-> job.ver, part |-> TRUE, ours |-> TRUE]]
  /\ UNCHANGED <<art, games, ident, panel, disturbed, opsLeft>>

\* The copy ends or fails: a full disk, or a source that differs in size afterwards.
ImportCopy ==
  /\ job.op = "import" /\ job.at = "copy"
  /\ \/ /\ job' = [job EXCEPT !.at = "row"]
        /\ library' = [library EXCEPT ![job.p].part = FALSE]
     \/ /\ job' = [op |-> "import", p |-> job.p, ver |-> job.ver, at |-> "undo", created |-> TRUE]
        /\ UNCHANGED library
  /\ UNCHANGED <<art, games, ident, panel, disturbed, opsLeft>>

Created(j) == "created" \in DOMAIN j

ImportUndo ==
  /\ job.op = "import" /\ job.at = "undo"
  /\ library' = IF Created(job) THEN [library EXCEPT ![job.p] = Absent] ELSE library
  /\ Finish("failed")
  /\ UNCHANGED <<art, games, ident, disturbed, opsLeft>>

ImportRow ==
  /\ job.op = "import" /\ job.at = "row"
  /\ IF library[job.p] = Absent THEN UNCHANGED <<games, ident>> ELSE Upsert(job.p)
  /\ Finish("ok")
  /\ UNCHANGED <<library, art, disturbed, opsLeft>>

\* plan and its confirmation: a verified serial, or the manual ID of a row that is neither a
\* conflict nor stale, whose cover is not there yet.
ArtKey(p) == LET row == CurrentIdentity(p) IN
  IF row.status = "verified" THEN row.id ELSE IF row.status \in {"conflict", "stale"} THEN 0 ELSE games[p]
DownloadArt ==
  LET keys == {k \in {ArtKey(p) : p \in DOMAIN games} : k # 0 /\ art[k] = "none"} IN
  /\ keys # {} /\ Run([op |-> "art", todo |-> keys, at |-> "next"])

\* migrate_legacy_art converts what has no PNG; the names it finds are those in the folder.
RepairArt == \E keys \in SUBSET Serials : keys # {} /\ Run([op |-> "convert", todo |-> {k \in keys : art[k] = "none"}, at |-> "next"])
ImportArt == \E k \in Serials : art[k] = "none" /\ Run([op |-> "convert", todo |-> {k}, at |-> "next"])
Painting == job.op \in {"art", "convert"}

\* run: fetch (or convert) one picture after another; a missing or refused one does not stop
\* the batch, and only a download can be cancelled.
ArtNext ==
  /\ Painting /\ job.at = "next"
  /\ \/ /\ job.todo = {} \/ (panel.cancel /\ job.op = "art")
        /\ Finish("ok")
     \/ /\ job.todo # {} /\ ~(panel.cancel /\ job.op = "art")
        /\ \E k \in job.todo, found \in BOOLEAN :
             job' = IF found /\ art[k] = "none"
                    THEN [op |-> job.op, todo |-> job.todo \ {k}, at |-> "create", k |-> k]
                    ELSE [job EXCEPT !.todo = @ \ {k}]
        /\ UNCHANGED panel
  /\ UNCHANGED <<library, art, games, ident, disturbed, opsLeft>>

\* write_art: the converted picture goes to a file created exclusively.
ArtCreate ==
  /\ Painting /\ job.at = "create"
  /\ IF art[job.k] # "none"
     THEN job' = [op |-> job.op, todo |-> job.todo, at |-> "undo", k |-> job.k] /\ UNCHANGED art
     ELSE job' = [op |-> job.op, todo |-> job.todo, at |-> "save", k |-> job.k] /\ art' = [art EXCEPT ![job.k] = "part"]
  /\ UNCHANGED <<library, games, ident, panel, disturbed, opsLeft>>

ArtSave ==
  /\ Painting /\ job.at = "save"
  /\ \/ art' = [art EXCEPT ![job.k] = "ours"] /\ job' = [op |-> job.op, todo |-> job.todo, at |-> "next"]
     \/ UNCHANGED art /\ job' = [op |-> job.op, todo |-> job.todo, at |-> "undo", k |-> job.k, created |-> TRUE]
  /\ UNCHANGED <<library, games, ident, panel, disturbed, opsLeft>>

ArtUndo ==
  /\ Painting /\ job.at = "undo"
  /\ art' = IF Created(job) THEN [art EXCEPT ![job.k] = "none"] ELSE art
  /\ job' = [op |-> job.op, todo |-> job.todo, at |-> "next"]
  /\ UNCHANGED <<library, games, ident, panel, disturbed, opsLeft>>

-----------------------------------------------------------------------------
\* Other programs: an image is put in place, replaced or taken away, whole and under its own
\* fingerprint, and may come back; never the file an import is writing. While an image is
\* being inspected it changes at most LooksDisturbed times.
Looking(p) == job.op = "inspect" /\ job.at # "next" /\ job.p = p
Writing(p) == job.op = "import" /\ job.at \in {"copy", "undo", "row"} /\ job.p = p

OtherProgram ==
  /\ \E p \in ImageNames, v \in 0..MaxVersion :
       /\ v # library[p].ver /\ ~(Writing(p) /\ library[p].ours)
       /\ Looking(p) => disturbed < LooksDisturbed
       /\ disturbed' = IF Looking(p) THEN disturbed + 1 ELSE disturbed
       /\ library' = [library EXCEPT ![p] = [ver |-> v, part |-> FALSE, ours |-> FALSE]]
  /\ UNCHANGED <<art, games, ident, job, panel, opsLeft>>

OtherArt ==
  /\ \E k \in Serials : art[k] = "none" /\ art' = [art EXCEPT ![k] = "theirs"]
  /\ UNCHANGED <<library, games, ident, job, panel, disturbed, opsLeft>>

\* The launcher is killed with an operation under way; the catalogue's committed rows stay.
Kill ==
  /\ panel.busy /\ job' = IdleJob
  /\ panel' = [busy |-> FALSE, cancel |-> FALSE, result |-> "none"]
  /\ disturbed' = 0
  /\ UNCHANGED <<library, art, games, ident, opsLeft>>

CatalogInit ==
  /\ library = [p \in ImageNames |-> Absent]
  /\ art = [k \in Serials |-> "none"]
  /\ games = [p \in {} |-> 0] /\ ident = [p \in {} |-> 0]
  /\ job = IdleJob /\ panel = [busy |-> FALSE, cancel |-> FALSE, result |-> "none"]
  /\ disturbed = 0 /\ opsLeft = MaxOps

CatalogWork ==
  \/ ScanEntry \/ InspectNext \/ InspectOpen \/ InspectRead \/ InspectSave \/ EditRow
  \/ ImportCheck \/ ImportCreate \/ ImportCopy \/ ImportUndo \/ ImportRow
  \/ ArtNext \/ ArtCreate \/ ArtSave \/ ArtUndo

CatalogNext ==
  \/ Scan \/ InspectIds \/ Edit \/ Restore \/ ImportImage \/ DownloadArt \/ RepairArt \/ ImportArt
  \/ CatalogWork \/ Drain \/ CancelScan \/ OtherProgram \/ OtherArt \/ Kill

CatalogSpec == CatalogInit /\ [][CatalogNext]_catalogVars

-----------------------------------------------------------------------------
\* A serial the catalogue shows as inspected is that of the image in the folder now,
\* although the image was statted, opened, read and looked up in different moments and
\* other programs swap images behind the inspection (inspect_identities compares the
\* stamp again after the reading).
SerialIsTheImages == \A p \in DOMAIN games :
  CurrentIdentity(p).status \in {"verified", "conflict"} => CurrentIdentity(p).id = library[p].ver /\ ~library[p].part

\* Nothing the panel does changes or removes an image or a cover it did not create
\* itself, whatever appears between its checks and its exclusive creations.
NothingOverwritten == CatalogWork =>
  /\ \A p \in ImageNames : library[p] # Absent /\ ~library[p].ours => library'[p] = library[p]
  /\ \A k \in Serials : art[k] = "theirs" => art'[k] = "theirs"

\* The catalogue and the folders agree: it says of an image only what the image is, and
\* never writes over one.
CatalogFaithful == [][SerialIsTheImages' /\ NothingOverwritten]_catalogVars

=============================================================================
