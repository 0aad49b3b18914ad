----------------------------- MODULE HttpIndex -----------------------------
(***************************************************************************)
(* GameIndex of http_server.py: which file a name in a URL stands for. The    *)
(* index is rebuilt by whichever request thread finds it stale (games.csv is   *)
(* asked for), while the user copies and deletes games and other threads look  *)
(* names up. refresh() takes its change token before it takes the lock.        *)
(*                                                                           *)
(* A file is its path below the games folder, a sequence of numbers that stand *)
(* for names; n and n + 10 differ in case only. A file in the folder itself is  *)
(* a sequence of length one. The extension, the media and the title of an      *)
(* entry play no part here; STARTUP is the name for a file that follows no      *)
(* convention.                                                                 *)
(***************************************************************************)
EXTENDS Integers, Sequences, FiniteSets, SequencesExt

CONSTANTS
  HttpFiles,      \* the files there can be: sequences of names, at most two long
  HttpThreads,    \* request threads
  MaxRows,        \* RIPTOPL_CATALOG_ROWS_MAX, or what fits GAMES_CSV_MAX
  MaxCopies       \* bound: changes to the games folder

ASSUME HttpIndexAssumption ==
  /\ \A f \in HttpFiles : f \in Seq(1 .. 19) /\ Len(f) \in {1, 2}
  /\ MaxRows \in Nat \ {0} /\ MaxCopies \in Nat /\ "none" \notin HttpThreads

VARIABLES
  library,   \* the games folder: the files, and how often the root and the subfolder changed
  gameIndex, \* GameIndex: its profile, what it lists, and the token it was built for
  scans      \* per thread: a refresh in progress

indexVars == <<library, gameIndex, scans>>

Fold(n) == n % 10
FoldPath(p) == [i \in 1 .. Len(p) |-> Fold(p[i])]
Startup(f) == f[Len(f)]
InRoot(f) == Len(f) = 1

\* Sorted as _build_riptopl_csv sorts; the flat list is in the same order.
PathLess(s, t) ==
  \/ s # t /\ IsPrefix(s, t)
  \/ \E i \in 1 .. Len(s) : i <= Len(t) /\ s[i] < t[i] /\ \A j \in 1 .. i - 1 : s[j] = t[j]
Before(f, g) ==
  \/ PathLess(FoldPath(f), FoldPath(g))
  \/ FoldPath(f) = FoldPath(g) /\ PathLess(f, g)

-----------------------------------------------------------------------------
(* What an index built from a set of files holds.                            *)

\* _build_riptopl_csv: a row for the first file of every STARTUP, and no more than MaxRows rows.
FirstOfStartup(files) == {f \in files : \A g \in files : g # f /\ Startup(g) = Startup(f) => Before(f, g)}
Retained(files) ==
  {f \in FirstOfStartup(files) : Cardinality({g \in FirstOfStartup(files) : Before(g, f)}) < MaxRows}

\* _rebuild_flat: the files of the root come first, then the subfolder's; the first to
\* have a name keeps it.
FlatOwner(files, key) ==
  LET same == {f \in files : Fold(Startup(f)) = key}
  IN  IF \E f \in same : InRoot(f) THEN CHOOSE f \in same : InRoot(f) /\ \A g \in same : InRoot(g) => f = g \/ Before(f, g)
      ELSE CHOOSE f \in same : \A g \in same : f = g \/ Before(f, g)
AmbiguousNames(files) == {Fold(Startup(f)) : f \in {g \in files : \E h \in files : h # g /\ Fold(Startup(h)) = Fold(Startup(g))}}

\* games.csv, as the files its rows name.
Rows(flat, files) ==
  IF flat THEN LET owners == {FlatOwner(files, Fold(Startup(f))) : f \in files}
               IN  {f \in owners : Cardinality({g \in owners : Fold(Startup(g)) < Fold(Startup(f))}) < MaxRows}
  ELSE Retained(files)

\* _lookup_path: leading segments are dropped one at a time until a path matches, exactly
\* or in the one way it can be spelled differently.
LookupPath(files, path) ==
  LET listed == Retained(files)
      Folded(p) == {f \in listed : FoldPath(f) = FoldPath(p)}
      At(i) == LET p == SubSeq(path, i, Len(path))
               IN  IF p \in listed THEN {p} ELSE Folded(p)
      hits == {i \in 1 .. Len(path) : At(i) # {}}
  IN  IF hits = {} THEN <<>>
      ELSE LET i == CHOOSE i \in hits : \A j \in hits : i <= j
           IN  IF Cardinality(At(i)) = 1 THEN CHOOSE f \in At(i) : TRUE ELSE <<>>

\* lookup of the flat profile: the path of a file in a subfolder, else a name only one file has.
LookupFlat(files, path) ==
  LET sub == {f \in files : ~InRoot(f) /\ FoldPath(f) = FoldPath(path)}
      key == Fold(path[Len(path)])
  IN  IF sub # {} THEN CHOOSE f \in sub : \A g \in sub : f = g \/ Before(g, f)
      ELSE IF key \in AmbiguousNames(files) \/ ~\E f \in files : Fold(Startup(f)) = key THEN <<>>
      ELSE FlatOwner(files, key)

Lookup(flat, files, path) == IF flat THEN LookupFlat(files, path) ELSE LookupPath(files, path)

-----------------------------------------------------------------------------
(* refresh.                                                                  *)

Token == <<library.rootChanges, library.subChanges>>

\* _scan_dirs and _signature_of, folder after folder, before the lock.
ScanRoot(t) ==
  /\ scans[t].pc = "idle"
  /\ scans' = [scans EXCEPT ![t] = [pc |-> "scanning", token |-> <<library.rootChanges, -1>>]]
  /\ UNCHANGED <<library, gameIndex>>

ScanSub(t) ==
  /\ scans[t].pc = "scanning"
  /\ scans' = [scans EXCEPT ![t] = [pc |-> "scanned", token |-> <<@.token[1], library.subChanges>>]]
  /\ UNCHANGED <<library, gameIndex>>

\* Inside the lock: nothing to do when the token is the one the index was built for;
\* else the folders are listed again, one after the other.
RebuildRoot(t) ==
  /\ scans[t].pc = "scanned" /\ gameIndex.lock = "none"
  /\ IF scans[t].token = gameIndex.token
     THEN scans' = [scans EXCEPT ![t].pc = "idle"] /\ UNCHANGED gameIndex
     ELSE /\ scans' = [scans EXCEPT ![t].pc = "listing"]
          /\ gameIndex' = [gameIndex EXCEPT !.lock = t, !.building = {f \in library.files : InRoot(f)}]
  /\ UNCHANGED library

\* Mutant: the token is taken again after the listing.
RebuildSubLate(t) ==
  /\ scans[t].pc = "listing"
  /\ gameIndex' = [gameIndex EXCEPT !.lock = "none", !.building = {}, !.token = Token,
                     !.files = gameIndex.building \cup {f \in library.files : ~InRoot(f)}]
  /\ scans' = [scans EXCEPT ![t].pc = "idle"]
  /\ UNCHANGED library

RebuildSub(t) ==
  /\ scans[t].pc = "listing"
  /\ gameIndex' = [gameIndex EXCEPT !.lock = "none", !.building = {}, !.token = scans[t].token,
                     !.files = gameIndex.building \cup {f \in library.files : ~InRoot(f)}]
  /\ scans' = [scans EXCEPT ![t].pc = "idle"]
  /\ UNCHANGED library

\* The user copies a game into the folder, or deletes one.
FolderChanges ==
  /\ library.rootChanges + library.subChanges < MaxCopies
  /\ \E f \in HttpFiles :
       library' = [library EXCEPT !.files = IF f \in @ THEN @ \ {f} ELSE @ \cup {f},
                                  !.rootChanges = @ + (IF InRoot(f) THEN 1 ELSE 0),
                                  !.subChanges = @ + (IF InRoot(f) THEN 0 ELSE 1)]
  /\ UNCHANGED <<gameIndex, scans>>

IndexInit ==
  /\ \E files \in SUBSET HttpFiles, flat \in BOOLEAN :
       /\ library = [files |-> files, rootChanges |-> 0, subChanges |-> 0]
       /\ gameIndex = [flat |-> flat, files |-> files, token |-> <<0, 0>>, lock |-> "none", building |-> {}]
  /\ scans = [t \in HttpThreads |-> [pc |-> "idle", token |-> <<-1, -1>>]]

IndexNext ==
  \/ FolderChanges
  \/ \E t \in HttpThreads : ScanRoot(t) \/ ScanSub(t) \/ RebuildRoot(t) \/ RebuildSub(t)

IndexSpec == IndexInit /\ [][IndexNext]_indexVars

-----------------------------------------------------------------------------
(* Properties.                                                              *)

\* refresh: an index whose token is the folder's holds the folder's files, so a change is
\* never missed for good, however scans, rebuilds and copies overlap.
IndexNeverStuck == gameIndex.token = Token => gameIndex.files = library.files

\* What a row of games.csv leads to: with the path-aware profile the file it was made for;
\* with the flat one that file, or nothing when another has the same name.
RowsLeadHome ==
  \A f \in Rows(gameIndex.flat, gameIndex.files) :
    LET got == Lookup(gameIndex.flat, gameIndex.files, IF gameIndex.flat THEN <<f[Len(f)]>> ELSE f)
    IN  got = f \/ (gameIndex.flat /\ got = <<>> /\ Fold(Startup(f)) \in AmbiguousNames(gameIndex.files))

\* The index the handler threads share serves what it lists: it catches up with the folder,
\* and its rows lead to the files they were made for.
IndexServes == IndexNeverStuck /\ RowsLeadHome

-----------------------------------------------------------------------------
(* What the code or its comments lead one to expect and the code does not  *)
(* do (README, Observations). No run checks these.                          *)

\* _lookup_path: a path that is not in the list answers 404, not another disc.
PathIsAuthoritative ==
  ~gameIndex.flat => \A f \in HttpFiles : f \notin Retained(gameIndex.files) => LookupPath(gameIndex.files, f) = <<>>
=============================================================================
