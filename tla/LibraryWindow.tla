---------------------------- MODULE LibraryWindow ----------------------------
(***************************************************************************)
(* The game and achievement library window (library_gui.py) and the library    *)
(* behind it (game_library.py): one worker thread at a time loads rows,        *)
(* installs an image or checks images against the achievement catalogue, and   *)
(* a timer in the window takes its events. A refresh asked for while the       *)
(* worker runs is remembered; one cancel flag serves every kind of work.       *)
(*                                                                         *)
(* A refresh is a number; loading rows looks at Entries images one by one.     *)
(* The image on disk and the one being installed are versions.                 *)
(***************************************************************************)
EXTENDS Integers, Sequences, FiniteSets

CONSTANTS
  Entries,       \* images a refresh looks at
  MaxClicks,     \* refreshes the user asks for (a bound)
  MaxJobs,       \* installations and checks (a bound)
  ImageSwaps,    \* how often other programs swap the checked image
  MaxTitles      \* titles added to the catalogue (a bound)

ASSUME WindowAssumption == {Entries, MaxClicks, MaxJobs, ImageSwaps, MaxTitles} \subseteq Nat

VARIABLES
  win,      \* [busy, loading, pending, cancel, closed]
  worker,   \* the thread: [op, at, click, cut]
  events,   \* the queue to the window
  shown,    \* the rows on display: [click, cut, said]
  clicks,   \* refreshes asked for so far
  asked,    \* the user pressed Cancel, or tried to close, during the present run
  target,   \* the image to install: "none" | "theirs" | "ours"
  temp,     \* the temporary file beside it: "none" | "part" | "whole"
  image,    \* [ver, swaps] the image that is checked
  status,   \* image_status: stamp -> hash
  titles,   \* the catalogue: row number -> title
  covers,   \* the covers folder: row number -> the title it was fetched for
  added,    \* titles added so far
  jobsLeft

windowVars == <<win, worker, events, shown, clicks, asked, target, temp, image, status, titles, covers, added, jobsLeft>>

IdleWorker == [op |-> "none"]
Outcome(k) == [kind |-> k]

-----------------------------------------------------------------------------
\* run: a worker starts with the cancel flag cleared; a refresh forgets the remembered one.
RunTask(j) ==
  /\ win' = [win EXCEPT !.busy = TRUE, !.cancel = FALSE, !.loading = (j.op = "rows"), !.pending = @ /\ j.op # "rows"]
  /\ worker' = j /\ asked' = FALSE

LoadRows(c) == [op |-> "rows", at |-> 0, click |-> c, cut |-> FALSE]

\* Mutant: a refresh is remembered only when rows are being loaded.
RememberLoading(w) == [w EXCEPT !.pending = @ \/ w.loading, !.cancel = @ \/ w.loading]

\* A refresh while the worker runs is remembered, and a loading of rows is cut short.
Recall(w) == [w EXCEPT !.pending = TRUE, !.cancel = @ \/ w.loading]

RefreshNow ==
  /\ clicks < MaxClicks /\ clicks' = clicks + 1
  /\ IF win.busy THEN win' = Recall(win) /\ UNCHANGED <<worker, asked>> ELSE RunTask(LoadRows(clicks'))

Refresh ==
  /\ ~win.closed /\ RefreshNow
  /\ UNCHANGED <<events, shown, target, temp, image, status, titles, covers, added, jobsLeft>>

Put(e) == events' = Append(events, e)
Answer(e) == Put(e) /\ worker' = IdleWorker

\* load_rows: the flag is looked at before each image; a folder or an index that cannot be
\* read is an error. The closing message says so when the flag is set at the end.
LoadStep ==
  /\ worker.op = "rows" /\ worker.at < Entries
  /\ worker' = IF win.cancel THEN [worker EXCEPT !.at = Entries, !.cut = TRUE] ELSE [worker EXCEPT !.at = @ + 1]
  /\ UNCHANGED <<win, events, shown, clicks, asked, target, temp, image, status, titles, covers, added, jobsLeft>>

LoadEnds ==
  /\ worker.op = "rows"
  /\ \/ worker.at = Entries /\ Answer([kind |-> "rows", click |-> worker.click, cut |-> worker.cut, said |-> win.cancel])
     \/ Answer([kind |-> "error", click |-> worker.click])
  /\ UNCHANGED <<win, shown, clicks, asked, target, temp, image, status, titles, covers, added, jobsLeft>>

\* poll: one event. The rows of a superseded loading are not shown, and the refresh that
\* was remembered, or the one that follows finished work, starts a worker again.
NoRows(c) == [click |-> c, cut |-> FALSE, said |-> FALSE]

Poll ==
  /\ events # <<>> /\ ~win.closed
  /\ LET e == Head(events)
         stale == win.loading /\ win.pending
         w == [win EXCEPT !.busy = FALSE] IN
     /\ events' = Tail(events)
     /\ shown' = IF e.kind = "rows" /\ ~stale THEN [click |-> e.click, cut |-> e.cut, said |-> e.said]
                 ELSE IF e.kind = "error" /\ win.loading /\ ~stale THEN NoRows(e.click) ELSE shown
     /\ IF e.kind = "done" \/ win.pending
        THEN RunTask(LoadRows(clicks))
        ELSE win' = w /\ UNCHANGED <<worker, asked>>
  /\ UNCHANGED <<clicks, target, temp, image, status, titles, covers, added, jobsLeft>>

\* Cancel, and close while the worker runs: the flag only. Close otherwise.
Cancel ==
  /\ ~win.closed /\ ~win.cancel
  /\ win' = [win EXCEPT !.cancel = TRUE] /\ asked' = TRUE
  /\ UNCHANGED <<worker, events, shown, clicks, target, temp, image, status, titles, covers, added, jobsLeft>>

CloseWindow ==
  /\ ~win.closed /\ ~win.busy
  /\ win' = [win EXCEPT !.closed = TRUE]
  /\ UNCHANGED <<worker, events, shown, clicks, asked, target, temp, image, status, titles, covers, added, jobsLeft>>

-----------------------------------------------------------------------------
\* install and download: transfer into a temporary file beside the target, validate, publish
\* without replacing.
BeginWork(j) ==
  /\ ~win.closed /\ ~win.busy /\ jobsLeft > 0
  /\ RunTask(j) /\ jobsLeft' = jobsLeft - 1
  /\ UNCHANGED <<events, shown, clicks, target, temp, image, status, titles, covers, added>>

InstallImage == BeginWork([op |-> "transfer", at |-> "check"])

TransferCheck ==
  /\ worker.op = "transfer" /\ worker.at = "check"
  /\ IF target # "none" THEN Answer(Outcome("error")) /\ UNCHANGED temp
     ELSE worker' = [worker EXCEPT !.at = "copy"] /\ temp' = "part" /\ UNCHANGED events
  /\ UNCHANGED <<win, shown, clicks, asked, target, image, status, titles, covers, added, jobsLeft>>

\* Every chunk looks at the flag; the copy may be short, empty or not an image, the source
\* may have changed. Then the file is published, and removed whatever happened.
TransferCopy ==
  /\ worker.op = "transfer" /\ worker.at = "copy"
  /\ \/ ~win.cancel /\ worker' = [worker EXCEPT !.at = "publish"] /\ temp' = "whole"
     \/ worker' = [worker EXCEPT !.at = "failed"] /\ UNCHANGED temp
  /\ UNCHANGED <<win, events, shown, clicks, asked, target, image, status, titles, covers, added, jobsLeft>>

TransferEnds ==
  /\ worker.op = "transfer" /\ worker.at \in {"publish", "failed"}
  /\ temp' = "none"
  /\ IF worker.at = "publish" /\ ~win.cancel /\ target = "none"
     THEN target' = "ours" /\ Answer(Outcome("done"))
     ELSE UNCHANGED target /\ Answer(Outcome("error"))
  /\ UNCHANGED <<win, shown, clicks, asked, image, status, titles, covers, added, jobsLeft>>

\* check: the stamp and the cached row first, then the catalogue of hashes is brought up to
\* date over the network, then the image is hashed between two looks of its own.
CheckImage == BeginWork([op |-> "check", at |-> "stamp"])

CheckStamp ==
  /\ worker.op = "check" /\ worker.at = "stamp"
  /\ worker' = [op |-> "check", at |-> "refresh", stamp |-> image.ver]
  /\ UNCHANGED <<win, events, shown, clicks, asked, target, temp, image, status, titles, covers, added, jobsLeft>>

CheckRefresh ==
  /\ worker.op = "check" /\ worker.at = "refresh"
  /\ \/ Answer(Outcome("error"))
     \/ worker.stamp \in DOMAIN status /\ Answer(Outcome("done"))
     \/ worker' = [op |-> "check", at |-> "hash", stamp |-> worker.stamp, before |-> image.ver] /\ UNCHANGED events
  /\ UNCHANGED <<win, shown, clicks, asked, target, temp, image, status, titles, covers, added, jobsLeft>>

CheckHash ==
  /\ worker.op = "check" /\ worker.at = "hash"
  /\ IF worker.stamp \in DOMAIN status THEN Answer(Outcome("done")) /\ UNCHANGED status
     ELSE IF image.ver # worker.before THEN Answer(Outcome("error")) /\ UNCHANGED status
     ELSE /\ Answer(Outcome("done"))
          /\ status' = [s \in DOMAIN status \cup {worker.stamp} |-> IF s = worker.stamp THEN image.ver ELSE status[s]]
  /\ UNCHANGED <<win, shown, clicks, asked, target, temp, image, titles, covers, added, jobsLeft>>

-----------------------------------------------------------------------------
\* Titles: SQLite hands the number of the last row out again once that row is deleted; a
\* cover is kept under the row's number and is never deleted with its row.
Largest(S) == IF S = {} THEN 0 ELSE CHOOSE n \in S : \A k \in S : k <= n

SaveTitle ==
  /\ ~win.closed /\ added < MaxTitles /\ added' = added + 1
  /\ LET n == Largest(DOMAIN titles) + 1 IN titles' = [i \in DOMAIN titles \cup {n} |-> IF i = n THEN added' ELSE titles[i]]
  /\ RefreshNow
  /\ UNCHANGED <<events, shown, target, temp, image, status, covers, jobsLeft>>

RemoveTitle ==
  /\ ~win.closed /\ ~win.busy
  /\ \E n \in DOMAIN titles : titles' = [i \in DOMAIN titles \ {n} |-> titles[i]]
  /\ RefreshNow
  /\ UNCHANGED <<events, shown, target, temp, image, status, covers, added, jobsLeft>>

RepairCover == \E n \in DOMAIN titles : BeginWork([op |-> "cover", n |-> n, title |-> titles[n]])
CoverEnds ==
  /\ worker.op = "cover"
  /\ \/ covers' = [i \in DOMAIN covers \cup {worker.n} |-> IF i = worker.n THEN worker.title ELSE covers[i]] /\ Answer(Outcome("done"))
     \/ UNCHANGED covers /\ Answer(Outcome("error"))
  /\ UNCHANGED <<win, shown, clicks, asked, target, temp, image, status, titles, added, jobsLeft>>

-----------------------------------------------------------------------------
\* Other programs: one puts the image in place itself, one swaps the checked image.
OtherCopies ==
  /\ target = "none" /\ target' = "theirs"
  /\ UNCHANGED <<win, worker, events, shown, clicks, asked, temp, image, status, titles, covers, added, jobsLeft>>

OtherSwaps ==
  /\ image.swaps < ImageSwaps
  /\ image' = [ver |-> 3 - image.ver, swaps |-> image.swaps + 1]
  /\ UNCHANGED <<win, worker, events, shown, clicks, asked, target, temp, status, titles, covers, added, jobsLeft>>

WindowInit ==
  /\ win = [busy |-> TRUE, loading |-> TRUE, pending |-> FALSE, cancel |-> FALSE, closed |-> FALSE]
  /\ worker = LoadRows(0) /\ events = <<>> /\ shown = NoRows(0)
  /\ clicks = 0 /\ asked = FALSE /\ target = "none" /\ temp = "none"
  /\ image = [ver |-> 1, swaps |-> 0] /\ status = [s \in {} |-> 0]
  /\ titles = [i \in {} |-> 0] /\ covers = [i \in {} |-> 0] /\ added = 0 /\ jobsLeft = MaxJobs

WorkerStep == LoadStep \/ LoadEnds \/ TransferCheck \/ TransferCopy \/ TransferEnds
              \/ CheckStamp \/ CheckRefresh \/ CheckHash \/ CoverEnds
WindowNext ==
  \/ WorkerStep \/ Refresh \/ Poll \/ Cancel \/ CloseWindow \/ InstallImage \/ CheckImage
  \/ SaveTitle \/ RemoveTitle \/ RepairCover \/ OtherCopies \/ OtherSwaps

WindowSpec == WindowInit /\ [][WindowNext]_windowVars

-----------------------------------------------------------------------------
\* Once the worker has answered and the window has taken every answer, what is on display
\* belongs to the last refresh that was asked for: a refresh requested while another kind
\* of work runs is not lost, and a superseded answer is not left standing.
LatestShown == ~win.busy /\ events = <<>> => shown.click = clicks

\* Rows that were cut short are on display only when the user pressed Cancel during
\* that loading, and then the message says so: the cut that a superseding refresh made
\* never shows.
PartialWasAskedFor == shown' # shown /\ shown'.cut => asked /\ shown'.said

\* What the window shows is the answer to what was last asked of it, whole unless the user
\* cut it short.
WindowFaithful == [][LatestShown' /\ PartialWasAskedFor]_windowVars

-----------------------------------------------------------------------------
(* What the code or its comments lead one to expect and the code does not  *)
(* do (README, Observations). No run checks these.                          *)

\* The hash kept for a stamp is that of the image with the stamp.
HashIsTheImages == \A s \in DOMAIN status : status[s] = s

\* The cover of a title was fetched for it.
CoverIsTheTitles == \A i \in DOMAIN titles \cap DOMAIN covers : covers[i] = titles[i]
=============================================================================
