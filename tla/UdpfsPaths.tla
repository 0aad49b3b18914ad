----------------------------- MODULE UdpfsPaths -----------------------------
(***************************************************************************)
(* MKDIR, REMOVE and RMDIR of a UDPFS session where links lead into other      *)
(* folders: "home" is a folder with the file "keep" in it, "link" a link to     *)
(* that folder. A path is a sequence of names. The user of the PC puts back     *)
(* what was deleted.                                                           *)
(***************************************************************************)
EXTENDS Integers, Sequences

VARIABLES
  tree,       \* which of home, keep and link there are
  dirAsked    \* the last request

pathsVars == <<tree, dirAsked>>

Requested == {<<"home">>, <<"link">>, <<"home", "keep">>, <<"link", "keep">>, <<"gone", "..", "link", "keep">>, <<>>}

\* _resolve_entry: the parent with its links followed, the last name as it is. A ".." after a
\* folder that does not exist is stepped over.
EntryOf(p) ==
  IF Len(p) <= 1 THEN p
  ELSE CASE p[1] = "home" -> <<"home", "keep">>
         [] p[1] = "link" -> IF tree.link THEN <<"home", "keep">> ELSE p
         [] OTHER -> IF tree.link THEN <<"home", "keep">> ELSE <<"link", "keep">>

\* Mutant: a folder that cannot be stat'ed ends the walk as if it were clean.
ThroughStops(p) ==
  IF Len(p) <= 1 THEN "no"
  ELSE CASE p[1] = "home" -> "no"
         [] p[1] = "link" -> IF tree.link THEN "yes" ELSE "no"
         [] OTHER -> "no"

\* _through_linked_folder: TRUE, FALSE, or an error for a folder that is not there.
Through(p) ==
  IF Len(p) <= 1 THEN "no"
  ELSE CASE p[1] = "home" -> IF tree.home THEN "no" ELSE "error"
         [] p[1] = "link" -> IF tree.link THEN "yes" ELSE "error"
         [] OTHER -> "error"

Present(e) == CASE e = <<>> -> TRUE [] e = <<"home">> -> tree.home [] e = <<"link">> -> tree.link
                [] e = <<"home", "keep">> -> tree.home /\ tree.keep [] OTHER -> FALSE

\* _handle_remove: no folder, and nothing through a link.
RemovePath(p) ==
  /\ dirAsked' = [op |-> "remove", path |-> p]
  /\ LET e == EntryOf(p)
     IN  tree' = IF Through(p) # "no" \/ e \in {<<>>, <<"home">>} \/ ~Present(e) THEN tree
                 ELSE IF e = <<"link">> THEN [tree EXCEPT !.link = FALSE] ELSE [tree EXCEPT !.keep = FALSE]

\* _handle_rmdir: an empty folder that is not the root and not a link.
RmdirPath(p) ==
  /\ dirAsked' = [op |-> "rmdir", path |-> p]
  /\ tree' = IF Through(p) = "no" /\ EntryOf(p) = <<"home">> /\ tree.home /\ ~tree.keep THEN [tree EXCEPT !.home = FALSE] ELSE tree

\* _handle_mkdir: the entry itself, so over a link it fails.
MkdirPath(p) ==
  /\ dirAsked' = [op |-> "mkdir", path |-> p]
  /\ tree' = IF EntryOf(p) = <<"home">> /\ ~tree.home THEN [tree EXCEPT !.home = TRUE] ELSE tree

\* The user makes the folder, the file or the link again.
UserRestores ==
  /\ \/ ~tree.home /\ tree' = [tree EXCEPT !.home = TRUE]
     \/ tree.home /\ ~tree.keep /\ tree' = [tree EXCEPT !.keep = TRUE]
     \/ ~tree.link /\ tree' = [tree EXCEPT !.link = TRUE]
  /\ dirAsked' = [op |-> "none", path |-> <<>>]

PathsInit == tree = [home |-> TRUE, keep |-> TRUE, link |-> TRUE] /\ dirAsked = [op |-> "none", path |-> <<>>]

PathsNext == UserRestores \/ \E p \in Requested : RemovePath(p) \/ RmdirPath(p) \/ MkdirPath(p)

PathsSpec == PathsInit /\ [][PathsNext]_pathsVars

-----------------------------------------------------------------------------
(* Properties.                                                              *)

\* _resolve_entry and _through_linked_folder: what is deleted is what the path names, a link as
\* itself; a file behind a link stays.
LinksNotFollowed ==
  [][/\ (tree.keep /\ ~tree'.keep => dirAsked' = [op |-> "remove", path |-> <<"home", "keep">>])
     /\ (tree.link /\ ~tree'.link => dirAsked' = [op |-> "remove", path |-> <<"link">>])
     /\ (tree.home /\ ~tree'.home => dirAsked' = [op |-> "rmdir", path |-> <<"home">>])]_pathsVars
=============================================================================
