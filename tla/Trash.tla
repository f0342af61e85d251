------------------------------- MODULE Trash -------------------------------
(***************************************************************************)
(* What the commands on stored files promise a user who waits for each to  *)
(* end: a file is in one place, a folder, the trash or nowhere; no two     *)
(* files share a place in a folder; only a purge removes a file, only from *)
(* the trash; and its content is removed only after that.  FileCommands    *)
(* with one command at a time implements it, under FileCommands!Place.     *)
(***************************************************************************)
CONSTANTS FileId, Slot

VARIABLES
  place,    \* where each file is
  content   \* the files whose content is stored

vars == <<place, content>>

InFolder(slot) == [in |-> "folder", slot |-> slot]
InTrash == [in |-> "trash"]
Nowhere == [in |-> "nowhere"]

Free(slot) == \A f \in FileId : place[f] # InFolder(slot)

Init ==
  /\ place \in [FileId -> {InFolder(slot) : slot \in Slot}]
  /\ \A f, g \in FileId : place[f] = place[g] => f = g
  /\ content = FileId

\* Rename, move, restore: into a free place, from a folder or the trash.
Put(f, slot) ==
  /\ place[f] # Nowhere
  /\ Free(slot)
  /\ place' = [place EXCEPT ![f] = InFolder(slot)]
  /\ UNCHANGED content

\* A folder is deleted with all the files in it.
Discard(fs) ==
  /\ \A f \in fs : place[f] \notin {InTrash, Nowhere}
  /\ place' = [f \in FileId |-> IF f \in fs THEN InTrash ELSE place[f]]
  /\ UNCHANGED content

\* A purge takes several files at a time.
Purge(fs) ==
  /\ \A f \in fs : place[f] = InTrash
  /\ place' = [f \in FileId |-> IF f \in fs THEN Nowhere ELSE place[f]]
  /\ UNCHANGED content

Erase(f) ==
  /\ place[f] = Nowhere
  /\ content' = content \ {f}
  /\ UNCHANGED place

Next ==
  \/ \E f \in FileId : Erase(f) \/ \E slot \in Slot : Put(f, slot)
  \/ \E fs \in SUBSET FileId : Discard(fs) \/ Purge(fs)

Spec == Init /\ [][Next]_vars
=============================================================================
