--------------------------- MODULE VersionedFiles ---------------------------
(***************************************************************************)
(* What the file system promises the console (app/include/Flash/SPFS.h):   *)
(* a file is the list of the contents that were stored under its name,     *)
(* oldest first.  A content is collected piece by piece and then becomes a *)
(* version of its file whole, or it is lost whole; nothing that happens to *)
(* the board takes a version away or changes it, except mkfs, which takes  *)
(* everything.                                                             *)
(***************************************************************************)
EXTENDS Naturals, Sequences

CONSTANTS
    Writers,   \* who can be collecting a content
    Nothing    \* the value of "pending" of a writer that collects nothing

VARIABLES
    files,     \* from the existing keys to their sequences of contents
    pending    \* per writer: the key and the content collected, or Nothing

vars == <<files, pending>>

Init ==
    /\ files = <<>>
    /\ pending = [w \in Writers |-> Nothing]

\* a file comes into being, without a content
Create ==
    /\ UNCHANGED pending
    /\ \E k \in DOMAIN files' \ DOMAIN files :
          files' = [j \in DOMAIN files \cup {k} |-> IF j = k THEN <<>> ELSE files[j]]

\* a writer turns to a file, collects more of its content, or gives it up
Collect(w) ==
    /\ \/ pending[w] = Nothing
       \/ /\ pending'[w] # Nothing
          /\ pending'[w].key = pending[w].key
          /\ pending[w].text = SubSeq(pending'[w].text, 1, Len(pending[w].text))
    /\ \A v \in Writers \ {w} : pending'[v] = pending[v]
    /\ UNCHANGED files

Lose ==
    /\ \A w \in Writers : pending'[w] \in {Nothing, pending[w]}
    /\ UNCHANGED files

\* the collected content becomes the newest version of its file
Commit(w) ==
    /\ pending[w] # Nothing
    /\ pending[w].key \in DOMAIN files
    /\ pending' = [pending EXCEPT ![w] = Nothing]
    /\ files' = [files EXCEPT ![pending[w].key] = Append(@, pending[w].text)]

Format == UNCHANGED pending /\ files' = <<>>

Next ==
    \/ Create
    \/ \E w \in Writers : Collect(w) \/ Commit(w)
    \/ Lose
    \/ Format

Spec == Init /\ [][Next]_vars
=============================================================================
