----------------------------- MODULE AtomicStore -----------------------------
(***************************************************************************)
(* What the file of settings promises, whatever it is made of: a save      *)
(* changes one section of the document that is in the file, in one step,   *)
(* and nothing else of it.  No section of a newer gup is saved over; what  *)
(* is no settings document is set aside, never written over.               *)
(***************************************************************************)
CONSTANTS
  Sections,  \* the sections of the file
  Updated,   \* those whose saves add to what is there; others replace it
  NewerOf,   \* the sections a newer gup may save
  Edits      \* what the saves bring

VARIABLE document  \* the file: [kind, sections, newer]

Blank(kind) == [kind |-> kind, sections |-> [s \in Sections |-> {}], newer |-> {}]

Init == document \in {Blank("missing"), Blank("document")}

\* This gup, or another process of it, saves a section.
Save(s, edit) ==
  /\ document.kind # "corrupt"
  /\ s \notin document.newer
  /\ document' = [document EXCEPT !.kind = "document",
                    !.sections[s] = IF s \in Updated THEN @ \cup {edit} ELSE {edit}]

\* A newer gup saves a section.
NewerSaves(s) ==
  /\ document.kind # "corrupt"
  /\ document' = [document EXCEPT !.kind = "document", !.newer = @ \cup {s}]

\* Somebody leaves something else in its place.
Spoil == document' = Blank("corrupt")

SetAside ==
  /\ document.kind = "corrupt"
  /\ document' = Blank("missing")

Next ==
  \/ \E s \in Sections, edit \in Edits : Save(s, edit)
  \/ \E s \in NewerOf : NewerSaves(s)
  \/ Spoil
  \/ SetAside

Spec == Init /\ [][Next]_document
=============================================================================
