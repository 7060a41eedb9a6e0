---------------------------- MODULE DocumentFSM ----------------------------
(***************************************************************************)
(* The replicated document of internal/fsm: a text, the log of revisions   *)
(* that led to it and the last submission of every client.  Every server   *)
(* has one and feeds it the committed entries in order; it is a function   *)
(* of the entries it has been given.                                       *)
(***************************************************************************)
EXTENDS OT

CONSTANT ClientIds      \* the client ids that entries may carry

(***************************************************************************)
(* A RaftLogEntry: [client, sub, base, cs].  A RevisionRecord keeps the    *)
(* rebased changeset and its source; sub is kept for the properties.       *)
(* headRev is the number of revisions.  Submission ids begin at 1, so 0    *)
(* stands for a client that has not been seen.                             *)
(***************************************************************************)
NewDocument ==
    [text |-> <<>>, revs |-> <<>>, last |-> [i \in ClientIds |-> 0]]

headRev(doc) == Len(doc.revs)

\* Defect: a resubmission is taken for a new edit.
NeverDuplicate(doc, e) == FALSE

\* The duplicate check of Apply.
IsDuplicate(doc, e) == e.sub <= doc.last[e.client]

\* Changeset cs, made at revision base, moved over the revisions up to r.
Moved(revs, cs, base, r) ==
    LET C[i \in 0..Len(revs)] ==
            IF i <= base THEN cs ELSE Follow(revs[i].cs, C[i - 1])
    IN  C[r]

\* Defect: the first revision that the client has not seen is left out.
RebaseOffByOne(doc, e) == Moved(doc.revs, e.cs, e.base + 1, headRev(doc))

\* The entry's changeset moved over every revision since its base.
Rebase(doc, e) == Moved(doc.revs, e.cs, e.base, headRev(doc))

\* The revisions that a client at revision r has missed.
RevisionsSince(doc, r) == SubSeq(doc.revs, r + 1, headRev(doc))

\* The document when C, to which entry e has been rebased, is applied.  What
\* does not fit the text leaves everything as it is, the last submission too.
Applied(doc, e, C) ==
    LET applied == ApplyChangeset(doc.text, C)
    IN  IF ~ applied.ok THEN doc
        ELSE [text |-> applied.text,
              revs |-> Append(doc.revs, [cs |-> C, source |-> e.client,
                                         sub |-> e.sub]),
              last |-> [doc.last EXCEPT ![e.client] = e.sub]]

\* The document after entry e.
AfterEntry(doc, e) ==
    IF IsDuplicate(doc, e) THEN doc ELSE Applied(doc, e, Rebase(doc, e))

\* Defect: a duplicate is discarded without an ApplyResult.
SilentDuplicate(doc, e, after) ==
    IF after = doc THEN <<>>
    ELSE <<[client |-> e.client, rev |-> headRev(after), dup |-> FALSE,
            cs |-> Last(after.revs).cs]>>

\* The ApplyResults handed to onCommit when entry e has turned doc into after:
\* one for an edit, one for a duplicate, which carries the present revision and
\* nothing to broadcast, none when the entry could not be applied.
Results(doc, e, after) ==
    CASE IsDuplicate(doc, e) ->
             <<[client |-> e.client, rev |-> headRev(doc), dup |-> TRUE,
                cs |-> Identity(0)]>>
      [] ~ IsDuplicate(doc, e) /\ after # doc ->
             <<[client |-> e.client, rev |-> headRev(after), dup |-> FALSE,
                cs |-> Last(after.revs).cs]>>
      [] OTHER -> <<>>

\* The document after the first n entries, and the text of revision r, for the
\* properties.
DocumentAfter(entries, n) ==
    LET doc[i \in 0..Len(entries)] ==
            IF i = 0 THEN NewDocument ELSE AfterEntry(doc[i - 1], entries[i])
    IN  doc[n]

TextAt(doc, r) ==
    LET text[i \in 0..headRev(doc)] ==
            IF i = 0 THEN <<>>
            ELSE ApplyChangeset(text[i - 1], doc.revs[i].cs).text
    IN  text[r]

=============================================================================
