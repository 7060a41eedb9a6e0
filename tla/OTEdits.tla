------------------------------ MODULE OTEdits ------------------------------
(***************************************************************************)
(* Concurrent edits of one document, the situation that Follow and Compose *)
(* exist for: A and B are changesets that two users make on the same text, *)
(* C is one that the first user makes on top of A.                         *)
(***************************************************************************)
EXTENDS OT, FiniteSets

CONSTANTS
    Texts,      \* the documents, sequences of distinct characters
    Inserts,    \* the strings users insert, the empty one included
    Drafts      \* what the first user's document may look like after C

VARIABLES text, A, B, C
vars == <<text, A, B, C>>

ASSUME EditsAssumption == /\ Texts \subseteq Seq(Nat)
                          /\ Inserts \subseteq Seq(Nat)
                          /\ Drafts \subseteq Seq(Nat)

\* Every merged changeset of a text of length n: an insert (or none) in every
\* gap, and each character kept or deleted.
Char(keep) == IF keep THEN Retain(1) ELSE Delete(1)
Gap(ops, s) == IF s = <<>> THEN ops ELSE addOp(ops, Insert(s))

Build(n, ins, keep) ==
    LET ops[i \in 0..n] ==
            IF i = 0 THEN Gap(<<>>, ins[0])
            ELSE Gap(addOp(ops[i - 1], Char(keep[i])), ins[i])
    IN  ops[n]

Changesets(n) ==
    {[oldLen |-> n, newLen |-> TotalOf(Produced, ops), ops |-> ops] :
        ops \in {Build(n, ins, keep) : ins \in [0..n -> Inserts],
                                       keep \in [1..n -> BOOLEAN]}}

after(t, c) == ApplyChangeset(t, c).text

\* The characters of the old text that an op keeps.
Kept(o) == IF o.op = "retain" THEN o.n ELSE 0

Init ==
    /\ text \in Texts
    /\ A = Identity(Len(text)) /\ B = A /\ C = A

\* The first user edits; then the second user, on the same text; or the first
\* user once more, and the client diffs the screen against what it has sent.
EditA ==
    /\ A = Identity(Len(text)) /\ B = A /\ C = A
    /\ A' \in Changesets(Len(text))
    /\ C' = Identity(A'.newLen)
    /\ UNCHANGED <<text, B>>

EditB ==
    /\ B = Identity(Len(text)) /\ C = Identity(A.newLen)
    /\ B' \in Changesets(Len(text))
    /\ UNCHANGED <<text, A, C>>

EditC ==
    /\ B = Identity(Len(text)) /\ C = Identity(A.newLen)
    /\ \E d \in Drafts : C' = DiffToChangeset(after(text, A), d)
    /\ UNCHANGED <<text, A, B>>

Next == EditA \/ EditB \/ EditC

Spec == Init /\ [][Next]_vars

-----------------------------------------------------------------------------
(***************************************************************************)
(* "Apply(Apply(doc, A), Follow(A, B)) == Apply(Apply(doc, B),             *)
(* Follow(B, A))", the follow-equivalence of ot_test.go:6: both users end  *)
(* with the same document whichever edit comes first, and no application   *)
(* fails.                                                                  *)
(***************************************************************************)
Convergence ==
    LET viaA == ApplyChangeset(after(text, A), Follow(A, B))
        viaB == ApplyChangeset(after(text, B), Follow(B, A))
    IN  viaA.ok /\ viaB.ok /\ viaA.text = viaB.text

(***************************************************************************)
(* The rebased edit is still the user's edit: it inserts exactly what B    *)
(* inserted and deletes exactly what B deleted and A had not, so that what *)
(* the first user typed survives.  Checked on texts with distinct          *)
(* characters that no insert uses.                                         *)
(***************************************************************************)
IntentPreserved ==
    LET merged == after(after(text, A), Follow(A, B))
        Remaining(t) == SelectSeq(t, LAMBDA c : c \in Range(text))
        Typed(t) == SelectSeq(t, LAMBDA c : c \notin Range(text))
        typed == {c \in Range(merged) : c \notin Range(text)}
        Count(t, c) == Len(SelectSeq(t, LAMBDA d : d = c))
    IN  /\ Remaining(merged) = SelectSeq(text, LAMBDA c :
               c \in Range(after(text, A)) /\ c \in Range(after(text, B)))
        /\ \A c \in typed : Count(merged, c) =
               Count(after(text, A), c) + Count(after(text, B), c)
        /\ Len(Typed(merged)) =
               Len(Typed(after(text, A))) + Len(Typed(after(text, B)))

(***************************************************************************)
(* What Follow and Compose return passes Validate, so that it can be       *)
(* stored, sent and followed again: the lengths that they add up on the    *)
(* way are the lengths of the texts.                                       *)
(***************************************************************************)
ResultsValid ==
    /\ Validate(Follow(A, B)) /\ Validate(Follow(B, A))
    /\ Validate(Compose(A, Follow(A, B)))
    /\ Validate(C) /\ Validate(Compose(A, C))

(***************************************************************************)
(* Compose is "A then C": the client folds what was acknowledged into A    *)
(* and rebuilds its base text from A alone (handleAck), also when C        *)
(* deletes what A has just inserted.                                       *)
(***************************************************************************)
ComposeLaw ==
    ApplyChangeset(text, Compose(A, C)) = ApplyChangeset(after(text, A), C)

(***************************************************************************)
(* The diff really leads from the old text to the new one, and keeps as    *)
(* much of the old text as any changeset between the two could: what the   *)
(* user did not touch is not deleted and typed again.                      *)
(***************************************************************************)
DiffMinimal ==
    LET new == after(text, A)
        d == DiffToChangeset(text, new)
        kept(c) == TotalOf(Kept, c.ops)
    IN  ApplyChangeset(text, d) = [ok |-> TRUE, text |-> new]
            /\ kept(d) >= kept(A)

=============================================================================
