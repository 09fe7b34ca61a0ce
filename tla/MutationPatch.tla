---------------------------- MODULE MutationPatch ----------------------------
(***************************************************************************)
(* Unified patches: a model's patch is applied to the file it names when   *)
(* it is proposed and again when it is validated, and the patch that would *)
(* take it back is stored with the transaction (mutation/patch.ts,         *)
(* planner.ts 31-36, validate.ts 54-62, apply.ts 16-21).                   *)
(*                                                                         *)
(* A file is its lines and whether the last one ends in a newline.  Of a   *)
(* line only two things matter beside its identity: whether it starts with *)
(* "++", and what is left of it without a carriage return at its end.      *)
(***************************************************************************)
EXTENDS Integers, Sequences, SequencesExt

CONSTANTS
    Contents,   \* the files there may be: [lines, newline]
    PlusPlus,   \* lines that start with "++"
    Unreturned, \* each line without its carriage return
    Patches     \* what a model may answer: [gone, hunks], each hunk [start, old, new, lines],
                \* each line [kind, text], the kinds being " ", "-", "+" and "\\"

VARIABLE patched  \* a file, a patch of it, and what became of both

Empty == [lines |-> <<>>, newline |-> FALSE]
Rejected == [lines |-> <<>>, newline |-> TRUE]   \* no file: PATCH_REJECTED

\* ----------------------------------------------------------------- applying
\* One line of a hunk: context and deletions must be what the file holds at the cursor.
Holds(at, text) == at.cursor < Len(at.file) /\ at.file[at.cursor + 1] = text
Line(at, line) ==
    LET text == Unreturned[line.text] IN
    CASE line.kind = "\\" -> at
      [] line.kind = " " ->
           [at EXCEPT !.ok = @ /\ Holds(at, text), !.result = Append(@, text),
                      !.cursor = @ + 1, !.consumed = @ + 1, !.produced = @ + 1]
      [] line.kind = "-" ->
           [at EXCEPT !.ok = @ /\ Holds(at, text), !.cursor = @ + 1, !.consumed = @ + 1]
      [] OTHER -> [at EXCEPT !.result = Append(@, text), !.produced = @ + 1]

Start(hunk) == IF hunk.start = 0 THEN 0 ELSE hunk.start - 1
Reachable(at, start) == start <= Len(at.file)   \* mutant of InReach
InReach(at, start) == start >= at.cursor /\ start <= Len(at.file)

Hunk(at, hunk) ==
    LET begun == [at EXCEPT !.result = @ \o SubSeq(at.file, at.cursor + 1, Start(hunk)),
                            !.cursor = Start(hunk), !.consumed = 0, !.produced = 0]
        done == FoldLeft(Line, begun, hunk.lines)
    IN IF ~at.ok \/ ~InReach(at, Start(hunk)) THEN [at EXCEPT !.ok = FALSE]
       ELSE [done EXCEPT !.ok = @ /\ done.consumed = hunk.old /\ done.produced = hunk.new]

\* "\ No newline at end of file" after an added line, unless that line looks like a header
EndsBare(patch) ==
    \E h \in DOMAIN patch.hunks : LET lines == patch.hunks[h].lines IN
        \E k \in 2..Len(lines) : /\ lines[k].kind = "\\" /\ lines[k - 1].kind = "+"
                                 /\ lines[k - 1].text \notin PlusPlus

applyUnifiedPatch(before, patch) ==
    LET at == FoldLeft(Hunk, [file |-> before.lines, cursor |-> 0, result |-> <<>>,
                              consumed |-> 0, produced |-> 0, ok |-> TRUE], patch.hunks)
        lines == at.result \o SubSeq(before.lines, at.cursor + 1, Len(before.lines))
    IN IF ~at.ok \/ patch.hunks = <<>> THEN Rejected
       ELSE [lines |-> lines, newline |-> lines # <<>> /\ ~patch.gone /\ ~EndsBare(patch)]

\* ----------------------------------------------------------------- creating
Prefixed(content, kind) == [k \in DOMAIN content.lines |-> [kind |-> kind, text |-> content.lines[k]]]
Unmarked(content) == <<>>   \* mutant of Marker
Marker(content) ==
    IF content.lines # <<>> /\ ~content.newline THEN <<[kind |-> "\\", text |-> Last(content.lines)]>> ELSE <<>>
FirstLine(content) == IF content.lines = <<>> THEN 0 ELSE 1

createUnifiedPatch(before, after) ==
    [gone |-> after = Empty,
     hunks |-> <<[start |-> FirstLine(before), old |-> Len(before.lines), new |-> Len(after.lines),
                  lines |-> Prefixed(before, "-") \o Marker(before) \o Prefixed(after, "+") \o Marker(after)]>>]

\* ------------------------------------------------------------------ actions
Init == patched = [pc |-> "idle", before |-> Empty, patch |-> [gone |-> FALSE, hunks |-> <<>>],
                   after |-> Empty, restored |-> Empty]

\* propose reads a file and applies the model's patch, or the patch is rejected.
Propose ==
    /\ patched.pc = "idle"
    /\ \E before \in Contents, patch \in Patches \cup {createUnifiedPatch(b, a) : b, a \in Contents} :
          LET after == applyUnifiedPatch(before, patch)
          IN patched' = [patched EXCEPT !.pc = IF after = Rejected THEN "rejected" ELSE "proposed",
                                        !.before = before, !.patch = patch, !.after = after]

\* validateMutation applies it again to a file with the same hash; the reverse is stored.
Write ==
    /\ patched.pc = "proposed"
    /\ patched' = [patched EXCEPT !.pc = "written",
                      !.patch = createUnifiedPatch(patched.after, patched.before)]

\* Somebody takes the change back with the stored patch.
TakeBack ==
    /\ patched.pc = "written"
    /\ patched' = [patched EXCEPT !.pc = "reversed",
                      !.restored = applyUnifiedPatch(patched.after, patched.patch)]

Next == Propose \/ Write \/ TakeBack

\* --------------------------------------------------------------- properties
Side(hunk, kinds) ==
    LET lines == SelectSeq(hunk.lines, LAMBDA l : l.kind \in kinds)
    IN [k \in DOMAIN lines |-> Unreturned[lines[k].text]]
Old(hunk) == Side(hunk, {" ", "-"})
New(hunk) == Side(hunk, {" ", "+"})
End(hunk) == Start(hunk) + Len(Old(hunk))

\* the hunks say where they go, do not overlap, and hold what the file holds there
Matches(file, hunks) ==
    /\ hunks # <<>>
    /\ \A k \in DOMAIN hunks :
          /\ End(hunks[k]) <= Len(file)
          /\ SubSeq(file, Start(hunks[k]) + 1, End(hunks[k])) = Old(hunks[k])
          /\ hunks[k].old = Len(Old(hunks[k])) /\ hunks[k].new = Len(New(hunks[k]))
          /\ \A j \in 1..(k - 1) : End(hunks[j]) <= Start(hunks[k])
Spliced(file, hunks) ==
    FoldRight(LAMBDA hunk, lines :
        SubSeq(lines, 1, Start(hunk)) \o New(hunk) \o SubSeq(lines, End(hunk) + 1, Len(lines)), hunks, file)

\* A patch changes the lines its hunks name and nothing else, or it is rejected: exactly when
\* its hunks overlap, miscount, leave the file or do not match it (patch.ts 26-42).
SplicesExactly ==
    LET file == patched.before.lines
        hunks == patched.patch.hunks
    IN /\ patched.pc = "proposed" => Matches(file, hunks) /\ patched.after.lines = Spliced(file, hunks)
       /\ patched.pc = "rejected" => ~Matches(file, hunks)

\* The stored reverse patch gives back the file as it was, with or without its last newline,
\* except where the format fails: lines that end in a carriage return are never matched, and a
\* last line that starts with "++" gains a newline (apply.ts 16-21, patch.ts 15, 25, 46-55).
ReverseRestores ==
    LET before == patched.before
        gained == ~before.newline /\ before.lines # <<>> /\ Last(before.lines) \in PlusPlus
    IN patched.pc = "reversed" =>
         IF \E k \in DOMAIN patched.after.lines :
               Unreturned[patched.after.lines[k]] # patched.after.lines[k]
         THEN patched.restored = Rejected
         ELSE patched.restored = [before EXCEPT !.newline = @ \/ gained]

\* A proposed patch changes exactly what it says it changes, and can be taken back: what a model
\* answers and what is stored for the rollback are the same change (mutation/patch.ts 13-55).
PatchesExact == SplicesExactly /\ ReverseRestores
==============================================================================
