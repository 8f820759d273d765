------------------------------ MODULE UnifiedDiff ------------------------------
(***************************************************************************)
(* apply_unified_diff of fixlog/workers/verifier.py: how the fix of an     *)
(* entry is applied to its files, checked against the diffs that git makes *)
(* of two versions of a file, and against what a hunk means.               *)
(*                                                                         *)
(* An edit script grows line by line; a file is a sequence of lines, and   *)
(* an expression is evaluated in every script: nothing else changes.       *)
(***************************************************************************)
EXTENDS Integers, Sequences, SequencesExt

CONSTANTS
    Lines,       \* the text of a line
    Context,     \* context lines around a change, at least 1 (git's default is 3)
    MaxScript,   \* bound: lines of the edit script
    MaxOther     \* bound: lines of a file that the diff was not made for

ASSUME ContextAssumption == Context \in Nat \ {0}

VARIABLE script    \* [prefix, text]: a line kept (" "), removed ("-") or added ("+")

DiffInit == script = << >>

DiffNext ==
    /\ Len(script) < MaxScript
    /\ \E prefix \in {" ", "-", "+"}, text \in Lines :
         script' = Append(script, [prefix |-> prefix, text |-> text])

DiffSpec == DiffInit /\ [][DiffNext]_script

\* The texts of the lines with these prefixes.
Side(edits, prefixes) ==
    FoldLeft(LAMBDA side, line : IF line.prefix \in prefixes THEN Append(side, line.text) ELSE side,
             << >>, edits)
OldSide(edits) == Side(edits, {" ", "-"})
NewSide(edits) == Side(edits, {" ", "+"})

-----------------------------------------------------------------------------
(* git diff of the two versions.                                           *)

Shown(i) ==
    \E j \in DOMAIN script : /\ script[j].prefix # " "
                             /\ i - j <= Context /\ j - i <= Context

\* A hunk: a longest run of shown lines, with the line of the old file it starts at;
\* one without old lines names the line before it, 0 in a new file.
Hunk(first, last) ==
    LET body == SubSeq(script, first, last)
        before == Len(OldSide(SubSeq(script, 1, first - 1)))
    IN  [start |-> IF OldSide(body) = << >> THEN before ELSE before + 1, body |-> body]

HunkSpans ==
    {span \in (DOMAIN script) \X (DOMAIN script) :
        LET first == span[1] last == span[2]
        IN  /\ first <= last /\ \A i \in first..last : Shown(i)
            /\ first > 1 => ~Shown(first - 1)
            /\ last < Len(script) => ~Shown(last + 1)}

Diff ==
    LET spans == CHOOSE spans \in [1..Cardinality(HunkSpans) -> HunkSpans] :
                     \A i, j \in DOMAIN spans : i < j => spans[i][1] < spans[j][1]
    IN  [i \in DOMAIN spans |-> Hunk(spans[i][1], spans[i][2])]

-----------------------------------------------------------------------------
(* _apply_hunks.                                                           *)

\* at is old_index, out the output; error is the ValueError's cause, or "none".
Error(done, cause) == [done EXCEPT !.error = cause]

OldStartOffByOne(hunk) == hunk.start
OldStart(hunk) == hunk.start - 1

ExpectedUnlessContext(file, done, line) ==
    done.at < Len(file) /\ (line.prefix = " " \/ file[done.at + 1] = line.text)

\* A context line or a removed line is what the file has there.
Expected(file, done, line) == done.at < Len(file) /\ file[done.at + 1] = line.text

ApplyLine(file, done, line) ==
    IF done.error # "none" THEN done
    ELSE IF line.prefix = "+" THEN [done EXCEPT !.out = Append(@, line.text)]
    ELSE IF line.prefix = "d" THEN Error(done, "unknown hunk line prefix")
    ELSE IF ~Expected(file, done, line) THEN Error(done, "mismatch")
    ELSE IF line.prefix = "-" THEN [done EXCEPT !.at = @ + 1]
    ELSE [done EXCEPT !.at = @ + 1, !.out = Append(@, line.text)]

\* original_lines[old_index:old_start] may reach past the end of the file.
Gap(file, at, start) == SubSeq(file, at + 1, IF start < Len(file) THEN start ELSE Len(file))

ApplyHunk(file, done, hunk) ==
    IF done.error # "none" THEN done
    ELSE IF OldStart(hunk) < done.at THEN Error(done, "overlapping hunks")
    ELSE FoldLeft(LAMBDA d, line : ApplyLine(file, d, line),
                  [done EXCEPT !.at = OldStart(hunk),
                               !.out = @ \o Gap(file, done.at, OldStart(hunk))],
                  hunk.body)

\* The output gets its last newline also when it is empty: a file with one empty line.
ApplyHunks(file, hunks) ==
    LET done == FoldLeft(LAMBDA d, hunk : ApplyHunk(file, d, hunk),
                         [at |-> 0, out |-> << >>, error |-> "none"], hunks)
        out == done.out \o Gap(file, done.at, Len(file))
    IN  [error |-> done.error, out |-> IF out = << >> /\ file # << >> THEN <<"">> ELSE out]

OnlyContext(hunks) == FlattenSeq([i \in DOMAIN hunks |-> Side(hunks[i].body, {" "})])

\* _original_from_hunks: what stands in for a file that the sandbox spec does not have.
OriginalFromHunks(hunks) == FlattenSeq([i \in DOMAIN hunks |-> OldSide(hunks[i].body)])

-----------------------------------------------------------------------------
(* apply_unified_diff, and what the sandbox makes of its result.           *)

DevNull == "/dev/null"
Without(files, path) == Restrict(files, DOMAIN files \ {path})
With(files, path, lines) ==
    [p \in DOMAIN files \cup {path} |-> IF p = path THEN lines ELSE files[p]]

\* git's diff of one file; files without a change have none, whatever their names.
FileDiff(old, new) == IF Diff = << >> THEN << >> ELSE <<[old |-> old, new |-> new, hunks |-> Diff]>>

\* All lines up to the next "--- " line belong to the last hunk: so does the line
\* "diff --git" with which git begins the next file.
Header == [prefix |-> "d", text |-> "iff --git"]
Parsed(diff) ==
    [i \in DOMAIN diff |->
        IF i = Len(diff) THEN diff[i]
        ELSE [diff[i] EXCEPT !.hunks[Len(diff[i].hunks)].body = Append(@, Header)]]

\* The lines of the hunks that read "--- ": removed lines that begin with "-- ", which are
\* the ones in dashed.  Each ends its hunk and is taken for the header of a file, ...
Dashes(hunks, dashed) ==
    UNION {{i} \X {j \in DOMAIN hunks[i].body :
                      hunks[i].body[j].prefix = "-" /\ hunks[i].body[j].text \in dashed} :
              i \in DOMAIN hunks}

\* ... whose second line has to be the next one: one that adds a line that begins with
\* "++ ", one of those in plussed.
IsHeader(hunks, at, plussed) ==
    LET body == hunks[at[1]].body
    IN  /\ at[2] < Len(body)
        /\ body[at[2] + 1].prefix = "+" /\ body[at[2] + 1].text \in plussed

\* The hunks that begin after hunk "from" and before the line "to", where the last ends.
HunksUpToTooShort(hunks, from, to) ==
    [i \in 1..(to[1] - from) |->
        IF from + i = to[1] THEN [hunks[from + i] EXCEPT !.body = SubSeq(@, 1, to[2] - 2)]
        ELSE hunks[from + i]]
HunksUpTo(hunks, from, to) ==
    [i \in 1..(to[1] - from) |->
        IF from + i = to[1] THEN [hunks[from + i] EXCEPT !.body = SubSeq(@, 1, to[2] - 1)]
        ELSE hunks[from + i]]

\* The lines that read "--- " as they follow each other, and those before which, and at
\* which, there are only headers.
DashOrder(hunks, dashed) ==
    CHOOSE order \in [1..Cardinality(Dashes(hunks, dashed)) -> Dashes(hunks, dashed)] :
        \A k, l \in DOMAIN order : k < l =>
            \/ order[k][1] < order[l][1]
            \/ order[k][1] = order[l][1] /\ order[k][2] < order[l][2]
Headers(hunks, order, plussed) ==
    {k \in DOMAIN order : \A l \in 1..k : IsHeader(hunks, order[l], plussed)}

\* The rest of a hunk after a header is skipped, and the hunks that follow are the new
\* file's.  Its paths are in the texts of the two lines, which stand for them here.
FileRead(file, ends, k) ==
    LET hunks == file.hunks
        text(line) == hunks[ends[k - 1][1]].body[ends[k - 1][2] + line].text
    IN  IF k = 1 THEN [file EXCEPT !.hunks = HunksUpTo(hunks, 0, ends[1])]
        ELSE [old |-> text(0), new |-> text(1),
              hunks |-> HunksUpTo(hunks, ends[k - 1][1], ends[k])]

\* The files that the diff of one file is read as, up to a header without its second line.
FilesRead(file, dashed, plussed) ==
    LET order == DashOrder(file.hunks, dashed)
        ends == Append(order, <<Len(file.hunks), Len(Last(file.hunks).body) + 1>>)
        headers == Headers(file.hunks, order, plussed)
    IN  [k \in 1..(Cardinality(headers) + 1) |-> FileRead(file, ends, k)]

ApplyFile(done, file) ==
    LET source == IF file.old = DevNull THEN file.new ELSE file.old
        original == IF source \in DOMAIN done.files THEN done.files[source]
                    ELSE OriginalFromHunks(file.hunks)
        patched == ApplyHunks(original, file.hunks)
    IN  IF done.error # "none" THEN done
        ELSE IF file.new = DevNull THEN [done EXCEPT !.files = Without(@, file.old)]
        ELSE [error |-> patched.error,
              files |-> With(Without(done.files, source), file.new, patched.out)]

\* A header without its second line is an error, once the files before it were patched.
ReadAndApply(done, file, dashed, plussed) ==
    LET applied == FoldLeft(ApplyFile, done, FilesRead(file, dashed, plussed))
    IN  IF applied.error = "none"
           /\ \E at \in Dashes(file.hunks, dashed) : ~IsHeader(file.hunks, at, plussed)
        THEN [error |-> "expected +++ line", files |-> applied.files] ELSE applied

ApplyUnifiedDiff(files, diff, dashed, plussed) ==
    FoldLeft(LAMBDA done, file : ReadAndApply(done, file, dashed, plussed),
             [files |-> files, error |-> "none"], Parsed(diff))

\* The commands of _fix_overlay_commands, run in the workspace after the setup: files
\* that the diff removes are removed, and those that it changes written.
Overlay(workspace, original, fixed) ==
    LET changed == {p \in DOMAIN fixed : p \in DOMAIN original => original[p] # fixed[p]}
        removed == DOMAIN original \ DOMAIN fixed
    IN  [p \in changed \cup (DOMAIN workspace \ removed) |->
            IF p \in changed THEN fixed[p] ELSE workspace[p]]

-----------------------------------------------------------------------------
(* What a diff means, without an algorithm.                                *)

\* The file has the old side of every hunk at the line that the hunk names.
Fits(file, hunks) ==
    \A i \in DOMAIN hunks :
        LET old == OldSide(hunks[i].body)
        IN  /\ hunks[i].start >= 1 /\ hunks[i].start - 1 + Len(old) <= Len(file)
            /\ SubSeq(file, hunks[i].start, hunks[i].start - 1 + Len(old)) = old

\* The new sides of the hunks, and between them what no hunk covers.
Spliced(file, hunks) ==
    LET after(i) == IF i = 0 THEN 1
                    ELSE hunks[i].start + Len(OldSide(hunks[i].body))
        piece(i) == SubSeq(file, after(i - 1), hunks[i].start - 1) \o NewSide(hunks[i].body)
    IN  FlattenSeq([i \in DOMAIN hunks |-> piece(i)])
        \o SubSeq(file, after(Len(hunks)), Len(file))

-----------------------------------------------------------------------------
(* Properties.                                                             *)

\* The names of the two versions: kept, moved, of a new file, of a removed one.
Names ==
    {<<"a", "a">>, <<"a", "b">>}
    \cup (IF OldSide(script) = << >> THEN {<<DevNull, "a">>} ELSE {})
    \cup (IF NewSide(script) = << >> THEN {<<"a", DevNull>>} ELSE {})

\* The files of a spec that has one more, before and after.
Other == [p \in {"c"} |-> <<"other">>]
BeforeDiff(names) == IF names[1] = DevNull THEN Other ELSE With(Other, names[1], OldSide(script))
AfterDiff(names) ==
    IF names[2] = DevNull THEN Other
    ELSE With(Other, names[2], IF NewSide(script) = << >> THEN <<"">> ELSE NewSide(script))

\* The lines of the script that read "--- " in its diff, and those that read on "+++ ".
DashedLines(dashed) ==
    {i \in DOMAIN script : script[i].prefix = "-" /\ script[i].text \in dashed}
Heads(i, plussed) ==
    i < Len(script) /\ script[i + 1].prefix = "+" /\ script[i + 1].text \in plussed

\* The diff of two versions turns the first into the second in the sandbox, under the
\* second's name, and leaves alone the other files of the spec and of the setup commands.
\* The exceptions are the code's: it is refused for a new file ("@@ -0,0 ..." as
\* "overlapping hunks") and when it removes a line that begins with "-- " and does not
\* directly after it add one that begins with "++ " (HeaderCutsHunk says what happens if it
\* does: nothing is promised then); a file that becomes empty keeps one empty line, and one
\* that is only moved stays where it is.
PatchesItsOriginal ==
    \A names \in Names, dashed \in {{}} \cup {{l} : l \in Lines} :
    \A plussed \in {{}, Lines \ dashed} :
        LET before == BeforeDiff(names) after == AfterDiff(names)
            setup(files) == With(files, "s", <<"setup">>)
            done == ApplyUnifiedDiff(before, FileDiff(names[1], names[2]), dashed, plussed)
        IN  CASE Diff = << >> -> done = [error |-> "none", files |-> before]
              [] \E i \in DashedLines(dashed) : ~Heads(i, plussed) -> done.error # "none"
              [] /\ Diff # << >> /\ DashedLines(dashed) = {}
                 /\ names[2] # DevNull /\ OldSide(script) = << >> ->
                    done.error = "overlapping hunks"
              [] /\ Diff # << >> /\ DashedLines(dashed) = {}
                 /\ names[2] = DevNull \/ OldSide(script) # << >> ->
                    /\ done = [error |-> "none", files |-> after]
                    /\ Overlay(setup(before), before, done.files) = setup(after)
              [] OTHER -> TRUE

\* A removed line "-- x" with an added line "++ y" directly after it is no error: the only
\* hunk of the diff is done up to there, nothing that it says from there on is done, and
\* there is a new empty file y.
HeaderCutsHunk ==
    \A names \in Names, i \in DOMAIN script :
        LET x == script[i].text y == script[i + 1].text
            kept == NewSide(SubSeq(script, 1, i - 1))
                    \o OldSide(SubSeq(script, i, Len(script)))
            done == ApplyUnifiedDiff(BeforeDiff(names), FileDiff(names[1], names[2]), {x}, {y})
        IN  /\ Len(Diff) = 1
            /\ DashedLines({x}) = {i} /\ Heads(i, Lines \ {x})
            /\ {x, y} \cap {"a", "b", "c", DevNull} = {}
            => done = [error |-> "none",
                       files |-> With(With(Other, names[2], kept), y, << >>)]

\* On any other file the diff either does exactly what it says at the lines it names,
\* or is refused: it is never applied elsewhere, nor to lines that differ.
NeverMisapplied ==
    \A n \in 1..MaxOther : \A file \in [1..n -> Lines] :
        LET done == ApplyHunks(file, Diff)
        IN  /\ done.error = "none" <=> Fits(file, Diff)
            /\ done.error = "none" /\ Spliced(file, Diff) # << >>
                 => done.out = Spliced(file, Diff)

\* A file that the spec does not have is stood in for by the old sides of its hunks.
\* That works only when a single hunk starts at line 1: any other diff of it is refused,
\* and none is applied wrongly.
StandInOnlyFromLineOne ==
    LET done == ApplyUnifiedDiff(<< >>, FileDiff("a", "a"), {}, {})
    IN  Diff # << >> /\ OldSide(script) # << >> =>
          /\ done.error = "none" <=> Len(Diff) = 1 /\ Diff[1].start = 1
          /\ done.error = "none" /\ NewSide(Diff[1].body) # << >>
               => done.files["a"] = NewSide(Diff[1].body)

\* "overlapping hunks" is said of a diff whose hunks overlap.  It is said of the only
\* hunk of a new file too, since its "-0,0" becomes the line before the first.
OverlapMeansOverlap ==
    ApplyHunks(OldSide(script), Diff).error = "overlapping hunks" =>
        \E i, j \in DOMAIN Diff :
            i < j /\ Diff[j].start < Diff[i].start + Len(OldSide(Diff[i].body))

\* The diff of two files applies to them when the diff of each does.  The header line
\* between the two is refused as an "unknown hunk line prefix".
TwoFilesApply ==
    LET old == OldSide(script)
        apply(diff) == ApplyUnifiedDiff([p \in {"a", "c"} |-> old], diff, {}, {})
        first == FileDiff("a", "a") second == FileDiff("c", "c")
    IN  apply(first).error = "none" /\ apply(second).error = "none" =>
            apply(first \o second).error = "none"
=============================================================================
