------------------------------- MODULE Cleanup -------------------------------
(***************************************************************************)
(* The janitor's source cleanup (internal/janitor/analyzer.go): the blocks   *)
(* of `if's on a stale flag are taken out of a file, their else branches      *)
(* kept.  It counts braces over lines, so a line is here what it says of      *)
(* braces, if and else; its text, its indentation and the file's trailing     *)
(* newlines are left out.  A file is any that a C-family programmer writes:   *)
(* braces match, an else follows an if, an if may have no braces, its block    *)
(* may be on its line, and a line may have braces that are none of a block's.  *)
(***************************************************************************)
EXTENDS Integers, Sequences, FiniteSets, SequencesExt

CONSTANTS MaxLines,    \* bound: lines of the file
          MaxNesting,  \* bound: blocks open at once
          MaxAwkward   \* bound: lines of the file whose braces are not those of a block's edge

ASSUME CleanupAssumption == MaxLines \in Nat /\ MaxNesting \in Nat

VARIABLES
    source,     \* the file: a sequence of lines
    blocks,     \* while it is written: the blocks open, innermost last
    at,         \* GenerateCleanCode's i, or its j in an else; 0 while the file is being written
    elseClose,  \* the closing line of the else that is being copied, or 0
    clean       \* the lines written so far, by number

cleanupVars == <<source, blocks, at, elseClose, clean>>

\* "flag if" is `if client.BoolVariation("key", ...) {', "bare flag if" the same without a
\* brace, "} else if" any other condition.  These have one brace of a kind, the closing one
\* first.  Others have more: a literal before the brace of the if (`if f("key", T{}) {'), an
\* if, with its else or without, on one line, a statement with a literal, and a statement
\* with a brace in a string or a rune.
Awkward == {"flag if with literal", "flag if on one line", "flag if and else on one line",
            "text with literal", "text with opening brace", "text with closing brace"}
\* Lines that open one block more than was open after their last "}", those with a "}" whose
\* "{" is on a line above, and those with a "{" and then its "}".
Opening == {"flag if", "flag if with literal", "if", "{", "else {", "} else {", "} else if", "text with opening brace"}
Closing == {"}", "} else {", "} else if", "text with closing brace"}
Paired == {"flag if with literal", "flag if on one line", "flag if and else on one line", "text with literal"}
FlagIf == {"flag if", "bare flag if", "flag if with literal", "flag if on one line", "flag if and else on one line"}
Statement == {"text", "text with literal", "text with opening brace", "text with closing brace"}
LineKinds == Opening \cup Closing \cup Paired \cup FlagIf \cup Statement \cup {"blank"}

CleanupTypeOK ==
    /\ source \in Seq(LineKinds) /\ Len(source) <= MaxLines
    /\ blocks \in Seq({"if", "other"}) /\ Len(blocks) <= MaxNesting
    /\ at \in 0..(MaxLines + 1) /\ elseClose \in 0..MaxLines
    /\ clean \in Seq(DOMAIN source)

CleanupInit == source = <<>> /\ blocks = <<>> /\ at = 0 /\ elseClose = 0 /\ clean = <<>>

-----------------------------------------------------------------------------
(* The file is written. *)
Push(kind) == Len(blocks) < MaxNesting /\ blocks' = Append(blocks, kind)
Inside(kind) == blocks # <<>> /\ Last(blocks) = kind

AddLine(l) ==
    /\ at = 0 /\ Len(source) < MaxLines
    /\ l \in Awkward => Cardinality({i \in DOMAIN source : source[i] \in Awkward}) < MaxAwkward
    /\ source' = Append(source, l)
    /\ \/ l \in {"text", "blank"} \cup (Awkward \ {"flag if with literal"}) /\ UNCHANGED blocks
       \/ l \in {"flag if", "flag if with literal", "if"} /\ Push("if")
       \/ l = "{" /\ Push("other")
       \/ l = "} else {" /\ Inside("if") /\ blocks' = Append(Front(blocks), "other")
       \/ l = "} else if" /\ Inside("if") /\ UNCHANGED blocks
       \/ l = "}" /\ blocks # <<>> /\ blocks' = Front(blocks)
    /\ UNCHANGED <<at, elseClose, clean>>

\* An if whose brace, or whose only statement, is on the line below, and an else that is.
AddTwoLines ==
    /\ at = 0 /\ Len(source) + 1 < MaxLines
    /\ \/ source' = source \o <<"bare flag if", "{">> /\ Push("if")
       \/ source' = source \o <<"bare flag if", "text">> /\ UNCHANGED blocks
       \/ /\ source' = source \o <<"}", "else {">>
          /\ Inside("if") /\ blocks' = Append(Front(blocks), "other")
    /\ UNCHANGED <<at, elseClose, clean>>

-----------------------------------------------------------------------------
(* GenerateCleanCode. *)
\* How many blocks are open after line j, by its braces.
Depth(j) ==
    Cardinality({k \in 1..j : source[k] \in Opening}) - Cardinality({k \in 1..j : source[k] \in Closing})

FirstOf(lines) == IF lines = {} THEN 0 ELSE CHOOSE j \in lines : \A k \in lines : j <= k

\* A "}" on line j closes the block that is the d-th open.
ClosesOn(j, d) ==
    \/ source[j] \in Closing /\ Depth(j - 1) = d
    \/ source[j] \in Paired /\ Depth(j - 1) + 1 = d

findOpenBraceLine(i) == FirstOf({j \in i..Len(source) : source[j] \in Opening \cup Paired})

\* The line of the first "}" that brings the depth back to what it was before line `open',
\* which may be that line itself; 0 for none.
findCloseBraceLine(open) == FirstOf({j \in open..Len(source) : ClosesOn(j, Depth(open - 1) + 1)})

\* The same from the last "{" of line i.
findCloseBraceFrom(i) ==
    IF source[i] = "flag if and else on one line" THEN i
    ELSE FirstOf({j \in (i + 1)..Len(source) : ClosesOn(j, Depth(i))})

\* The line of the else belonging to the block closed on line i; 0 for none.  An `else if'
\* is taken for an else.
ElseLine(i) ==
    CASE source[i] \in {"} else {", "} else if", "flag if and else on one line"} -> i
      [] source[i] = "}" /\ i < Len(source) /\ source[i + 1] = "else {" -> i + 1
      [] OTHER -> 0

\* The closing line of the else that begins on line `open'; 0 when there is no else, or its
\* brace is missing.
findElseBlock(open) == IF open = 0 THEN 0 ELSE findCloseBraceFrom(open)

\* writeLine: of several blank lines one is kept, and none at the top.
writeLine(out, i) ==
    IF source[i] = "blank" /\ (out = <<>> \/ source[Last(out)] = "blank") THEN out ELSE Append(out, i)

\* The file is done: a file without the key is left as it is.
StartCleanup ==
    /\ at = 0 /\ blocks = <<>>
    /\ IF \E i \in DOMAIN source : source[i] \in FlagIf
       THEN at' = 1 /\ UNCHANGED clean
       ELSE at' = Len(source) + 1 /\ clean' = [i \in DOMAIN source |-> i]
    /\ UNCHANGED <<source, blocks, elseClose>>

\* The block of the flag if on line `at': where it closes; 0 when a brace is missing.
BlockEnd == LET open == findOpenBraceLine(at) IN IF open = 0 THEN 0 ELSE findCloseBraceLine(open)
AtBlock == at \in DOMAIN source /\ source[at] \in FlagIf /\ BlockEnd # 0

WriteLine ==
    /\ elseClose = 0 /\ at \in DOMAIN source /\ ~AtBlock
    /\ clean' = writeLine(clean, at) /\ at' = at + 1
    /\ UNCHANGED <<source, blocks, elseClose>>

\* The block is left out: the scan goes on behind it, or copies the body of its else first,
\* which are the lines between those of the else's braces: none when they are on one line.
RemoveBlock ==
    /\ elseClose = 0 /\ AtBlock
    /\ LET open == ElseLine(BlockEnd)
           close == findElseBlock(open)
       IN  /\ at' = (IF close # 0 THEN open ELSE BlockEnd) + 1
           /\ elseClose' = IF close > open THEN close ELSE 0
    /\ UNCHANGED <<source, blocks, clean>>

\* The lines of the else are written as they are, what they hold is not looked at again.
WriteElse ==
    /\ elseClose # 0
    /\ IF at < elseClose THEN clean' = writeLine(clean, at) /\ UNCHANGED elseClose
       ELSE elseClose' = 0 /\ UNCHANGED clean
    /\ at' = at + 1
    /\ UNCHANGED <<source, blocks>>

CleanupNext ==
    \/ \E l \in LineKinds \ {"else {", "bare flag if"} : AddLine(l)
    \/ AddTwoLines \/ StartCleanup \/ WriteLine \/ RemoveBlock \/ WriteElse

CleanupSpec == CleanupInit /\ [][CleanupNext]_cleanupVars

-----------------------------------------------------------------------------
\* How many blocks of the result are open after its first n lines.
Balance(n) ==
    Cardinality({m \in 1..n : source[clean[m]] \in Opening}) - Cardinality({m \in 1..n : source[clean[m]] \in Closing})
Balanced ==
    /\ Balance(Len(clean)) = 0
    /\ \A n \in DOMAIN clean : source[clean[n]] \in Closing => Balance(n - 1) > 0

\* How deep line j is nested; a line that begins with "}" is outside the block it closes.
Nesting(j) == Depth(j - 1) - (IF source[j] \in Closing THEN 1 ELSE 0)

\* Line j is in the block, not in the else, of an if on the flag, whose brace is on line i.
InFlagBlock(j) ==
    \E i \in 1..(j - 1) :
        /\ source[i] = "flag if" \/ (source[i] = "{" /\ i > 1 /\ source[i - 1] = "bare flag if")
        /\ \A k \in (i + 1)..j : Nesting(k) > Nesting(i)

\* The lines the cleanup reads wrong: it takes an else if for an else, the literal of an if
\* for its block and a brace in a string for one of the code, and it drops the else of an if
\* on one line.
Misread == {"} else if", "flag if with literal", "flag if and else on one line", "text with opening brace", "text with closing brace"}

\* The files the cleanup is written for: none of these lines, and an if on the flag has braces.
Plain ==
    /\ \A i \in DOMAIN source : source[i] = "bare flag if" => i < Len(source) /\ source[i + 1] = "{"
    /\ \A i \in DOMAIN source : source[i] \notin Misread

\* "The returned code is syntactically valid" (analyzer.go): in a plain file every brace of
\* the result has its partner, no line is written twice or out of order, every statement
\* that is in no block of an if on the flag is kept, and no if on the flag that is not
\* nested itself.
CleanCodeSound ==
    at = Len(source) + 1 /\ Plain =>
        /\ Balanced
        /\ \A m, n \in DOMAIN clean : m < n => clean[m] < clean[n]
        /\ \A j \in DOMAIN source :
              /\ source[j] \in Statement /\ ~InFlagBlock(j) => Contains(clean, j)
              /\ source[j] \in FlagIf /\ Nesting(j) = 0 => ~Contains(clean, j)
=============================================================================
