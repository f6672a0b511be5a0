------------------------------ MODULE Formatter -----------------------------
(***************************************************************************)
(* `terfyn fmt` on one .agent source (internal/cli/fmt.go over             *)
(* internal/lang): the file is parsed, refused when there are diagnostics, *)
(* printed from its tree, and written when the text changed.  The command  *)
(* is run a second time, as its own help text and --check in CI do.        *)
(***************************************************************************)
EXTENDS LangParser, LangPrinter

CONSTANT Sources    \* the files an author may have written

VARIABLES
    original,       \* the file as authored
    disk,           \* the file now
    parsed,         \* Parse of what this run read, or Unread
    tree,           \* ghost: the tree of the authored file, once it is read
    pass,           \* runs of the command finished so far
    outcome         \* how each of them ended: "changed", "unchanged", "refused"

vars == <<original, disk, parsed, tree, pass, outcome>>

Unread == [file |-> Nil, errors |-> FALSE]

Init ==
    /\ original \in Sources
    /\ disk = original
    /\ parsed = Unread /\ tree = Nil
    /\ pass = 0
    /\ outcome = <<>>

ReadFile ==
    /\ pass < 2 /\ parsed = Unread /\ "refused" \notin Range(outcome)
    /\ parsed' = Parse(disk)
    /\ tree' = IF pass = 0 THEN parsed'.file ELSE tree
    /\ UNCHANGED <<original, disk, pass, outcome>>

(* normalizeForFmt and the write: a source that does not parse is an error *)
(* of the command, nothing is written.                                     *)
End(result) ==
    /\ outcome' = Append(outcome, result)
    /\ pass' = pass + 1
    /\ parsed' = Unread

Refuse ==
    /\ parsed # Unread /\ parsed.errors
    /\ End("refused")
    /\ UNCHANGED <<original, disk, tree>>

Rewrite ==
    /\ parsed # Unread /\ ~parsed.errors
    /\ disk' = PrintFile(parsed.file, buildCommentIndex(disk))
    /\ End(IF disk' = disk THEN "unchanged" ELSE "changed")
    /\ UNCHANGED <<original, tree>>

Done == parsed = Unread /\ (pass = 2 \/ "refused" \in Range(outcome)) /\ UNCHANGED vars

Next == ReadFile \/ Refuse \/ Rewrite \/ Done

Spec == Init /\ [][Next]_vars

-----------------------------------------------------------------------------

(* The second run has read what the first one wrote.                       *)
Reread == pass = 1 /\ parsed # Unread

(* The formatted source is a program again, and the same one: it parses    *)
(* without diagnostics to the tree of the authored file.  The printer      *)
(* drops the parentheses the tree does not need, reorders fields and drops *)
(* empty lists; none of that may regroup an expression or lose a field.    *)
MeaningKept ==
    Reread => ~parsed.errors /\ Strip(parsed.file) = Strip(tree)

(* The words of a source: its tokens but for brackets and commas, which    *)
(* the printer sets its own way, and for empty blocks and their names,     *)
(* some of which it drops.                                                 *)
RECURSIVE NonEmpty(_)
NonEmpty(ts) ==
    LET I == {i \in DOMAIN ts : i > 1 /\ i < Len(ts) /\ ts[i].k = "{" /\ ts[i + 1].k = "}"}
    IN  IF I = {} THEN ts
        ELSE NonEmpty(SubSeq(ts, 1, Max(I) - 2) \o SubSeq(ts, Max(I) + 2, Len(ts)))

Tokens(src) == LET ts == Lex(src) IN [i \in DOMAIN ts |-> ts[i].t]
But(ts, kinds) == SelectSeq(ts, LAMBDA t : t.k \notin kinds)
Words(src) == But(NonEmpty(But(Tokens(src), {"(", ")", ","})), {"{", "}"})
Count(ts, w) == Cardinality({i \in DOMAIN ts : ts[i] = w})

(* One block gives a field of an operation twice.  Alone of all blocks,    *)
(* parseToolOperation (parser_resources.go:438-449) lets the second one    *)
(* override the first without a diagnostic.                                *)
OperationFieldTwice(src) ==
    LET ts == Tokens(src)
        Signs(k, i, j) == Cardinality({x \in i..j : ts[x].k = k})
    IN  \E i, j \in DOMAIN ts :
            /\ i < j /\ ts[i].k = "ident" /\ ts[i] = ts[j] /\ ts[i].s \in DOMAIN parseToolOperation
            /\ \A n \in i..j : Signs("}", i, n) <= Signs("{", i, n)

(* Nothing is dropped in silence: a source that fmt rewrites, whichever of *)
(* its tokens or lines are missing or doubled, is written back with every  *)
(* word it had and no other.  What the parser's recovery skips (syncLine,  *)
(* syncList, syncTopLevel) or one of two fields of a name never reaches    *)
(* the printer, so each such place must also have recorded a diagnostic;   *)
(* an operation's repeated field is the one place that does not.           *)
NothingDropped ==
    pass = 1 /\ parsed = Unread /\ outcome[1] # "refused" /\ ~OperationFieldTwice(original) =>
        LET was == Words(original)
            is == Words(disk)
        IN  \A w \in Range(was) \cup Range(is) : Count(was, w) = Count(is, w)

(* The declaration whose text goes on after line l, counted from 1: 0      *)
(* outside all of them.                                                    *)
Home(src, ds, l) ==
    LET begun == {d \in DOMAIN ds : ds[d].l <= l}
        here == Max(begun)
        last == IF here = Len(ds) THEN Len(src) ELSE ds[here + 1].l - 1
        end == Max({i \in ds[here].l .. last : src[i].ts # <<>>})
    IN  IF begun = {} THEN 0 ELSE IF l < end THEN here ELSE 0

(* The comment on line l can leave declaration d, whose body opens below   *)
(* its keyword's line.  Print drains under that line what buildCommentIndex*)
(* (printer_comments.go:60-160) filed under another one: the `}` of a      *)
(* header's effects clause ends the declaration for the brace scan, and a  *)
(* limits declaration is drained under the line of its brace.              *)
MayLeave(src, d, l) ==
    \/ d.k = "workflow" /\ InField(d.c[2], "effects") # <<>> /\ Scans(src)[d.l + 1].depth = 0
    \/ d.k = "limits" /\ l <= d.c[1].l /\ d.l < d.c[1].l

(* No comment is lost or doubled by formatting, wherever it is written:    *)
(* blocks without a place for comments, fields printed in another order    *)
(* and split braces all drain it at last (flushRemaining).  One written    *)
(* inside a declaration is still inside it, or, where MayLeave says so,    *)
(* outside all of them: never inside another one.  printer_comments.go     *)
(* :14-22 promises more (it never escapes its block), and the help text of *)
(* the command (cli/fmt.go:30-32) less: that .agent comments are not       *)
(* preserved, since the printer works from the tree.                       *)
CommentsStayHome ==
    Reread /\ Notes(original) # <<>> =>
        \A l \in DOMAIN original : original[l].note # 0 =>
            LET now == {i \in DOMAIN disk : disk[i].note = original[l].note}
                home == Home(original, tree.c, l)
                homes == {Home(disk, parsed.file.c, i) : i \in now}
            IN  /\ Cardinality(now) = 1
                /\ home = 0 \/ homes = {home} \/ (homes = {0} /\ MayLeave(original, tree.c[home], l))

(* fmt.go: running fmt twice makes no further changes.                     *)
Idempotent == pass = 2 => outcome[2] = "unchanged"
=============================================================================
