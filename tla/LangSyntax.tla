----------------------------- MODULE LangSyntax -----------------------------
(***************************************************************************)
(* The .agent surface language, seen by the formatter: source text, tokens *)
(* and trees (internal/lang: token.go, lexer.go, ast.go, ast_resources.go).*)
(*                                                                         *)
(* A source file is a sequence of lines.  A line holds tokens and at most  *)
(* one comment, `note` (0: none), which runs to the line's end; a comment  *)
(* on a line without tokens is a standalone one.  Blank lines and spacing  *)
(* are left out: nothing reads them.                                       *)
(*                                                                         *)
(* Names and keywords are strings.  A string literal is a sequence of      *)
(* lines <<indent, text>>: text "" is a line of white space only, text     *)
(* Control one with a character strconv.Quote writes as \x07 or \u200b.    *)
(***************************************************************************)
EXTENDS Integers, Sequences, SequencesExt, FiniteSetsExt

Control == "control"

Token(kind, text, value, form) == [k |-> kind, s |-> text, v |-> value, f |-> form]

T(kind) == Token(kind, "", <<>>, "")            \* keyword or punctuation
Name(text) == Token("ident", text, <<>>, "")
Number(text) == Token("number", text, <<>>, "")
Quoted(value) == Token("string", "", value, "quoted")    \* "..." with escapes
Block(value) == Token("string", "", value, "block")      \* """...""", raw lines

Line(tokens, note) == [ts |-> tokens, note |-> note]

Standalone(line) == line.ts = <<>> /\ line.note # 0

(* A tree node: its kind, its text, its string value, the source line it   *)
(* starts on, and its children.                                            *)
Node(kind, text, value, line, children) ==
    [k |-> kind, s |-> text, v |-> value, l |-> line, c |-> children]

(* The nodes of the resource structs: a field set by the author, and one   *)
(* entry of a list of named bodies.                                        *)
FieldNode(name, line, value) == Node("field", name, <<>>, line, <<value>>)
EntryNode(line, parts) == Node("entry", "", <<>>, line, parts)

Nil == Node("nil", "", <<>>, 0, <<>>)

(* FoldLeft with every step taken before the next.  TLC hands FoldLeft's   *)
(* accumulator on unevaluated, and the stack grows as deep as the file.    *)
Through(Op(_, _), start, seq) ==
    LET after[i \in 0..Len(seq)] ==
            IF i = 0 THEN start ELSE CHOOSE q \in {Op(prev, seq[i]) : prev \in {after[i - 1]}} : TRUE
    IN  after[Len(seq)]

(* The tree without its positions: what two parses are compared by.        *)
RECURSIVE Strip(_)
Strip(n) == [n EXCEPT !.l = 0, !.c = [i \in DOMAIN @ |-> Strip(@[i])]]

(***************************************************************************)
(* The lexer.                                                              *)
(***************************************************************************)

BlankLine(ln) == ln[2] = ""

(* normalizeMultiline on the raw body of a """ literal, whose opening line *)
(* is already gone (the printer and the authors of this model write the    *)
(* body on lines of its own): the closing delimiter's line is dropped, the *)
(* common indentation of the nonblank lines removed, blank lines emptied.  *)
normalizeMultilineIndented(raw) ==
    LET lines == IF raw # <<>> /\ BlankLine(Last(raw)) THEN Front(raw) ELSE raw
    IN  [i \in DOMAIN lines |-> IF BlankLine(lines[i]) THEN <<0, "">> ELSE lines[i]]

normalizeMultiline(raw) ==
    LET lines == IF raw # <<>> /\ BlankLine(Last(raw)) THEN Front(raw) ELSE raw
        inked == {i \in DOMAIN lines : ~BlankLine(lines[i])}
        minIndent == IF inked = {} THEN 0 ELSE Min({lines[i][1] : i \in inked})
    IN  [i \in DOMAIN lines |-> IF BlankLine(lines[i]) THEN <<0, "">>
                                ELSE <<lines[i][1] - minIndent, lines[i][2]>>]

(* scanString decodes \" \\ \n \t \r only; any other escape is an error.   *)
BadEscape(t) == t.f = "quoted" /\ \E i \in DOMAIN t.v : t.v[i][2] = Control

(* scanNumber knows no exponent: the text 1e+20 is the number 1, the name  *)
(* e, a stray + and the number 20.                                         *)
ScanNumber(t) ==
    IF t.s = "1e+20" THEN <<Number("1"), Name("e"), T("error"), Number("20")>> ELSE <<t>>

ScanToken(t) ==
    CASE t.k = "number" -> ScanNumber(t)
      [] t.f = "block"  -> <<[t EXCEPT !.v = normalizeMultiline(@), !.f = "quoted"]>>
      [] OTHER          -> <<t>>

(* Lexer.Next over a line, and over the whole source: the tokens, each     *)
(* with its line.                                                          *)
LexLine(src, l) ==
    LET toks == FlattenSeq([i \in DOMAIN src[l].ts |-> ScanToken(src[l].ts[i])])
    IN  [i \in DOMAIN toks |-> [t |-> toks[i], ln |-> l]]

Lex(src) == FlattenSeq([l \in DOMAIN src |-> LexLine(src, l)])

(* Lexer.Diagnostics: unknown escapes and stray characters.                *)
LexErrors(src) ==
    \E l \in DOMAIN src : \E i \in DOMAIN src[l].ts :
        BadEscape(src[l].ts[i]) \/ src[l].ts[i].k = "error" \/ src[l].ts[i].s = "1e+20"

(* Comments: the notes in source order.                                    *)
Notes(src) == SelectSeq([l \in DOMAIN src |-> src[l].note], LAMBDA n : n # 0)
=============================================================================
