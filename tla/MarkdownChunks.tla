--------------------------- MODULE MarkdownChunks ---------------------------
(***************************************************************************)
(* How an answer becomes messages (telegram/markdown.rs, to_chunks, and    *)
(* the start of LiveSink::finalize in stream.rs).  The Markdown source is  *)
(* cut at its line ends into pieces that render to at most the limit; a    *)
(* line that alone renders to more is cut by characters.  At Verbose the   *)
(* collapsed log is put before the first piece.                            *)
(*                                                                         *)
(* A document is a sequence of lines of "a" (any ordinary character), "."  *)
(* (any reserved one) or a code fence.  Of what is rendered only the       *)
(* length counts.                                                          *)
(***************************************************************************)
EXTENDS Naturals, Sequences, FiniteSets, SequencesExt, FiniteSetsExt

CONSTANTS Lines,          \* bound: the lines a document is made of
          MaxLines,       \* bound: their number
          LogSizes,       \* lengths of the collapsed log; 0: no log
          TELEGRAM_LIMIT

\* A quote stands for the back-tick.
Fence == <<"'", "'", "'">>

ChunksAssumption ==
    /\ Lines \subseteq Seq({"a", "."}) \cup {Fence}
    /\ MaxLines \in Nat /\ TELEGRAM_LIMIT \in Nat \ {0}
    /\ \A l \in LogSizes : l \in Nat /\ l + 2 < TELEGRAM_LIMIT

VARIABLES
    doc,        \* FinalMessage.body
    log,        \* the length of FinalMessage.log
    pc,         \* "splitting", "split", "done"
    rest,       \* lines the loop has not seen
    buf,        \* lines it has buffered
    chunks

vars == <<doc, log, pc, rest, buf, chunks>>

\* Only the last line may lack its newline.
Docs ==
    UNION {{[i \in 1..n |-> [text |-> t[i], nl |-> i < n \/ closed]] :
               t \in [1..n -> Lines], closed \in BOOLEAN} : n \in 0..MaxLines}

-----------------------------------------------------------------------------
(* to_telegram.  The Writer's output: its length without trailing newlines *)
(* and the number of these.                                                *)

Nothing == [len |-> 0, gap |-> 0]

Put(out, n) == IF n = 0 THEN out ELSE [len |-> out.len + out.gap + n, gap |-> 0]
Newline(out) == [out EXCEPT !.gap = @ + 1]
AtLeast(out, g) == IF out = Nothing \/ out.gap >= g THEN out ELSE [out EXCEPT !.gap = g]
EnsureNl(out) == AtLeast(out, 1)
EnsureBlank(out) == AtLeast(out, 2)

Reserved(text) == Cardinality({i \in DOMAIN text : text[i] = "."})

\* escape_text puts a backslash before what is reserved; escape_code does so
\* before what the lines of a code block do not contain here.
Escaped(text) == Len(text) + Reserved(text)

OpenCode(out) == Newline(Put(EnsureBlank(out), 3))
CloseCode(out) == EnsureBlank(Put(EnsureNl(out), 3))

\* Where the parser is, and what has been written.
Parser(within, out) == [within |-> within, out |-> out]

\* The events of a line: within a code block, at the start of a block, or
\* going on with a paragraph, which a blank line or a fence ends.
Event(acc, line) ==
    IF line.text = Fence
    THEN IF acc.within = "code" THEN Parser("none", CloseCode(acc.out))
                                ELSE Parser("code", OpenCode(acc.out))
    ELSE CASE acc.within = "code" ->
                Parser("code", Newline(Put(acc.out, Len(line.text))))
           [] acc.within # "code" /\ line.text = <<>> -> Parser("none", EnsureBlank(acc.out))
           [] acc.within = "none" /\ line.text # <<>> ->
                Parser("paragraph", Put(EnsureBlank(acc.out), Escaped(line.text)))
           [] acc.within = "paragraph" /\ line.text # <<>> ->
                Parser("paragraph", Put(Newline(acc.out), Escaped(line.text)))

Parsed(md) ==
    LET after[i \in 0..Len(md)] ==
            IF i = 0 THEN Parser("none", Nothing) ELSE Event(after[i - 1], md[i])
    IN  after[Len(md)]

\* The parser closes a code block at the end of the document.
Rendered(md) ==
    LET end == Parsed(md)
    IN IF end.within = "code" THEN CloseCode(end.out).len ELSE end.out.len

-----------------------------------------------------------------------------
(* to_chunks.                                                              *)

Characters(line) == IF line.nl THEN Append(line.text, "\n") ELSE line.text

Source(md) == FlattenSeq([i \in DOMAIN md |-> Characters(md[i])])

\* What trim leaves nothing of.
IsBlank(md) == \A i \in DOMAIN md : md[i].text = <<>>

\* Mutant: the blank line between the log and the answer is not counted.
Limit_Bare == IF log = 0 THEN TELEGRAM_LIMIT ELSE TELEGRAM_LIMIT - log

Limit == IF log = 0 THEN TELEGRAM_LIMIT ELSE Max({TELEGRAM_LIMIT - (log + 2), 1})

Whole(md) == [plain |-> md, cut |-> FALSE, head |-> 0]

\* The n-th part of a line that is cut every Limit characters: its newline is
\* a character like the others.
Part(line, n) ==
    LET from == (n - 1) * Limit + 1
        to == Min({n * Limit, Len(line.text)})
    IN [text |-> SubSeq(line.text, from, to),
        nl |-> line.nl /\ n * Limit > Len(line.text)]

\* A part is begun only with a character to put into it.
Parts(line) ==
    LET size == Len(Characters(line)) IN Min({n \in 0..size : n * Limit >= size})

Cut(part) == [plain |-> <<part>>, cut |-> TRUE, head |-> 0]

HardSplit(line) == [n \in 1..Parts(line) |-> Cut(Part(line, n))]

\* Mutant: the buffer is kept for after the line that is cut.
Flushed_Never(pieces) == pieces

\* The chunks with what is buffered made one of them.
Flushed(pieces) == IF buf = <<>> THEN pieces ELSE Append(pieces, Whole(buf))

Init ==
    /\ doc \in Docs /\ log \in LogSizes
    /\ pc = "splitting" /\ rest = doc /\ buf = <<>> /\ chunks = <<>>

\* A blank answer is routed to the empty-reply note; the fast path.
Begin ==
    /\ pc = "splitting" /\ rest = doc /\ doc # <<>>
    /\ \/ IsBlank(doc) /\ UNCHANGED chunks
       \/ ~IsBlank(doc) /\ Rendered(doc) <= Limit /\ chunks' = <<Whole(doc)>>
    /\ pc' = "split"
    /\ UNCHANGED <<doc, log, rest, buf>>

Loops == pc = "splitting" /\ rest # <<>> /\ ~IsBlank(doc) /\ Rendered(doc) > Limit

CutLine ==
    /\ Loops /\ Rendered(<<Head(rest)>>) > Limit
    /\ chunks' = Flushed(chunks) \o HardSplit(Head(rest))
    /\ buf' = <<>>
    /\ rest' = Tail(rest)
    /\ UNCHANGED <<doc, log, pc>>

Candidate == Append(buf, Head(rest))

StartChunk ==
    /\ Loops /\ Rendered(<<Head(rest)>>) <= Limit /\ Rendered(Candidate) > Limit
    /\ chunks' = Flushed(chunks)
    /\ buf' = <<Head(rest)>>
    /\ rest' = Tail(rest)
    /\ UNCHANGED <<doc, log, pc>>

AddLine ==
    /\ Loops /\ Rendered(<<Head(rest)>>) <= Limit /\ Rendered(Candidate) <= Limit
    /\ buf' = Candidate
    /\ rest' = Tail(rest)
    /\ UNCHANGED <<doc, log, pc, chunks>>

FlushLast ==
    /\ pc = "splitting" /\ rest = <<>>
    /\ chunks' = Flushed(chunks)
    /\ buf' = <<>>
    /\ pc' = "split"
    /\ UNCHANGED <<doc, log, rest>>

\* The log goes before the first chunk, with a blank line between them.
PrependLog ==
    /\ pc = "split"
    /\ chunks' = IF log = 0 \/ chunks = <<>> THEN chunks
                 ELSE [chunks EXCEPT ![1].head = log + 2]
    /\ pc' = "done"
    /\ UNCHANGED <<doc, log, rest, buf>>

Next == Begin \/ CutLine \/ StartChunk \/ AddLine \/ FlushLast \/ PrependLog

Spec == Init /\ [][Next]_vars

-----------------------------------------------------------------------------
TypeOK ==
    /\ doc \in Seq([text: Lines, nl: BOOLEAN]) /\ Len(doc) <= MaxLines
    /\ log \in LogSizes /\ pc \in {"splitting", "split", "done"}
    /\ IsSuffix(rest, doc)
    /\ \A c \in ToSet(chunks) : c.cut \in BOOLEAN /\ c.head \in Nat

\* The plain texts of the chunks are the answer again, in order and complete:
\* whether lines were buffered, cut, or began a chunk of their own.
Plain(pieces) == FlattenSeq([i \in DOMAIN pieces |-> Source(pieces[i].plain)])

Lossless == pc = "done" /\ ~IsBlank(doc) => Plain(chunks) = Source(doc)

Length(c) == c.head + Rendered(c.plain)

\* A chunk that ends at a line's end fits into a message, the log before it
\* included - though the rendering of lines together is not the sum of theirs.
WholeLinesFit ==
    pc = "done" => \A c \in ToSet(chunks) : ~c.cut => Length(c) <= TELEGRAM_LIMIT

=============================================================================
