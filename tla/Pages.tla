-------------------------------- MODULE Pages --------------------------------
(***************************************************************************)
(* How an answer becomes messages: its blocks (markdown_html.py), its      *)
(* pages, cut at the sections first (news_pages.py), the first of them in  *)
(* the status message and the others after it, and a file with all of it   *)
(* where the pages do not hold all (execution.py, rich_delivery.py).       *)
(*                                                                         *)
(* A line is its kind and its number; inside a fence every line is code,   *)
(* whatever it looks like outside.  A page's size counts its lines and the *)
(* gaps between its blocks, a rule being a gap.  Left out are blank lines, *)
(* lines that are only a picture, what a cell of more than 90 characters   *)
(* loses, and answers that are a digest of news items, with a page for     *)
(* every item.                                                             *)
(***************************************************************************)
EXTENDS Naturals, SequencesExt

CONSTANTS
    MaxLines,      \* bound on an answer
    PageSize,      \* MAX_PAGE_CHARS
    MaxRows,       \* rows of a table that are shown
    MaxFollowups,  \* MAX_FOLLOWUPS
    MaxRefused     \* bound on what Telegram refuses

VARIABLES
    text,      \* the answer
    sending,   \* the page that is sent next, 0 while the answer is written
    shown,     \* the numbers of the lines the owner has been sent
    refused    \* the pages Telegram refused in either form, 0 being the file

vars == <<text, sending, shown, refused>>

\* "joined" is a quoted line, or what a run-on paragraph has before its labelled
\* fields, which are items; "table" a header with the separator under it; "loop"
\* what an agent that repeats itself goes on with, in its place stands a note.
Kinds   == {"title", "prose", "joined", "item", "rule", "table", "row", "fence", "loop"}
Rowlike == {"table", "row"}

Numbers(lines) == [i \in DOMAIN lines |-> lines[i].no]

Init == text = <<>> /\ sending = 0 /\ shown = {} /\ refused = {}

-----------------------------------------------------------------------------
(* Blocks.                                                                 *)

\* add: the items of a list are one block, what is joined goes to the paragraph before.
WithBlock(blocks, kind, line) ==
    IF blocks # <<>> /\ Last(blocks).kind = kind /\ (kind = "list" \/ line.kind = "joined")
    THEN Front(blocks) \o <<[kind |-> kind, lines |-> Append(Last(blocks).lines, line)]>>
    ELSE Append(blocks, [kind |-> kind, lines |-> <<line>>])

Divider == [kind |-> "divider", lines |-> <<>>]

Rendered(blocks, line) ==
    CASE line.kind = "fence" -> blocks
      [] line.kind = "title" -> WithBlock(blocks, "heading", line)
      [] line.kind = "item"  -> WithBlock(blocks, "list", line)
      [] line.kind = "rule"  -> Append(blocks, Divider)
      [] OTHER               -> WithBlock(blocks, "paragraph", line)

\* _table_block: rows past the last that is shown are only counted.
TableRow(acc, line) ==
    IF acc.table > MaxRows THEN acc
    ELSE [acc EXCEPT !.blocks = WithBlock(@, "list", line), !.table = @ + 1]

\* flush_fence.
Closed(acc) ==
    [fenced |-> FALSE, code |-> <<>>, table |-> 0,
     blocks |-> IF acc.code = <<>> THEN acc.blocks
                ELSE Append(acc.blocks, [kind |-> "code", lines |-> acc.code])]

\* A table lasts as long as lines look like its rows; rows without a header are prose.
ReadLine(acc, line) ==
    IF acc.fenced
    THEN IF line.kind = "fence" THEN Closed(acc) ELSE [acc EXCEPT !.code = Append(@, line)]
    ELSE IF line.kind = "table" \/ (line.kind = "row" /\ acc.table > 0)
    THEN TableRow(acc, line)
    ELSE [acc EXCEPT !.fenced = (line.kind = "fence"), !.table = 0, !.blocks = Rendered(@, line)]

Unread == [fenced |-> FALSE, code |-> <<>>, table |-> 0, blocks |-> <<>>]

\* Fault: a fence that is never closed is not read to the end.
BlocksUnflushed(lines) == FoldLeft(ReadLine, Unread, lines).blocks

\* build_blocks.
Blocks(lines) == Closed(FoldLeft(ReadLine, Unread, lines)).blocks

-----------------------------------------------------------------------------
(* Pages.                                                                  *)

\* _split_block: a block larger than a page is cut.
SplitBlock(b) ==
    IF Len(b.lines) <= PageSize THEN <<b>>
    ELSE [i \in 1..((Len(b.lines) + PageSize - 1) \div PageSize) |->
            [b EXCEPT !.lines = SubSeq(@, (i - 1) * PageSize + 1, Min({i * PageSize, Len(@)}))]]

Size(page) == FoldLeft(LAMBDA n, b : n + Len(b.lines), 0, page) + Len(page) - 1

\* A heading opens a page unless the page has only headings so far.
Opens(block, page) == block.kind = "heading" /\ \E i \in DOMAIN page : page[i].kind # "heading"

\* A divider that would open the page is left out.
AddBlock(acc, block) ==
    IF acc.page = <<>> /\ block.kind = "divider" THEN acc
    ELSE IF acc.page # <<>> /\ (Opens(block, acc.page) \/ Size(Append(acc.page, block)) > PageSize)
    THEN [pages |-> Append(acc.pages, acc.page), page |-> <<block>>]
    ELSE [acc EXCEPT !.page = Append(@, block)]

\* build_pages.
BuildPages(lines) ==
    LET blocks == Blocks(lines)
        cut == FlattenSeq([i \in DOMAIN blocks |-> SplitBlock(blocks[i])])
        all == FoldLeft(AddBlock, [pages |-> <<>>, page |-> <<>>], cut)
    IN IF all.page = <<>> THEN all.pages ELSE Append(all.pages, all.page)

\* _chunks: a heading, in a fence too, ends what was before it and waits for its first line.
ReadSection(acc, line) ==
    IF line.kind = "title"
    THEN [chunks |-> IF acc.buffer = <<>> THEN acc.chunks ELSE Append(acc.chunks, acc.buffer),
          buffer |-> <<>>, heading |-> <<line>>]
    ELSE [acc EXCEPT !.buffer = @ \o acc.heading \o <<line>>, !.heading = <<>>]

Chunks(lines) ==
    LET all  == FoldLeft(ReadSection, [chunks |-> <<>>, buffer |-> <<>>, heading |-> <<>>], lines)
        rest == all.buffer \o all.heading
    IN IF rest = <<>> THEN all.chunks ELSE Append(all.chunks, rest)

\* build_news_pages, delivery_pages.
DeliveryPages(lines) ==
    LET chunks == Chunks(lines)
    IN FlattenSeq([i \in DOMAIN chunks |-> BuildPages(chunks[i])])

LinesOf(page) == FlattenSeq([i \in DOMAIN page |-> page[i].lines])

\* The plain twin of a page: its marks are glyphs, its code stands without a fence.
PlainLine(block, k) ==
    IF block.kind = "code" THEN block.lines[k]
    ELSE [block.lines[k] EXCEPT !.kind = IF block.kind = "paragraph" /\ k > 1 THEN "joined" ELSE "prose"]

Plain(page) ==
    FlattenSeq([i \in DOMAIN page |->
        [k \in DOMAIN page[i].lines |-> PlainLine(page[i], k)]])

\* final_text gives the first page's plain twin, which finalize_text makes pages of
\* again to show the first.
StatusPage(lines) ==
    LET first == Head(DeliveryPages(lines))
        again == DeliveryPages(Plain(first))
    IN IF again = <<>> THEN first ELSE Head(again)

-----------------------------------------------------------------------------
(* Delivery.                                                               *)

Loops == \E i \in DOMAIN text : text[i].kind = "loop"

Write(kind) ==
    /\ sending = 0 /\ Len(text) < MaxLines /\ ~Loops
    /\ text' = Append(text, [kind |-> kind, no |-> Len(text) + 1])
    /\ UNCHANGED <<sending, shown, refused>>

InMessages == MaxFollowups + 1

NeedsFile == Loops \/ Len(DeliveryPages(text)) > InMessages

Refused(i) == Cardinality(refused) < MaxRefused /\ refused' = refused \cup {i}

\* The whole answer goes along as a file when its pages leave some of it out.
Finalize ==
    /\ sending = 0 /\ DeliveryPages(text) # <<>>
    /\ sending' = 1
    /\ \/ ~NeedsFile /\ UNCHANGED <<shown, refused>>
       \/ NeedsFile /\ shown' = DOMAIN text /\ UNCHANGED refused
       \/ NeedsFile /\ Refused(0) /\ UNCHANGED shown
    /\ UNCHANGED text

More == sending > 0 /\ sending <= Len(DeliveryPages(text)) /\ sending <= InMessages

\* Fault: a page refused ends the sequence.
RefusedLast ==
    /\ More /\ Refused(sending)
    /\ sending' = InMessages + 1
    /\ UNCHANGED <<text, shown>>

\* Refused as HTML and as plain text, a page is left out.
PageRefused ==
    /\ More /\ Refused(sending)
    /\ sending' = sending + 1
    /\ UNCHANGED <<text, shown>>

\* The first page goes to the status message.
Message(i) == IF i = 1 THEN StatusPage(text) ELSE DeliveryPages(text)[i]

SendPage ==
    /\ More
    /\ shown' = shown \cup ToSet(Numbers(LinesOf(Message(sending))))
    /\ sending' = sending + 1
    /\ UNCHANGED <<text, refused>>

Next == (\E kind \in Kinds : Write(kind)) \/ Finalize \/ SendPage \/ PageRefused

Spec == Init /\ [][Next]_vars
-----------------------------------------------------------------------------
(* Properties.                                                             *)

\* The variables hold what they can hold.
TypeOK ==
    /\ Len(text) <= MaxLines /\ \A i \in DOMAIN text : text[i].kind \in Kinds
    /\ sending \in 0..InMessages + 1 /\ shown \subseteq 1..MaxLines
    /\ refused \subseteq 0..InMessages

\* What no page shows: marks around code, rules, a heading whose next line is a
\* heading again, and the rows of a table past the last that is shown.
Spared(i) ==
    \/ text[i].kind \in {"fence", "rule"}
    \/ text[i].kind = "title" /\ i < Len(text) /\ text[i + 1].kind = "title"
    \/ i > MaxRows + 1 /\ \A j \in i - MaxRows - 1..i : text[j].kind \in Rowlike

\* The pages of an answer are its lines, each once and in their order, without those
\* that are spared, and no page is larger than a message.
PagesWhole ==
    LET pages == DeliveryPages(text)
        told  == FlattenSeq([i \in DOMAIN pages |-> LinesOf(pages[i])])
    IN /\ \A i, j \in DOMAIN told : i < j => told[i].no < told[j].no
       /\ \A i \in DOMAIN text : Spared(i) \/ \E j \in DOMAIN told : told[j] = text[i]
       /\ \A i \in DOMAIN pages : Size(pages[i]) <= PageSize

\* What Telegram refuses costs the answer that page, or with the file the pages that
\* are only there, and nothing else.  Of the first page the status message has what
\* a second rendering puts first: a tail that no longer fits is sent nowhere.
RefusedIsLocal ==
    (sending > 0 /\ ~More) =>
        \A i \in DOMAIN DeliveryPages(text) :
            \/ i \in refused \/ (i > InMessages /\ 0 \in refused)
            \/ ToSet(Numbers(LinesOf(Message(i)))) \subseteq shown

\* The pages of an answer are the answer, but for what is spared, and what is sent of
\* them is whole but for what is refused and the tail the first page may lose.
AnswerArrives == PagesWhole /\ RefusedIsLocal

=============================================================================
