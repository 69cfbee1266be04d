----------------------------- MODULE GatewayPage -----------------------------
(***************************************************************************)
(* The gateway exporter reads the gateway's status page                    *)
(* (gateway/parser.py): a page of spans and tables is fed to a parser that *)
(* captures texts at tags, and what it captured becomes a status of the    *)
(* gateway and its downstream channels, or a ParseError.                   *)
(*                                                                         *)
(* The gateway is the environment.  It repeats the last channel's codeword *)
(* counts in the first column, closes row labels with the wrong tag, lists *)
(* an upstream table that is empty but for its indexes, and shows          *)
(* placeholders for a channel that is not locked; a later firmware may     *)
(* move a table, close its labels, word a status in another way, or leave  *)
(* a cell out; and a connection may end in the middle of the page.         *)
(*                                                                         *)
(* One field stands for the five of the page, the row Power Level for the  *)
(* numbers a channel may lack.                                             *)
(***************************************************************************)
EXTENDS Integers, SequencesExt

CONSTANTS
    Texts,   \* the texts a page may hold
    Pages,   \* the pages the gateway may render
    ParseError,
    None     \* no text, no number, no status

VARIABLES
    gateway,  \* the page the gateway renders, None between polls
    line,     \* the line of it that is being fed to the parser
    column,   \* the element of that line that comes next
    parser,   \* what the parser holds
    status,   \* the channels the poll got from the page, ParseError, or None
    cut       \* history: the connection ended before the page did

vars == <<gateway, line, column, parser, status, cut>>

(***************************************************************************)
(* The page.  A page is [channels, quirk, upstreamFirst, close, fault];    *)
(* a channel is [index, locked, power, counts], as texts.  Rendered it is  *)
(* lines of elements: a tag that opens, a text, a tag that closes.         *)
(***************************************************************************)
Open(tag) == [open |-> tag, text |-> "", close |-> None]
Close(tag) == [open |-> None, text |-> "", close |-> tag]
Cell(tag, text, close) == [open |-> tag, text |-> text, close |-> close]

ChannelRows == <<"Index", "Lock Status", "Power Level">>
CodewordRows == <<"Unerrored", "Correctable", "Uncorrectable">>

\* The counts in a column: the first repeats the last.
Shown(page, i) ==
    page.channels[IF page.quirk /\ i = 1 THEN Len(page.channels) ELSE i].counts

\* A table: the faulty row has lost its last cell.
TableOf(page, captions, labels, texts) ==
    [captions |-> captions,
     rows |-> [r \in 1 .. 3 |->
        [label |-> labels[r],
         texts |-> IF page.fault = labels[r] THEN Front(texts[r]) ELSE texts[r]]]]

DownstreamOf(page) ==
    TableOf(page, <<"Downstream", "Channel Bonding Value">>, ChannelRows,
        << [i \in DOMAIN page.channels |-> page.channels[i].index],
           [i \in DOMAIN page.channels |-> page.channels[i].locked],
           [i \in DOMAIN page.channels |-> page.channels[i].power] >>)

UpstreamOf(page) ==
    TableOf(page, <<"Upstream", "Channel Bonding Value">>, ChannelRows,
        << <<"1">>, <<"">>, <<"">> >>)

CodewordsOf(page) ==
    TableOf(page, <<"CM Error Codewords">>, CodewordRows,
        [r \in 1 .. 3 |-> [i \in DOMAIN page.channels |-> Shown(page, i)[r]]])

TablesOf(page) ==
    IF page.upstreamFirst THEN <<UpstreamOf(page), DownstreamOf(page), CodewordsOf(page)>>
    ELSE <<DownstreamOf(page), UpstreamOf(page), CodewordsOf(page)>>

SpanLine == <<Cell("label", "Internet", "span"), Cell("value", "Active", "span")>>

CaptionLine(captions) ==
    <<Open("table"), Open("tr")>>
        \o [c \in DOMAIN captions |-> Cell("acs-th", captions[c], "td")] \o <<Close("tr")>>

RowLine(row, close) ==
    <<Open("tr"), Cell("th", row.label, close)>>
        \o [i \in DOMAIN row.texts |-> Cell("td", row.texts[i], "td")] \o <<Close("tr")>>

TableLines(table, close) ==
    <<CaptionLine(table.captions), RowLine(table.rows[1], close), RowLine(table.rows[2], close),
      RowLine(table.rows[3], close), <<Close("table")>>>>

Rendered(page) ==
    LET lines(t) == TableLines(TablesOf(page)[t], page.close)
    IN  <<SpanLine>> \o lines(1) \o lines(2) \o lines(3)

(***************************************************************************)
(* _PageParser.                                                            *)
(***************************************************************************)
NoRows == [label \in {} |-> <<>>]
NewTable == [caption |-> "", rows |-> NoRows]

EmptyParser == [fields |-> [label \in {} |-> ""], tables |-> <<>>, open |-> FALSE,
                pending |-> None, capture |-> None, buffer |-> "",
                rowLabel |-> None, rowCells |-> <<>>]

OpenTable(p) == p.tables[Len(p.tables)]
InOpenTable(p, table) == [p EXCEPT !.tables[Len(p.tables)] = table]

With(f, key, value) == [k \in DOMAIN f \cup {key} |-> IF k = key THEN value ELSE f[k]]

FinishCapture(p) ==
    LET done == [p EXCEPT !.capture = None] IN
    CASE p.capture = "label" -> [done EXCEPT !.pending = p.buffer]
      [] p.capture = "value" ->
            [done EXCEPT !.pending = None,
                         !.fields = IF p.pending \in {None} \cup DOMAIN @ THEN @
                                    ELSE With(@, p.pending, p.buffer)]
      [] p.capture = "caption" /\ p.open /\ OpenTable(p).caption = "" ->
            InOpenTable(done, [OpenTable(p) EXCEPT !.caption = p.buffer])
      [] p.capture = "row_label" -> [done EXCEPT !.rowLabel = p.buffer, !.rowCells = <<>>]
      [] p.capture = "cell" -> [done EXCEPT !.rowCells = Append(@, p.buffer)]
      [] OTHER -> done

StartCapture(p, kind) == [FinishCapture(p) EXCEPT !.capture = kind, !.buffer = ""]

FinishRow(p) ==
    LET kept == IF p.open /\ p.rowLabel # None
                THEN InOpenTable(p, [OpenTable(p) EXCEPT !.rows = With(@, p.rowLabel, p.rowCells)])
                ELSE p
    IN  [kept EXCEPT !.rowLabel = None, !.rowCells = <<>>]

HandleStartTag(p, tag) ==
    CASE tag \in {"label", "value"} -> StartCapture(p, tag)
      [] tag = "table" ->
            [FinishCapture(p) EXCEPT !.open = TRUE, !.tables = Append(@, NewTable)]
      [] tag = "acs-th" /\ p.open -> StartCapture(p, "caption")
      [] tag = "th" /\ p.open -> StartCapture(p, "row_label")
      [] tag = "td" /\ p.open /\ p.rowLabel # None -> StartCapture(p, "cell")
      [] tag = "tr" /\ p.open ->
            [FinishCapture(p) EXCEPT !.rowLabel = None, !.rowCells = <<>>]
      [] OTHER -> p

HandleEndTag(p, tag) ==
    LET q == FinishCapture(p) IN
    CASE tag = "tr" -> FinishRow(q)
      [] tag = "table" -> [FinishRow(q) EXCEPT !.open = FALSE]
      [] OTHER -> q

HandleData(p, text) == IF p.capture = None THEN p ELSE [p EXCEPT !.buffer = text]

\* The parser is fed an element of the page.
Fed(p, element) ==
    LET opened == IF element.open = None THEN p ELSE HandleStartTag(p, element.open)
        told == IF element.text = "" THEN opened ELSE HandleData(opened, element.text)
    IN  IF element.close = None THEN told ELSE HandleEndTag(told, element.close)

\* A mistake: the end of the page ends the row that is open.
EndsOpenRow(p) == HandleEndTag(p, "table")

\* close() flushes the text that is left, and finishes neither a capture nor a row.
Closed(p) == p

(***************************************************************************)
(* parse_comcast_network.                                                  *)
(***************************************************************************)
Placeholders == {"", "----"}
IsPlaceholder(text) == text \in Placeholders

Numerals ==
    [text \in {"0", "1", "2", "5", "7", "70"} |->
        CASE text = "0" -> 0 [] text = "1" -> 1 [] text = "2" -> 2
          [] text = "5" -> 5 [] text = "7" -> 7 [] text = "70" -> 70]
LockStatus == [text \in {"Locked", "Not Locked"} |-> text = "Locked"]

\* _number and _count: a placeholder is no number, other wording no page.
Counts(text) == IsPlaceholder(text) \/ text \in DOMAIN Numerals
Count(text) == IF IsPlaceholder(text) THEN None ELSE Numerals[text]

Row(table, label) == IF label \in DOMAIN table.rows THEN table.rows[label] ELSE <<>>

\* A mistake: the downstream table is the first with an Index row.
FirstIndexed(table) == Row(table, "Index") # <<>>

IsDownstream(table) ==
    /\ Row(table, "Index") # <<>>
    /\ \E cell \in Range(Row(table, "Lock Status")) : cell # ""

\* The first of some tables, or 0.
First(tables) == IF tables = {} THEN 0 ELSE CHOOSE t \in tables : \A u \in tables : t <= u

DownstreamTable(tables) == First({t \in DOMAIN tables : IsDownstream(tables[t])})
TableWithCaption(tables, caption) == First({t \in DOMAIN tables : tables[t].caption = caption})

\* Two mistakes: the quirk is not looked for, and one equal row is enough.
NeverRepeats(rows) == FALSE
AnyRowRepeats(rows) ==
    \E row \in Range(rows) : Head(row) = Last(row) /\ Head(row) \notin {"0", "----"}

\* The quirk: in every row the first cell is a copy of the last.
FirstColumnRepeatsLast(rows) ==
    /\ \A row \in Range(rows) : Head(row) = Last(row) /\ ~IsPlaceholder(Head(row))
    /\ \E row \in Range(rows) : Head(row) # "0"

Downstream(p) == p.tables[DownstreamTable(p.tables)]
Codewords(p) == p.tables[TableWithCaption(p.tables, "CM Error Codewords")]
Width(p) == Len(Row(Downstream(p), "Index"))

\* The codeword rows, without the first column when it repeats the last.
CountRows(p) ==
    LET rows == [r \in 1 .. 3 |-> Row(Codewords(p), CodewordRows[r])]
    IN  IF Width(p) > 1 /\ FirstColumnRepeatsLast(rows)
        THEN [r \in 1 .. 3 |-> [rows[r] EXCEPT ![1] = ""]] ELSE rows

\* Everything that would raise ParseError is as it should be.
Parses(p) ==
    /\ "Internet" \in DOMAIN p.fields /\ p.fields["Internet"] \in {"Active", "Inactive"}
    /\ DownstreamTable(p.tables) # 0 /\ TableWithCaption(p.tables, "CM Error Codewords") # 0
    /\ \A label \in Range(ChannelRows) : Len(Row(Downstream(p), label)) = Width(p)
    /\ \A label \in Range(CodewordRows) : Len(Row(Codewords(p), label)) = Width(p)
    /\ LET indexes == Row(Downstream(p), "Index") IN
          /\ \A i \in DOMAIN indexes : indexes[i] \in DOMAIN Numerals
          /\ IsInjective(indexes)
    /\ \A text \in Range(Row(Downstream(p), "Lock Status")) : text \in DOMAIN LockStatus
    /\ \A text \in Range(Row(Downstream(p), "Power Level")) : Counts(text)
    /\ \A row \in Range(CountRows(p)) : \A text \in Range(row) : Counts(text)

\* _channels
Channels(p) ==
    [i \in 1 .. Width(p) |->
        [index |-> Numerals[Row(Downstream(p), "Index")[i]],
         locked |-> LockStatus[Row(Downstream(p), "Lock Status")[i]],
         power |-> Count(Row(Downstream(p), "Power Level")[i]),
         counts |-> [r \in 1 .. 3 |-> Count(CountRows(p)[r][i])]]]

ParsePage(p) == IF Parses(p) THEN Channels(p) ELSE ParseError

(***************************************************************************)
(* The pages and the statuses there may be.                                *)
(***************************************************************************)
Channel == [index : Texts, locked : Texts, power : Texts, counts : [1 .. 3 -> Texts]]
Status == [index : Nat, locked : BOOLEAN, power : Nat \cup {None},
           counts : [1 .. 3 -> Nat \cup {None}]]

\* The tags, what a capture is for, and the labels of the page.
Words ==
    {"span", "td", "th", "acs-th", "tr", "table", "label", "value", "caption", "row_label", "cell",
     "Internet", "Active", "Downstream", "Upstream", "Channel Bonding Value", "CM Error Codewords",
     "Index", "Lock Status", "Power Level", "Unerrored", "Correctable", "Uncorrectable", "", "1"}

\* A page has a channel at least.
Assumption ==
    /\ Words \subseteq Texts /\ None \notin Texts
    /\ None \notin Nat /\ None \notin Pages
    /\ None \notin Seq(Status) /\ ParseError \notin Seq(Status) /\ ParseError # None
    /\ \A page \in Pages :
          /\ page.channels \in Seq(Channel) /\ page.channels # <<>>
          /\ page.quirk \in BOOLEAN /\ page.upstreamFirst \in BOOLEAN
          /\ page.close \in {"td", "th"}
          /\ page.fault # None => page.fault \in Range(ChannelRows) \cup Range(CodewordRows)

(***************************************************************************)
(* A poll.                                                                 *)
(***************************************************************************)
Init ==
    /\ gateway = None /\ line = 1 /\ column = 1 /\ parser = EmptyParser /\ status = None
    /\ cut = FALSE

Answers(page) ==
    /\ gateway = None
    /\ gateway' = page
    /\ UNCHANGED <<line, column, parser, status, cut>>

End == Len(Rendered(gateway)) + 1
IsFed == gateway # None /\ line < End

Elements == Rendered(gateway)[line]

\* The parser is fed what comes next.
Feed ==
    /\ IsFed
    /\ parser' = Fed(parser, Elements[column])
    /\ IF column < Len(Elements) THEN column' = column + 1 /\ line' = line
       ELSE column' = 1 /\ line' = line + 1
    /\ UNCHANGED <<gateway, status, cut>>

\* The connection ends: before what comes next, or within it.
Cut ==
    /\ IsFed
    /\ line' = End /\ column' = 1 /\ cut' = TRUE
    /\ \/ UNCHANGED parser
       \/ \E part \in {"", "7", "Locked", Elements[column].text} :
             parser' = Fed(parser, [Elements[column] EXCEPT !.text = part, !.close = None])
    /\ UNCHANGED <<gateway, status>>

\* The page has been fed: it is closed and read.
Read ==
    /\ gateway # None /\ ~IsFed /\ status = None
    /\ status' = ParsePage(Closed(parser))
    /\ parser' = EmptyParser
    /\ UNCHANGED <<gateway, line, column, cut>>

NextPoll ==
    /\ status # None
    /\ gateway' = None /\ status' = None /\ cut' = FALSE
    /\ line' = 1 /\ column' = 1
    /\ UNCHANGED parser

Next == (\E page \in Pages : Answers(page)) \/ Feed \/ Cut \/ Read \/ NextPoll

Spec == Init /\ [][Next]_vars

(***************************************************************************)
(* Properties.                                                             *)
(***************************************************************************)

\* The state is well formed.
TypeOK ==
    /\ gateway \in Pages \cup {None}
    /\ gateway # None => line \in 1 .. End
    /\ IsFed => column \in DOMAIN Elements
    /\ parser.capture \in {None, "label", "value", "caption", "row_label", "cell"}
    /\ cut \in BOOLEAN

\* A page the parser is written for.
WellFormed(page) ==
    /\ page.fault = None
    /\ \A i, j \in DOMAIN page.channels :
          page.channels[i].index = page.channels[j].index => i = j
    /\ \A c \in Range(page.channels) :
          c.index \in DOMAIN Numerals /\ c.locked \in DOMAIN LockStatus /\ Counts(c.power)
    /\ \A i \in DOMAIN page.channels, r \in 1 .. 3 : Counts(Shown(page, i)[r])

IsStatus == status \notin {None, ParseError}

\* A status is what the whole page says, channel by channel: a page that ended
\* early, lost a cell, repeats an index or words a status in a new way gives
\* no status at all, never a part of one (parser.py:24 and :188-189).
WholeOrNothing ==
    IsStatus =>
        /\ WellFormed(gateway)
        /\ DOMAIN status = DOMAIN gateway.channels
        /\ \A i \in DOMAIN status :
              LET c == gateway.channels[i] IN
              /\ status[i].index = Numerals[c.index]
              /\ status[i].locked = LockStatus[c.locked]
              /\ status[i].power = Count(c.power)
              /\ \A r \in 1 .. 3 : status[i].counts[r] \in {None, Count(Shown(gateway, i)[r])}

\* No channel is published with another channel's codeword counts, although
\* the firmware renders the last channel's in the first column (parser.py:213-219),
\* but where the parser cannot tell: zeros only, or a count that is not shown.
OwnCountsOnly ==
    IsStatus =>
        \A i \in DOMAIN status, r \in 1 .. 3 :
            \/ status[i].counts[r] \in {None, Count(gateway.channels[i].counts[r])}
            \/ /\ gateway.quirk /\ i = 1
               /\ \/ status[i].counts = <<0, 0, 0>>
                  \/ \E q \in 1 .. 3 : IsPlaceholder(Shown(gateway, i)[q])

\* A whole page gives a status: neither a placeholder, nor the place of the
\* upstream table, nor a label closed with the wrong tag costs more than the
\* cell, and a count is dropped only where the first column repeats the last.
WholePageParses ==
    (status # None /\ ~cut /\ WellFormed(gateway)) =>
        /\ IsStatus
        /\ \A i \in DOMAIN status, r \in 1 .. 3 :
              \/ status[i].counts[r] # None
              \/ IsPlaceholder(Shown(gateway, i)[r])
              \/ /\ i = 1 /\ Len(gateway.channels) > 1
                 /\ Shown(gateway, 1) = Shown(gateway, Len(gateway.channels))
=============================================================================
