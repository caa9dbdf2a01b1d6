----------------------------- MODULE EventParser -----------------------------
(***************************************************************************)
(* The chat page's parser of the answer's event stream (web/src/lib/sse.ts *)
(* parseSSE) over what sse.py writes: whatever pieces the network makes of *)
(* the stream, the events are those of the whole.                          *)
(*                                                                         *)
(* A line is a sequence of words: one that begins with "note" is a comment *)
(* (a keep-alive), any other one a data field.                             *)
(***************************************************************************)
EXTENDS Naturals, Sequences, SequencesExt, Ordered

CONSTANT MaxLength      \* bound: the stream's length

Symbols == {"word", "note", "CR", "LF"}

VARIABLES
    wire,       \* the stream as it was sent
    sent,       \* how much of it has been read
    buffer,     \* read, and not yet taken as lines
    data,       \* fields of the event under way
    events,     \* yielded: each the sequence of its fields
    over        \* the stream ended: nothing more is read

vars == <<wire, sent, buffer, data, events, over>>

\* Every way to send an event or two, keep-alives and half events included.
Init ==
    /\ wire \in UNION {[1..n -> Symbols] : n \in 0..MaxLength}
    /\ sent = 0 /\ buffer = <<>> /\ data = <<>> /\ events = <<>> /\ over = FALSE

IsEnd(symbol) == symbol \in {"CR", "LF"}

\* Mutant of WaitsForMore: a trailing CR ends its line at once.
TakesCrAtOnce(text, at, done) == FALSE

\* A trailing CR may be the first half of CR LF.
WaitsForMore(text, at, done) == text[at] = "CR" /\ at = Len(text) /\ ~done

\* One line of the text, dispatched: a blank one yields the event there is.
Dispatch(state, line) ==
    IF line = <<>>
    THEN [state EXCEPT !.data = <<>>,
                       !.events = IF state.data = <<>> THEN @ ELSE Append(@, state.data)]
    ELSE IF line[1] = "note" THEN state
    ELSE [state EXCEPT !.data = Append(@, line)]

\* One turn of the loop: the first line of the text, if all of it is there.
TakeLine(state, done) ==
    LET text == state.text
        ends == {i \in DOMAIN text : IsEnd(text[i])}
        at == CHOOSE i \in ends : \A j \in ends : i <= j
        width == IF text[at] = "CR" /\ at < Len(text) /\ text[at + 1] = "LF"
                 THEN 2 ELSE 1
    IN  IF ends = {} \/ WaitsForMore(text, at, done) THEN state
        ELSE [Dispatch(state, SubSeq(text, 1, at - 1)) EXCEPT
                   !.text = SubSeq(text, at + width, Len(text))]

\* The loop over the buffer's lines, `fuel` of them at most.
Lines(state, done, fuel) ==
    LET step[n \in 0..fuel] ==
            IF n = 0 THEN state ELSE TakeLine(step[n - 1], done)
    IN  step[fuel]

Took(text, done) ==
    LET after == Lines([text |-> text, data |-> data, events |-> events],
                       done, Len(text))
    IN  buffer' = after.text /\ data' = after.data /\ events' = after.events

\* One read: any number of symbols, none too.
Read ==
    /\ ~over
    /\ \E n \in sent..Len(wire) :
        /\ sent' = n
        /\ Took(buffer \o SubSeq(wire, sent + 1, n), FALSE)
    /\ UNCHANGED <<wire, over>>

\* The end: what is left without a blank line after it is dropped.
End ==
    /\ ~over /\ sent = Len(wire)
    /\ over' = TRUE
    /\ Took(buffer, TRUE)
    /\ UNCHANGED <<wire, sent>>

Next == Read \/ End

Spec == Init /\ [][Next]_vars

-----------------------------------------------------------------------------
TypeOK ==
    /\ sent \in 0..Len(wire) /\ over \in BOOLEAN
    /\ Len(buffer) + Len(data) <= sent

\* Where the stream's lines end, CR LF at its CR; and the line that ends at i.
Ends == {i \in DOMAIN wire :
            IsEnd(wire[i]) /\ ~(wire[i] = "LF" /\ i > 1 /\ wire[i - 1] = "CR")}

Start(i) == CHOOSE j \in 1..i :
    (j = 1 \/ IsEnd(wire[j - 1])) /\ \A k \in j..(i - 1) : ~IsEnd(wire[k])

LineAt(i) == SubSeq(wire, Start(i), i - 1)

Blanks == {i \in Ends : LineAt(i) = <<>>}

\* The fields before n with no blank line between them and n; and the fields,
\* as the lines they are.
FieldsUpTo(n) ==
    {i \in Ends \ Blanks :
        i < n /\ LineAt(i)[1] # "note" /\ \A b \in Blanks : b < n => b < i}

LinesAt(S) == [k \in 1..Cardinality(S) |-> LineAt(InOrder(S)[k])]

\* The stream's events: at each blank line the fields since the one before.
EventsAt(S) == [k \in 1..Cardinality(S) |-> LinesAt(FieldsUpTo(InOrder(S)[k]))]

WholeEvents == EventsAt({b \in Blanks : FieldsUpTo(b) # {}})

\* "Network chunks do not line up with events": what is yielded is at every
\* moment a beginning of the whole stream's events, and all of them at its end
\* (sse.ts:12-17, 31-60).
SplitsDoNotMatter ==
    /\ IsPrefix(events, WholeEvents)
    /\ over => events = WholeEvents
=============================================================================
