----------------------------- MODULE ModelStream -----------------------------
(***************************************************************************)
(* One model call as the service reads it (app/llm.py stream): text and    *)
(* pieces of tool calls in whatever order the provider streams them, one   *)
(* or two finish reasons, and an end, an error or a reader who leaves; and *)
(* the vectors of an embedding request (embed).                            *)
(***************************************************************************)
EXTENDS Naturals, Sequences, SequencesExt, FiniteSets, Ordered

CONSTANTS
    Indexes,    \* of the tool calls of one answer
    MaxPieces,  \* bound: pieces of one call's arguments
    MaxText,    \* bound: pieces of text
    Texts       \* embedded: 1..Texts

StreamConstants ==
    /\ Indexes \subseteq Nat /\ IsFiniteSet(Indexes) /\ {MaxPieces, MaxText, Texts} \subseteq Nat

VARIABLES
    pieces,     \* index -> how many pieces the provider makes of the call
    posted,     \* index -> how many of them it has sent
    texts,      \* pieces of text sent
    finishes,   \* finish reasons sent
    calls,      \* index -> the pieces received, a call under way
    got,        \* what stream() has yielded
    outcome,    \* "open", or the span's app.llm.outcome
    vectors     \* what embed() answers: <<>> before, or when it refuses

vars == <<pieces, posted, texts, finishes, calls, got, outcome, vectors>>

Init ==
    /\ pieces \in UNION {[called -> 1..MaxPieces] : called \in SUBSET Indexes}
    /\ posted = [i \in DOMAIN pieces |-> 0] /\ texts = 0 /\ finishes = 0
    /\ calls = [i \in {} |-> <<>>] /\ got = <<>> /\ outcome = "open"
    /\ vectors = <<>>

Text ==
    /\ outcome = "open" /\ texts < MaxText /\ finishes = 0
    /\ texts' = texts + 1
    /\ got' = Append(got, [kind |-> "text"])
    /\ UNCHANGED <<pieces, posted, finishes, calls, outcome, vectors>>

\* Mutant of Slot: each piece goes to the call that began last.
SlotOfTheLast(i) ==
    IF posted[i] = 0 \/ DOMAIN calls = {} THEN i
    ELSE CHOOSE j \in DOMAIN calls : \A k \in DOMAIN calls : k <= j

\* Pieces are keyed by the provider's index.
Slot(i) == i

Piece(i) ==
    /\ outcome = "open" /\ finishes = 0 /\ posted[i] < pieces[i]
    /\ posted' = [posted EXCEPT ![i] = @ + 1]
    /\ LET part == <<i, posted[i] + 1>>
           s == Slot(i)
           there == IF s \in DOMAIN calls THEN calls[s] ELSE <<>>
       IN  calls' = [j \in DOMAIN calls \cup {s} |->
                        IF j = s THEN Append(there, part) ELSE calls[j]]
    /\ UNCHANGED <<pieces, texts, finishes, got, outcome, vectors>>

\* A finish reason, which some providers repeat: each call under way is
\* yielded, by index, once.
Finish ==
    /\ outcome = "open" /\ finishes < 2
    /\ \A i \in DOMAIN pieces : posted[i] = pieces[i]
    /\ finishes' = finishes + 1
    /\ LET order == InOrder(DOMAIN calls)
       IN  got' = got \o [k \in DOMAIN order |->
                            [kind |-> "call", index |-> order[k],
                             arguments |-> calls[order[k]]]]
                      \o <<[kind |-> "finish"]>>
    /\ calls' = [i \in {} |-> <<>>]
    /\ UNCHANGED <<pieces, posted, texts, outcome, vectors>>

\* What _provider_errors makes of the SDK's exceptions, before and during a
\* stream.
ProviderErrors == {"llm_timeout", "llm_rate_limited", "llm_unavailable", "llm_error"}

\* The stream ends (a provider may leave out the finish reason), fails, or
\* its reader is cancelled or closes it.
Close ==
    /\ outcome = "open"
    /\ outcome' \in ProviderErrors \cup {"ok", "internal_error", "cancelled"}
    /\ UNCHANGED <<pieces, posted, texts, finishes, calls, got, vectors>>

\* embed: the response's vectors, in any order and any number, are put in the
\* order of their indexes; another number than was asked for is refused.
Embed ==
    /\ outcome = "open" /\ texts = 0 /\ finishes = 0
    /\ \E data \in UNION {SetToSeqs(returned) : returned \in SUBSET (1..Texts)} :
        /\ vectors' = IF Len(data) = Texts THEN InOrder(Range(data)) ELSE <<>>
        /\ outcome' = IF Len(data) = Texts THEN "ok" ELSE "llm_error"
    /\ UNCHANGED <<pieces, posted, texts, finishes, calls, got>>

Next == Text \/ Finish \/ Close \/ Embed \/ \E i \in DOMAIN pieces : Piece(i)

Spec == Init /\ [][Next]_vars

-----------------------------------------------------------------------------
TypeOK ==
    /\ posted \in [DOMAIN pieces -> 0..MaxPieces]
    /\ texts \in 0..MaxText /\ finishes \in 0..2
    /\ DOMAIN calls \subseteq Indexes
    /\ \A k \in DOMAIN got : got[k].kind \in {"text", "call", "finish"}
    /\ vectors \in {<<>>, [i \in 1..Texts |-> i]}

CallsAt == {k \in DOMAIN got : got[k].kind = "call"}

\* A tool call reaches the service whole or not at all, once, with its own
\* pieces in their order, however the provider interleaves the calls, repeats
\* its finish reason or breaks off: before a finish reason there is none, and
\* with it all there are (llm.py:211-213, 258-276).
CallsAreWhole ==
    IF finishes = 0 THEN CallsAt = {}
    ELSE /\ {got[k].index : k \in CallsAt} = DOMAIN pieces
         /\ \A k \in CallsAt :
                LET i == got[k].index
                IN  got[k].arguments = [n \in 1..pieces[i] |-> <<i, n>>]
         /\ \A j, k \in CallsAt : j < k => got[j].index < got[k].index
=============================================================================
