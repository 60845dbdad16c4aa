------------------------------ MODULE HttpStream ------------------------------
(***************************************************************************)
(* The bytes of one HTTP connection of the click-to-call service: the data   *)
(* events of MPNetTransport (mp_net_transport.cc) and the parsing loop of      *)
(* MPC2CTransportCallback::onData (mp_c2c.cc), which finds the requests in      *)
(* the peer's buffer however TCP cuts the stream.                             *)
(*                                                                         *)
(* A byte is abstracted to a unit, the smallest piece that matters to the      *)
(* loop: where a request begins, the empty line that ends its headers, a piece *)
(* of content, a chunk, the last chunk (which holds an empty line too).  What   *)
(* the Doubango parser makes of a unit is external: it accepts headers that      *)
(* begin where a request begins, unless the request is malformed.             *)
(***************************************************************************)
EXTENDS Naturals, Sequences, SequencesExt

CONSTANTS
    MaxMessages, \* bound: requests of the connection
    ChunckMin,   \* kStreamChunckMinSize, in units
    BufferMax    \* kMPMaxStreamBufferSize, in units

ASSUME SizeAssumption == MaxMessages \in Nat /\ ChunckMin \in Nat /\ BufferMax \in Nat

VARIABLES
    messages, \* the requests the client sends, one after the other
    arrived,  \* units that have reached the gateway
    buffer,   \* the peer's buffer: units not consumed yet
    handled,  \* the requests that were analysed with all their content, in order (history)
    early,    \* those that were analysed before it was there, in order (history)
    endless,  \* onData does not return: nothing arrives on this transport any more
    dropped   \* a buffer grew too large and was emptied (history)

vars == <<messages, arrived, buffer, handled, early, endless, dropped>>

\* A request without content, one with a Content-Length, one with chunks, and one
\* whose headers are not HTTP.
Kind == {"options", "post", "chunked", "malformed"}
Part == {"head", "stub", "crlf", "body", "chunk", "last"}
Unit == [msg : 1..MaxMessages, part : Part]

Layout(kind) ==
    CASE kind = "options"   -> <<"head", "crlf">>
      [] kind = "post"      -> <<"head", "crlf", "body", "body">>
      [] kind = "chunked"   -> <<"head", "crlf", "chunk", "last">>
      [] kind = "malformed" -> <<"head", "crlf", "body">>

Units(m) ==
    LET parts == Layout(messages[m])
    IN  [i \in 1..Len(parts) |-> [msg |-> m, part |-> parts[i]]]

\* The units of the first n requests.
Upto(n) == FlattenSeq([m \in 1..n |-> Units(m)])

Stream == Upto(Len(messages))

TypeOK ==
    /\ messages \in [1..MaxMessages -> Kind]
    /\ arrived \in 0..Len(Stream)
    /\ buffer \in Seq(Unit) /\ Len(buffer) <= BufferMax
    /\ handled \in Seq(1..MaxMessages) /\ early \in Seq(1..MaxMessages)
    /\ endless \in BOOLEAN /\ dropped \in BOOLEAN

Init ==
    /\ messages \in [1..MaxMessages -> Kind]
    /\ arrived = 0 /\ buffer = <<>>
    /\ handled = <<>> /\ early = <<>> /\ endless = FALSE /\ dropped = FALSE

-----------------------------------------------------------------------------
(* The loop.  b is the buffer and c the units consumed so far.               *)

\* Where the headers after c end, or 0.
EndOfHeaders(b, c) ==
    LET ends == {i \in (c + 1)..Len(b) : b[i].part \in {"crlf", "last"}}
    IN  IF ends = {} THEN 0 ELSE CHOOSE e \in ends : \A i \in ends : e <= i

Parsed(b, c) == b[c + 1].part = "head" /\ messages[b[c + 1].msg] # "malformed"

ContentLength(b, c) == IF messages[b[c + 1].msg] = "post" THEN 2 ELSE 0

\* Mutant: wants one unit more than the content.
WholeAndMore(b, end) == end < Len(b)

Whole(b, end) == end <= Len(b)

LastChunkAfter(b, e) == \E i \in (e + 1)..Len(b) : b[i].part = "last"

\* "Parse next chunck".  size is what was left when this pass began, so what
\* earlier passes consumed is taken off twice, and size_t wraps below zero.
GoesOn(size, consumed) == size < consumed \/ size - consumed >= ChunckMin

\* An outcome of the loop: the units that it leaves, the requests that it analysed, and
\* whether the one that it leaves in front was analysed too: "once", or over and over
\* ("endless"; what the loop leaves is then what it looks at for ever).
\* Mutant: whatever arrived is consumed once some of it was.
LeftIfUntouched(b, c) == [buffer |-> IF c = 0 THEN b ELSE <<>>, handled |-> <<>>, early |-> "no"]

Left(b, c) == [buffer |-> SubSeq(b, c + 1, Len(b)), handled |-> <<>>, early |-> "no"]

\* Mutant: a chunked request is consumed up to the byte before it.
NotBitten(b, c) == b

\* nConsumedBytes += haveAllContent = true: a chunked request loses one byte.
Bitten(b, c) == [b EXCEPT ![c + 1].part = "stub"]

\* What is left of the method is an unknown method, which does nothing and loses
\* a byte more, until nothing is left of it and the headers do not parse.
ParseStub(b, c, e) == {Left(b, c), Left(b, e)}

\* Mutant: the flag is set when the loop begins.
AlwaysAll(c) == TRUE

\* haveAllContent when a pass begins after c: FALSE before the first pass, it is set by a
\* request that was all there, which consumes some of the buffer, and never reset.
HaveAllContent(c) == c > 0

\* A chunked request is analysed with the chunks that are there; none of it is consumed, so
\* that the next pass, if any, begins at the same place, with the same flag.
AnalysedEarly(b, c) ==
    [Left(b, c) EXCEPT !.early = IF GoesOn(Len(b) - c, c) THEN "endless" ELSE "once"]

Analysed(m, outcomes) == {[o EXCEPT !.handled = <<m>> \o @] : o \in outcomes}

\* Mutant: little data are not worth a pass.
ParseIfLong(b) ==
    LET parse[c \in 0..Len(b)] ==
        LET size == Len(b) - c
            e    == IF size <= ChunckMin THEN 0 ELSE EndOfHeaders(b, c)
            end  == e + ContentLength(b, c)
        IN  IF e = 0 \/ ~Parsed(b, c) \/ ~Whole(b, end) THEN {Left(b, c)}
            ELSE Analysed(b[c + 1].msg, IF GoesOn(size, end) THEN parse[end] ELSE {Left(b, end)})
    IN  parse[0]

\* A pass of the loop that begins after c, whose later passes are parse's.
Pass(parse, b, c) ==
    LET size == Len(b) - c
        e    == EndOfHeaders(b, c)
        m    == b[c + 1].msg
        end  == e + ContentLength(b, c)
        stub == Bitten(b, c)
    IN  CASE e = 0 ->
               {Left(b, c)}
          [] e # 0 /\ b[c + 1].part = "stub" ->
               ParseStub(b, c, e)
          [] e # 0 /\ b[c + 1].part # "stub" /\ ~Parsed(b, c) ->
               {Left(b, e)}
          [] e # 0 /\ Parsed(b, c) /\ messages[m] = "chunked" ->
               IF LastChunkAfter(b, e)
               THEN Analysed(m, IF GoesOn(size, c) THEN ParseStub(stub, c, e) ELSE {Left(stub, c)})
               ELSE {IF HaveAllContent(c) THEN AnalysedEarly(b, c) ELSE Left(b, c)}
          [] e # 0 /\ Parsed(b, c) /\ messages[m] # "chunked" ->
               IF ~Whole(b, end) THEN {Left(b, c)}
               ELSE Analysed(m, IF GoesOn(size, end) THEN parse[end] ELSE {Left(b, end)})

\* The outcomes of onData.
Parse(b) ==
    LET parse[c \in 0..Len(b)] == Pass(parse, b, c)
    IN  parse[0]

-----------------------------------------------------------------------------
(* Data events: the next n units.                                            *)

Arriving(n) == SubSeq(Stream, arrived + 1, arrived + n)

Data(n) ==
    /\ ~endless
    /\ arrived + n <= Len(Stream)
    /\ Len(buffer) + n <= BufferMax
    /\ arrived' = arrived + n
    /\ \E o \in Parse(buffer \o Arriving(n)) :
          /\ buffer' = o.buffer /\ handled' = handled \o o.handled
          /\ early' = IF o.early = "no" THEN early ELSE Append(early, o.buffer[1].msg)
          /\ endless' = (o.early = "endless")
    /\ UNCHANGED <<messages, dropped>>

\* Mutant: the new data are kept.
KeepArriving(n) == buffer' = Arriving(n)

CleanupData(n) == buffer' = <<>>

\* Too much: what was kept and what arrives are thrown away.
Overflow(n) ==
    /\ ~endless
    /\ arrived + n <= Len(Stream)
    /\ Len(buffer) + n > BufferMax
    /\ arrived' = arrived + n
    /\ CleanupData(n)
    /\ dropped' = TRUE
    /\ UNCHANGED <<messages, handled, early, endless>>

Next == \E n \in 1..(4 * MaxMessages) : Data(n) \/ Overflow(n)

Spec == Init /\ [][Next]_vars

-----------------------------------------------------------------------------
(* Properties.                                                               *)

EndOf(m) == Len(Upto(m))

\* Requests that are all there are analysed in the order they were sent and never twice,
\* however the stream is cut and whatever was dropped; a chunked one neither, of which
\* nothing but a byte is consumed.  With part of its content a request is analysed in one
\* event at most, and it is a chunked one.
OnceAndInOrder ==
    /\ \A i, j \in 1..Len(handled) : i < j => handled[i] < handled[j]
    /\ \A i, j \in 1..Len(early) : i < j => early[i] < early[j]
    /\ \A i \in 1..Len(early) : messages[early[i]] = "chunked"

\* "if(httpMessage && haveAllContent)": a request is analysed when all of it has arrived.
OnlyWholeAnalysed == early = <<>>

\* Where the stale haveAllContent bites: only at a request whose end has not arrived, behind
\* another that was analysed in the same event; the request stays in front of the buffer.  The
\* loop does not end only there.
EarlyBehindAnother ==
    [][/\ endless' => early' # early
       /\ early' # early =>
             LET m == early'[Len(early')]
             IN  /\ EndOf(m) > arrived' /\ Len(handled') > Len(handled)
                 /\ buffer'[1] = [msg |-> m, part |-> "head"]]_vars

Intact(m) == \E i \in 0..Len(buffer) : IsPrefix(Units(m), SubSeq(buffer, i + 1, Len(buffer)))

\* The content of a malformed request stays in the buffer and spoils the headers
\* of the next request, whose content stays in turn, up to a request that leaves none.
Spoiled(m) ==
    \E k \in 1..m : /\ messages[k] = "malformed"
                    /\ \A j \in k..(m - 1) : messages[j] \in {"malformed", "post"}

\* A request that has arrived was analysed or waits in the buffer, all of it: it is
\* lost only behind a malformed one or when the buffer is too small.
NothingLost ==
    \A m \in 1..MaxMessages :
        EndOf(m) <= arrived => \/ m \in ToSet(handled)
                               \/ Intact(m)
                               \/ Spoiled(m) \/ dropped

\* The buffer begins with a request that could be analysed.
Ready ==
    /\ buffer # <<>>
    /\ Parsed(buffer, 0)
    /\ IsPrefix(Units(buffer[1].msg), buffer)

\* A request that was left waiting although it was all there is analysed with the
\* next data, whatever they are.
WaitsForOneEvent ==
    [][Ready /\ ~(dropped' /\ buffer' = <<>>) => buffer[1].msg \in ToSet(handled')]_vars

\* Such a request is only left behind another that was analysed in the same event;
\* behind one alone that was not chunked, only if what is left is short.
LeftOnlyBehindAnother ==
    [][Ready' /\ buffer' # buffer =>
          LET new == Len(handled') - Len(handled)
          IN  \/ new > 1
              \/ new = 1 /\ Len(buffer') < ChunckMin
              \/ \E u \in ToSet(buffer) : u.part \in {"stub", "chunk", "last"}
              \/ \E m \in 1..MaxMessages : Spoiled(m)
              \/ dropped]_vars

=============================================================================
