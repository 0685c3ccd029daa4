------------------------------- MODULE Ledger -------------------------------
(***************************************************************************)
(* The metrics ledger of llama-router (router/metrics.hpp) and the viewer  *)
(* that follows it (dashboard/ledger_view.hpp, dashboard/main.cpp).        *)
(*                                                                         *)
(* A file is a sequence of pieces. A line is written in pieces, the last   *)
(* of which is the newline: a write of a long line reaches the file in     *)
(* several parts, and a full disk or a kill leaves a prefix. The viewer is *)
(* another process. Its poll is two steps, the size and then the bytes;    *)
(* between them the router writes and the operator may replace the file.   *)
(*                                                                         *)
(* Left out: the sums and percentiles of both sides, which are folds over  *)
(* the requests and over `shown`; blank lines, which nobody writes; what   *)
(* a close after a failed flush writes again.                              *)
(***************************************************************************)
EXTENDS Integers, Sequences, FiniteSets

CONSTANTS
    Sizes,          \* the sizes a line may have, in pieces, the newline included
    CarryCeiling,   \* kDefaultMaxCarryBytes, in pieces
    MaxRecords,     \* bounds the requests
    MaxFiles,       \* bounds the files that were at the path
    MaxKills        \* bounds the deaths of the router

ASSUME LedgerAssumption ==
    /\ Sizes \subseteq Nat \ {0, 1} /\ CarryCeiling \in Nat
    /\ MaxRecords \in Nat /\ MaxFiles \in Nat /\ MaxKills \in Nat

VARIABLES
    requests,       \* requests that ended so far; a record is known by its number
    kills,
    file,           \* what is at the path: the number of the file and its pieces
    files,          \* files created so far
    router,         \* [up, out, rest]: the open file and what is still to be written to it
    consumed, tail, \* LedgerFollower: consumed_, tail_
    shown,          \* the records its view counts, in their order
    asked,          \* the poll under way: the offset and the size it read, or Nothing
    followed, before \* history: the file `shown` is of, the lines skipped when it was begun

routerVars == <<requests, kills, file, files, router>>
viewerVars == <<consumed, tail, shown, asked, followed, before>>
ledgerVars == <<routerVars, viewerVars>>

None == 0
Nothing == <<>>
Absent == [id |-> None, pieces |-> <<>>]
Down == [up |-> FALSE, out |-> None, rest |-> <<>>]

Line(n, size) == [k \in 1..size |-> [of |-> n, part |-> k, newline |-> k = size]]

------------------------------------------------------------------------------
(* The router. *)

\* The file at the path is opened, and created if it is absent.
Opened(at) ==
    IF at # Absent THEN file' = at /\ UNCHANGED files
    ELSE file' = [id |-> files + 1, pieces |-> <<>>] /\ files' = files + 1

\* The constructor opens the file.
Start ==
    /\ ~router.up /\ (file = Absent => files < MaxFiles)
    /\ Opened(file)
    /\ router' = [up |-> TRUE, out |-> file'.id, rest |-> <<>>]
    /\ UNCHANGED <<requests, kills, viewerVars>>

\* record(): the counters of the endpoint advance whatever becomes of the line. A file
\* that was closed after a failure is opened again.
Record(size) ==
    /\ router.up /\ router.rest = <<>> /\ requests < MaxRecords
    /\ requests' = requests + 1
    /\ IF router.out # None
       THEN /\ router' = [router EXCEPT !.rest = Line(requests', size)]
            /\ UNCHANGED <<file, files>>
       ELSE /\ file = Absent => files < MaxFiles
            /\ Opened(file)
            /\ router' = [router EXCEPT !.out = file'.id, !.rest = Line(requests', size)]
    /\ UNCHANGED <<kills, viewerVars>>

\* The open file is the one at the path, or one that was unlinked.
Written(pieces) ==
    IF router.out = file.id
    THEN file' = [file EXCEPT !.pieces = @ \o pieces] ELSE UNCHANGED file

WriteSome(count) ==
    /\ count \in 1..Len(router.rest)
    /\ Written(SubSeq(router.rest, 1, count))
    /\ router' = [router EXCEPT !.rest = SubSeq(@, count + 1, Len(@))]
    /\ UNCHANGED <<requests, kills, files, viewerVars>>

\* The write fails: a warning, and the file is closed.
AppendFails ==
    /\ router.rest # <<>>
    /\ router' = [router EXCEPT !.rest = <<>>, !.out = None]
    /\ UNCHANGED <<requests, kills, file, files, viewerVars>>

Kill ==
    /\ router.up /\ kills < MaxKills
    /\ kills' = kills + 1 /\ router' = Down
    /\ UNCHANGED <<requests, file, files, viewerVars>>

\* The operator moves the ledger away.
MoveAway ==
    /\ file # Absent /\ file' = Absent
    /\ UNCHANGED <<requests, kills, files, router, viewerVars>>

------------------------------------------------------------------------------
(* The viewer. *)

Fresh == [carry |-> <<>>, dropping |-> FALSE, skipped |-> 0]
\* reset() without one of its two assignments.
KeepDropping(t) == [t EXCEPT !.carry = <<>>]
Reset(t) == [t EXCEPT !.carry = <<>>, !.dropping = FALSE]

\* A file that shrank is another file.
Shrank(size) == size < consumed

\* poll(): there is no file (yet).
Missing == asked = Nothing /\ file = Absent /\ UNCHANGED ledgerVars

\* poll(), the size. The file is read again from its first byte if it shrank.
Stat ==
    /\ asked = Nothing /\ file # Absent
    /\ LET size == Len(file.pieces)
           offset == IF Shrank(size) THEN 0 ELSE consumed
       IN /\ IF Shrank(size)
             THEN /\ tail' = Reset(tail) /\ consumed' = 0 /\ shown' = <<>>
                  /\ followed' = None /\ before' = tail.skipped
             ELSE UNCHANGED <<tail, consumed, shown, followed, before>>
          /\ asked' = IF size <= offset THEN Nothing ELSE <<offset, size>>
    /\ UNCHANGED routerVars

\* A complete line is one record, and nothing else.
Intact(line) == line = Line(line[1].of, Len(line))

\* One piece of a chunk: a newline ends a line, or the rest of a blob that was dropped.
TakePiece(acc, piece) ==
    IF ~piece.newline
    THEN IF acc.dropping THEN acc ELSE [acc EXCEPT !.carry = Append(@, piece)]
    ELSE IF acc.dropping THEN [acc EXCEPT !.dropping = FALSE]
    ELSE LET line == Append(acc.carry, piece)
         IN IF Intact(line)
            THEN [acc EXCEPT !.carry = <<>>, !.shown = Append(@, piece.of)]
            ELSE [acc EXCEPT !.carry = <<>>, !.skipped = @ + 1]

\* What is left of a chunk is carried, or dropped above the ceiling.
Capped(acc) ==
    IF Len(acc.carry) > CarryCeiling
    THEN [acc EXCEPT !.carry = <<>>, !.dropping = TRUE, !.skipped = @ + 1] ELSE acc

\* The pieces of a chunk in turn: after each, what is carried and what the view counts.
Taken(acc, chunk) ==
    LET after[k \in 0..Len(chunk)] == IF k = 0 THEN acc ELSE TakePiece(after[k - 1], chunk[k])
    IN after

Seen == [carry |-> tail.carry, dropping |-> tail.dropping, skipped |-> tail.skipped,
         shown |-> shown]

Consumed(chunk) == Capped(Taken(Seen, chunk)[Len(chunk)])

\* poll(), the bytes: those of the file that is at the path by now.
Read ==
    /\ asked # Nothing
    /\ asked' = Nothing
    /\ IF file = Absent THEN UNCHANGED <<consumed, tail, shown, followed, before>>
       ELSE LET last == IF asked[2] < Len(file.pieces) THEN asked[2] ELSE Len(file.pieces)
                chunk == SubSeq(file.pieces, asked[1] + 1, last)
                after == Consumed(chunk)
            IN /\ consumed' = asked[1] + Len(chunk)
               /\ tail' = [carry |-> after.carry, dropping |-> after.dropping,
                           skipped |-> after.skipped]
               /\ shown' = after.shown
               /\ followed' = IF asked[1] = 0 \/ chunk = <<>> \/ followed = file.id
                              THEN IF asked[1] = 0 THEN file.id ELSE followed
                              ELSE None
               /\ UNCHANGED before
    /\ UNCHANGED routerVars

LedgerInit ==
    /\ requests = 0 /\ kills = 0 /\ files = 0
    /\ file = Absent /\ router = Down
    /\ consumed = 0 /\ tail = Fresh /\ shown = <<>> /\ asked = Nothing
    /\ followed = None /\ before = 0

LedgerNext ==
    \/ Start \/ AppendFails \/ Kill \/ MoveAway \/ Missing \/ Stat \/ Read
    \/ \E size \in Sizes : Record(size)
    \/ \E count \in 1..Len(router.rest) : WriteSome(count)

LedgerSpec == LedgerInit /\ [][LedgerNext]_ledgerVars

------------------------------------------------------------------------------

\* The newlines among the first n pieces, and the last of them.
Newlines(pieces, n) == {k \in 1..n : pieces[k].newline}
LastNewline(pieces, n) ==
    CHOOSE k \in Newlines(pieces, n) \cup {0} : \A h \in Newlines(pieces, n) : h <= k

\* The line that a newline ends.
LineTo(pieces, k) == SubSeq(pieces, LastNewline(pieces, k - 1) + 1, k)

RecordOf(line) == line[1].of
\* A line that a read may have cut above the ceiling.
Overlong(line) == Len(line) - 1 > CarryCeiling

\* The records of s are, in the order of the file, those of the intact lines that end at
\* the newlines `ends`, and no intact line is missing but those beyond the ceiling.
AreRecordsOf(s, pieces, n, ends) ==
    /\ \A i, j \in DOMAIN s : i < j => ends[i] < ends[j]
    /\ \A i \in DOMAIN s :
          Intact(LineTo(pieces, ends[i])) /\ s[i] = RecordOf(LineTo(pieces, ends[i]))
    /\ \A k \in Newlines(pieces, n) :
          Intact(LineTo(pieces, k)) /\ ~Overlong(LineTo(pieces, k)) => \E i \in DOMAIN s : ends[i] = k

RecordsAreCounted(s, pieces, n) ==
    \E ends \in [DOMAIN s -> Newlines(pieces, n)] : AreRecordsOf(s, pieces, n, ends)

\* However the file was chunked by writes and polls, and whatever was replaced,
\* torn or dropped: of the part of the ledger that the viewer has read it counts
\* every record whose line is whole once and in the order of the file, but for
\* lines beyond the ceiling, and every other line as one unreadable line
\* (ledger_view.hpp: "any chunking of the same byte sequence emits the same
\* records as consuming it whole"). A file that replaced a shorter one while
\* nobody looked is the exception: its beginning is never read.
EveryLineIsCounted ==
    followed = file.id /\ file # Absent =>
        /\ RecordsAreCounted(shown, file.pieces, consumed)
        /\ Len(shown) + (tail.skipped - before) =
               Cardinality(Newlines(file.pieces, consumed)) + (IF tail.dropping THEN 1 ELSE 0)
=============================================================================
