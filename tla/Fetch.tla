-------------------------------- MODULE Fetch --------------------------------
(* The model downloads (scripts/fetch_models.py): a file is assembled from    *)
(* ranges that several connections fetch into one partial file, with a ledger *)
(* of the ranges it holds, so that a killed install is resumed; a manifest    *)
(* says that the files were validated.  One model at one quant.               *)
EXTENDS Integers, FiniteSets, Sequences

CONSTANTS
    Parts,          \* the shards of the model, in the order they are fetched
    Chunks,         \* the ranges of a shard, 1..n
    Weights,        \* the shards that are validated: not the projector
    Digested,       \* those of them whose hash is published
    MaxCommands,    \* bound: commands given
    MaxInterrupts,  \* bound: kills and exceptions
    MaxBadAnswers   \* bound: answers that are short or ignore the range

ASSUME FetchAssumption ==
    /\ Len(Parts) \in Nat \ {0} /\ DOMAIN Parts = 1..Len(Parts)
    /\ Digested \subseteq Weights /\ Weights \subseteq {Parts[n] : n \in DOMAIN Parts}
    /\ Parts[1] \in Weights
    /\ Chunks \subseteq Nat \ {0} /\ 1 \in Chunks /\ IsFiniteSet(Chunks)
    /\ MaxCommands \in Nat /\ MaxInterrupts \in Nat /\ MaxBadAnswers \in Nat

VARIABLES
    file,       \* a shard in its place: [right size, what each range holds], or None
    partial,    \* its .part
    ledger,     \* its .part.json: the ranges recorded as done, or None
    card,       \* the manifest: "none", "torn", or [validated, hashed, unsized]
    order,      \* the command under way: its step, its option, the shard at hand, and the
                \* shards whose size the listing does not give
    had,        \* done_chunks of download_file()
    busy,       \* the ranges that a connection is fetching
    listed,     \* the generated configurations name the model
    spoiled,    \* the shards whose bytes an answer that was not asked for has touched
    outlived,   \* the shards whose part was made under a ledger that had outlived its own,
                \* until the first range is on record
    vouched,    \* what the manifest's verdict compared: "hash", "size", "nothing"; and
                \* "nothing" again once a shard was put in place after it
    bounds      \* commands, interrupts and bad answers so far

fetchVars ==
    <<file, partial, ledger, card, order, had, busy, listed, spoiled, outlived, vouched,
      bounds>>

None == [size |-> "none", body |-> [c \in Chunks |-> "hole"]]
Sparse == [size |-> "full", body |-> [c \in Chunks |-> "hole"]]
NoLedger == {0}
NoCard == [kind |-> "none", validated |-> FALSE, hashed |-> FALSE, unsized |-> {}]
NoOrder == [step |-> "idle", hash |-> TRUE, at |-> 1, unsized |-> {}]
Shards == {Parts[n] : n \in DOMAIN Parts}
Cur == Parts[order.at]
Whole(s) == file[s].size = "full" /\ \A c \in Chunks : file[s].body[c] = "data"

Tally(what) == bounds' = [bounds EXCEPT ![what] = @ + 1]
May(what, max) == bounds[what] < max

\* manifest_intact(): sizes only.
Intact == card.unsized = {} /\ \A s \in Shards : file[s].size = "full"
\* installed_models(), and the early return of install_model().
Installed == card.kind = "card" /\ card.validated /\ Intact

\* validate_files(): sizes, the hashes there are when asked for, and the header of the
\* first shard.
Valid(hash, unsized) ==
    /\ \A s \in Weights : s \notin unsized /\ file[s].size = "full"
    /\ hash => \A s \in Digested : Whole(s)
    /\ file[Parts[1]].body[1] = "data"

-----------------------------------------------------------------------------
(* Commands. *)

Install(force, hash) ==
    /\ order.step = "idle" /\ May("commands", MaxCommands) /\ Tally("commands")
    /\ force \/ ~Installed
    /\ order' = [NoOrder EXCEPT !.step = IF force THEN "clear" ELSE "open", !.hash = hash]
    /\ UNCHANGED <<file, partial, ledger, card, had, busy, listed, spoiled, outlived, vouched>>

\* cmd_verify() writes its verdict, and keeps the rest of the manifest as it was.
VerifyModel(hash) ==
    /\ order.step = "idle" /\ May("commands", MaxCommands) /\ Tally("commands")
    /\ card.kind = "card"
    /\ card' = [card EXCEPT !.validated = Valid(hash, card.unsized)]
    /\ vouched' = IF hash THEN "hash" ELSE "size"
    /\ UNCHANGED <<file, partial, ledger, order, had, busy, listed, spoiled, outlived>>

\* cmd_remove() starts its rmtree().
RemoveModel ==
    /\ order.step = "idle" /\ May("commands", MaxCommands) /\ Tally("commands")
    /\ order' = [NoOrder EXCEPT !.step = "remove"]
    /\ UNCHANGED <<file, partial, ledger, card, had, busy, listed, spoiled, outlived, vouched>>

-----------------------------------------------------------------------------
(* Unlinking, one file at a time. *)

UnlinkFile(s) ==
    /\ file[s] # None /\ file' = [file EXCEPT ![s] = None]
    /\ UNCHANGED <<partial, ledger>>
UnlinkPart(s) ==
    /\ partial[s] # None /\ partial' = [partial EXCEPT ![s] = None]
    /\ UNCHANGED <<file, ledger>>
UnlinkLedger(s) ==
    /\ ledger[s] # NoLedger /\ ledger' = [ledger EXCEPT ![s] = NoLedger]
    /\ UNCHANGED <<file, partial>>
Unlinked(s) == file[s] = None /\ partial[s] = None /\ ledger[s] = NoLedger

\* --force: of each shard the file, then what could be resumed; not the manifest.
Clear ==
    /\ order.step = "clear"
    /\ \/ UnlinkFile(Cur)
       \/ file[Cur] = None /\ UnlinkPart(Cur)
       \/ file[Cur] = None /\ partial[Cur] = None /\ UnlinkLedger(Cur)
    /\ UNCHANGED <<card, order, had, busy, listed, spoiled, outlived, vouched, bounds>>

Cleared ==
    /\ order.step = "clear" /\ Unlinked(Cur)
    /\ order' = IF order.at < Len(Parts) THEN [order EXCEPT !.at = @ + 1]
                ELSE [order EXCEPT !.step = "open", !.at = 1]
    /\ UNCHANGED <<file, partial, ledger, card, had, busy, listed, spoiled, outlived, vouched,
                   bounds>>

\* rmtree(): in whatever order the directory lists them.
RemoveOne ==
    /\ order.step = "remove"
    /\ \/ /\ \E s \in Shards : UnlinkFile(s) \/ UnlinkPart(s) \/ UnlinkLedger(s)
          /\ UNCHANGED card
       \/ card.kind # "none" /\ card' = NoCard /\ UNCHANGED <<file, partial, ledger>>
    /\ UNCHANGED <<order, had, busy, listed, spoiled, outlived, vouched, bounds>>

RemovalDone ==
    /\ order.step = "remove" /\ card.kind = "none" /\ \A s \in Shards : Unlinked(s)
    /\ order' = [order EXCEPT !.step = "configure"]
    /\ UNCHANGED <<file, partial, ledger, card, had, busy, listed, spoiled, outlived, vouched,
                   bounds>>

-----------------------------------------------------------------------------
(* download_file(). *)

Next1 ==
    IF order.at < Len(Parts) THEN [order EXCEPT !.step = "open", !.at = @ + 1]
    ELSE [order EXCEPT !.step = "validate"]

\* The part becomes the file.
Place(body) ==
    /\ file' = [file EXCEPT ![Cur] = body]
    /\ partial' = [partial EXCEPT ![Cur] = None]
    /\ vouched' = "nothing"

\* A file of the right size is taken as it is.
Present ==
    /\ order.step = "open" /\ file[Cur].size = "full"
    /\ order' = Next1
    /\ UNCHANGED <<file, partial, ledger, card, had, busy, listed, spoiled, outlived, vouched,
                   bounds>>

\* Its size unknown, the file comes as one stream, whatever was there: all of it, what
\* came before the server closed, or an error that leaves the part.  No ledger is
\* looked at, and one that was there stays.
Stream(outcome) ==
    /\ order.step = "open" /\ May("bad", MaxBadAnswers) /\ Tally("bad")
    /\ LET whole == [size |-> "full", body |-> [c \in Chunks |-> "data"]]
           start == [size |-> "odd", body |-> [c \in Chunks |-> "hole"]]
       IN  IF outcome = "cut"
           THEN /\ partial' = [partial EXCEPT ![Cur] = start] /\ order' = NoOrder
                /\ spoiled' = spoiled \cup {Cur} /\ UNCHANGED <<file, vouched>>
           ELSE /\ Place(IF outcome = "whole" THEN whole ELSE start)
                /\ order' = [Next1 EXCEPT !.unsized = @ \cup {Cur}]
                /\ spoiled' = spoiled \ {Cur}
    /\ UNCHANGED <<ledger, card, had, busy, listed, outlived>>

\* The recorded ranges, when there is a part to hold them.
RangesKept == IF partial[Cur].size # "none" /\ ledger[Cur] # NoLedger THEN ledger[Cur] ELSE {}

\* A part that is absent or of another size is made anew; what a ledger says stays,
\* and is neither corrected nor removed before the first range is in.
OpenPart ==
    /\ order.step = "open" /\ file[Cur].size # "full"
    /\ had' = RangesKept /\ busy' = {}
    /\ partial' = [partial EXCEPT ![Cur] = IF @.size = "full" THEN @ ELSE Sparse]
    /\ spoiled' = IF RangesKept = {} THEN spoiled \ {Cur} ELSE spoiled
    /\ outlived' = IF partial[Cur].size # "full" /\ ledger[Cur] # NoLedger THEN outlived \cup {Cur}
                   ELSE IF RangesKept = {} THEN outlived \ {Cur} ELSE outlived
    /\ order' = [order EXCEPT !.step = "fetch"]
    /\ UNCHANGED <<file, ledger, card, listed, vouched, bounds>>

\* The ledger says what is being fetched.
TakeOnRecord(c) ==
    /\ order.step = "fetch" /\ c \in Chunks \ (had \cup busy)
    /\ busy' = busy \cup {c} /\ ledger' = [ledger EXCEPT ![Cur] = had \cup busy']
    /\ UNCHANGED <<file, partial, card, order, had, listed, spoiled, outlived, vouched, bounds>>

Take(c) ==
    /\ order.step = "fetch" /\ c \in Chunks \ (had \cup busy)
    /\ busy' = busy \cup {c}
    /\ UNCHANGED <<file, partial, ledger, card, order, had, listed, spoiled, outlived, vouched,
                   bounds>>

Holds(c, what) == partial' = [partial EXCEPT ![Cur].body[c] = what]

\* _download_range() and the flush of the ledger, which from then on says what this
\* part holds unless ranges were kept.
Fetched(c) ==
    /\ order.step = "fetch" /\ c \in busy
    /\ Holds(c, "data")
    /\ busy' = busy \ {c} /\ had' = had \cup {c}
    /\ ledger' = [ledger EXCEPT ![Cur] = had']
    /\ outlived' = IF had = {} THEN outlived \ {Cur} ELSE outlived
    /\ UNCHANGED <<file, card, order, listed, spoiled, vouched, bounds>>

\* A short answer: some of it is written; the range is fetched again.
Short(c) ==
    /\ order.step = "fetch" /\ c \in busy /\ May("bad", MaxBadAnswers) /\ Tally("bad")
    /\ Holds(c, "junk") /\ busy' = busy \ {c}
    /\ UNCHANGED <<file, ledger, card, order, had, listed, spoiled, outlived, vouched>>

\* The whole file for an answer: it is written from the range on, over whatever the
\* other connections wrote, and taken for a short read.
Misranged(c) ==
    /\ order.step = "fetch" /\ c \in busy /\ May("bad", MaxBadAnswers) /\ Tally("bad")
    /\ partial' = [partial EXCEPT
          ![Cur].size = IF c = 1 THEN @ ELSE "odd",
          ![Cur].body = [d \in Chunks |-> IF d < c THEN @[d] ELSE IF c = 1 THEN "data" ELSE "junk"]]
    /\ busy' = busy \ {c} /\ spoiled' = spoiled \cup {Cur}
    /\ UNCHANGED <<file, ledger, card, order, had, listed, outlived, vouched>>

\* All ranges recorded: the part becomes the file; of another size, the install ends
\* and leaves part and ledger behind.
PlaceShard ==
    /\ order.step = "fetch" /\ had = Chunks /\ busy = {}
    /\ IF partial[Cur].size = "full"
       THEN Place(partial[Cur]) /\ order' = [order EXCEPT !.step = "placed"]
       ELSE UNCHANGED <<file, partial, vouched>> /\ order' = NoOrder
    /\ had' = {}
    /\ UNCHANGED <<ledger, card, busy, listed, spoiled, outlived, bounds>>

\* And then its ledger goes.
DropLedger ==
    /\ order.step = "placed"
    /\ ledger' = [ledger EXCEPT ![Cur] = NoLedger] /\ order' = Next1
    /\ UNCHANGED <<file, partial, card, had, busy, listed, spoiled, outlived, vouched, bounds>>

-----------------------------------------------------------------------------
\* The verdict is written either way, with the sizes that were known.
Validate ==
    /\ order.step = "validate"
    /\ LET ok == Valid(order.hash, order.unsized)
       IN  card' = [kind |-> "card", validated |-> ok, hashed |-> order.hash /\ ok,
                    unsized |-> order.unsized]
    /\ vouched' = IF order.hash THEN "hash" ELSE "size"
    /\ order' = [order EXCEPT !.step = "configure"]
    /\ UNCHANGED <<file, partial, ledger, had, busy, listed, spoiled, outlived, bounds>>

\* regenerate_configs() over installed_models().
Configure ==
    /\ order.step = "configure" /\ order' = NoOrder /\ listed' = Installed
    /\ UNCHANGED <<file, partial, ledger, card, had, busy, spoiled, outlived, vouched, bounds>>

\* Ctrl-C, a kill, a range that fails four times, a full disk.  The manifest is
\* written in place; a fetch that is cut off leaves the start of its range.
Interrupt(torn, halves) ==
    /\ order.step # "idle" /\ May("interrupts", MaxInterrupts) /\ Tally("interrupts")
    /\ torn => order.step = "validate"
    /\ card' = IF torn THEN [NoCard EXCEPT !.kind = "torn"] ELSE card
    /\ halves \subseteq busy
    /\ partial' = [partial EXCEPT ![Cur].body =
                      [c \in Chunks |-> IF c \in halves THEN "junk" ELSE @[c]]]
    /\ order' = NoOrder /\ had' = {} /\ busy' = {}
    /\ UNCHANGED <<file, ledger, listed, spoiled, outlived, vouched>>

FetchInit ==
    /\ file = [s \in Shards |-> None] /\ partial = [s \in Shards |-> None]
    /\ ledger = [s \in Shards |-> NoLedger] /\ card = NoCard /\ order = NoOrder
    /\ had = {} /\ busy = {} /\ listed = FALSE /\ spoiled = {} /\ outlived = {}
    /\ vouched = "nothing"
    /\ bounds = [commands |-> 0, interrupts |-> 0, bad |-> 0]

FetchNext ==
    \/ \E force, hash \in BOOLEAN : Install(force, hash)
    \/ \E hash \in BOOLEAN : VerifyModel(hash)
    \/ RemoveModel \/ RemoveOne \/ RemovalDone \/ Clear \/ Cleared
    \/ Present \/ OpenPart \/ PlaceShard \/ DropLedger \/ Validate \/ Configure
    \/ \E outcome \in {"whole", "short", "cut"} : Stream(outcome)
    \/ \E c \in Chunks : Take(c) \/ Fetched(c) \/ Short(c) \/ Misranged(c)
    \/ \E torn \in BOOLEAN, halves \in SUBSET busy : Interrupt(torn, halves)

FetchSpec == FetchInit /\ [][FetchNext]_fetchVars

-----------------------------------------------------------------------------
\* A file in its place is whole: however often installs were interrupted, forced or
\* removed half way and resumed, and in whatever order its ranges came, a shard of the
\* right size holds every byte, unless an answer that was not the range asked for, or a
\* stream that was cut off, touched it, or its part was made under the ledger of one
\* that was gone and the download was cut off before its first range.  And a manifest
\* that says hash-checked, written by a check that hashed, stands for whole files,
\* where a hash is published, until one is fetched again.
FilesAreWhole ==
    /\ \A s \in Shards \ (spoiled \cup outlived) : file[s].size = "full" => Whole(s)
    /\ Installed /\ card.hashed /\ vouched = "hash" => \A s \in Digested : Whole(s)
=============================================================================
